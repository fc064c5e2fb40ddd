---------------------------- MODULE MesonProofs ----------------------------
(***************************************************************************)
(* Proofs that the Meson contract keeps its types, settles every swap once *)
(* and stays solvent, and that the four steps of a swap on two chains make *)
(* it atomic, for any chains, pools, tokens, swaps and amounts.            *)
(***************************************************************************)
EXTENDS MesonProtocol, TotalsTheorems

\* A slot of _postedSwaps and the events of its swap agree, and a swap whose
\* slot was freed can never pass the time check of a post again.
SlotOK(c, s) ==
  LET log == swapLog[c][s]
      st == posted[c][s].st
  IN  /\ st = "posted" => log.post = 1 /\ log.execute = 0 /\ log.cancel = 0
      /\ st = "finished" => log.post = 1 /\ log.execute = 1 /\ log.cancel = 0
      /\ st = "none" =>
           \/ log.post = 0 /\ log.execute = 0 /\ log.cancel = 0
           \/ /\ log.post = 1 /\ log.execute + log.cancel = 1
              /\ s.expireTs < Timestamp(c) + MIN_BOND_TIME_PERIOD

SlotInv == \A c \in Chain, s \in Swap : SlotOK(c, s)

\* A swap that was locked has amounts that can be computed, and a release
\* leaves its mark.
LockOK(c, x) ==
  /\ IsLocked(c, x) => Computable(x[1])
  /\ releases[c][x] = (IF locked[c][x].st = "released" THEN 1 ELSE 0)

LockInv == \A c \in Chain, x \in SwapId : LockOK(c, x)

IInv == TypeOK /\ SlotInv /\ LockInv
-----------------------------------------------------------------------------
(* Facts about swaps and ledgers. *)

\* The fields of a swap have their types.
LEMMA SwapFacts ==
  ASSUME NEW s \in Swap
  PROVE  /\ s.amount \in Nat /\ s.fee \in Nat /\ s.expireTs \in Nat
         /\ s.inChain \in Chain /\ s.outChain \in Chain
         /\ s.inToken \in Token /\ s.outToken \in Token
         /\ s.toContract \in BOOLEAN /\ s.feeWaived \in BOOLEAN
         /\ s.coreValue \in Nat /\ s.corePrice \in Nat
         /\ s.share \in BOOLEAN /\ s.shareAmount \in Nat /\ s.sharePool \in Pool
<1>1. s \in SwapFields
  BY SwapAssumption
<1> QED BY <1>1 DEF SwapFields

\* The amounts computed from a swap are integers, and naturals when the
\* computation does not revert.
LEMMA AmountFacts ==
  ASSUME NEW s \in Swap
  PROVE  /\ FeePaid(s) \in Nat
         /\ AmountToShare(s) \in Nat
         /\ AmountForCoreToken(s) \in Int
         /\ AmountToLock(s) \in Int
         /\ ReleaseAmount(s) \in Int
         /\ Computable(s) => AmountToLock(s) \in Nat /\ CoreTokenAmount(s) \in Nat
<1>1. s.amount * SERVICE_FEE_RATE \in Nat
  BY SwapFacts, AmountAssumption
<1>2. (s.amount * SERVICE_FEE_RATE) \div FeeBase \in Nat
  BY <1>1, AmountAssumption
<1>3. MinFee(s.inToken) \in Nat
  BY AmountAssumption DEF MinFee
<1>4. FeePaid(s) \in Nat
  BY <1>2, <1>3 DEF FeePaid, ServiceFee
<1>5. AmountToShare(s) \in Nat
  BY SwapFacts DEF AmountToShare
<1>6. AmountForCoreToken(s) \in Int
  BY <1>4, SwapFacts DEF AmountForCoreToken
<1>7. AmountToLock(s) \in Int
  BY <1>6, SwapFacts DEF AmountToLock
<1>8. ReleaseAmount(s) \in Int
  BY <1>4, <1>5, <1>7 DEF ReleaseAmount
<1>9. ASSUME Computable(s)
      PROVE  AmountToLock(s) \in Nat /\ CoreTokenAmount(s) \in Nat
  <2>1. AmountToLock(s) \in Nat
    BY <1>7, <1>9 DEF Computable
  <2>2. CASE AmountForCoreToken(s) > 0
    <3>1. AmountForCoreToken(s) \in Nat /\ s.corePrice \in Nat \ {0}
      BY <1>6, <1>9, <2>2, SwapFacts DEF Computable
    <3>2. AmountForCoreToken(s) \div s.corePrice \in Nat
      BY <3>1
    <3> QED BY <2>1, <2>2, <3>2 DEF CoreTokenAmount
  <2>3. CASE ~(AmountForCoreToken(s) > 0)
    BY <2>1, <2>3 DEF CoreTokenAmount
  <2> QED BY <2>2, <2>3
<1> QED BY <1>4, <1>5, <1>6, <1>7, <1>8, <1>9

\* Credits and debits keep a chain's ledger a ledger.
LEMMA LedgerType ==
  ASSUME NEW K, NEW b \in [K -> Nat], NEW k \in K, NEW n \in Nat
  PROVE  /\ Credit(b, k, n) \in [K -> Nat]
         /\ b[k] >= n => Debit(b, k, n) \in [K -> Nat]
BY DEF Credit, Debit

\* The core token's index is a token index, and the keys exist.
LEMMA KeyFacts ==
  ASSUME TypeOK, NEW c \in Chain
  PROVE  /\ CoreIndex(c) \in Token \cup {0}
         /\ 0 \in Pool /\ 1 \in Pool
         /\ \A t \in Token : AssetOf(t) \in Asset
         /\ 0 \in Asset
<1>1. CoreIndex(c) \in Token \cup {0}
  BY DEF TypeOK, CoreIndex
<1>2. 0 \in Pool /\ 1 \in Pool
  BY TokenAssumption DEF Pool
<1> QED BY <1>1, <1>2 DEF AssetOf, Asset
-----------------------------------------------------------------------------
(* Types. *)

MoneyType ==
  balance \in [Chain -> [Key -> Nat]] /\ held \in [Chain -> [Asset -> Nat]]

SwapType ==
  /\ posted \in [Chain -> [Swap -> SwapStatus]]
  /\ swapLog \in [Chain -> [Swap -> EventCounts]]

LockType ==
  /\ locked \in [Chain -> [SwapId -> LockStatus]]
  /\ releases \in [Chain -> [SwapId -> Nat]]

RegistryType ==
  /\ poolOfAuthorizedAddr \in [Chain -> [Addr -> Pool]]
  /\ ownerOfPool \in [Chain -> [Pool -> Addr \cup {NoAddr}]]

AdminType ==
  /\ supported \in [Chain -> SUBSET Token]
  /\ owner \in [Chain -> Addr]
  /\ premiumManager \in [Chain -> Addr]

\* The parts of the type invariant, in the groups that calls leave alone.
LEMMA TypeParts ==
  TypeOK <=> /\ now \in Nat /\ releaseSigs \subseteq Signature
             /\ AdminType /\ RegistryType /\ MoneyType /\ SwapType /\ LockType
BY DEF TypeOK, AdminType, RegistryType, MoneyType, SwapType, LockType

\* A deposit keeps the type of what is held.
LEMMA DepositTokenType ==
  ASSUME TypeOK, NEW c \in Chain, NEW t \in Token, NEW n \in Nat, NEW v \in Nat,
         DepositToken(c, t, n, v)
  PROVE  held' \in [Chain -> [Asset -> Nat]]
BY DEF TypeOK, DepositToken

\* A transfer out never takes more than is held.
LEMMA SafeTransferType ==
  ASSUME TypeOK, NEW c \in Chain, NEW t \in Token, NEW a, NEW n \in Nat,
         SafeTransfer(c, t, a, n)
  PROVE  held' \in [Chain -> [Asset -> Nat]]
<1>1. AssetOf(t) \in Asset
  BY KeyFacts
<1> QED BY <1>1 DEF TypeOK, SafeTransfer

\* A credit keeps the type of the balances.
LEMMA CreditType ==
  ASSUME TypeOK, NEW c \in Chain, NEW k \in Key, NEW n \in Nat,
         balance' = [balance EXCEPT ![c] = Credit(@, k, n)]
  PROVE  balance' \in [Chain -> [Key -> Nat]]
<1>1. balance[c] \in [Key -> Nat]
  BY DEF TypeOK
<1>2. Credit(balance[c], k, n) \in [Key -> Nat]
  BY <1>1, LedgerType
<1> QED BY <1>2 DEF TypeOK

\* Counting an event of one swap.
LEMMA CountType ==
  ASSUME NEW log \in EventCounts, NEW e \in Event
  PROVE  /\ Count(log, e) \in EventCounts
         /\ Count(log, e)[e] = log[e] + 1
         /\ \A f \in Event \ {e} : Count(log, e)[f] = log[f]
BY DEF Count, EventCounts

\* Recording events keeps the type of the history.
LEMMA SwapLogType ==
  ASSUME TypeOK, NEW c \in Chain, NEW s \in Swap, NEW log \in EventCounts,
         swapLog' = [swapLog EXCEPT ![c][s] = log]
  PROVE  swapLog' \in [Chain -> [Swap -> EventCounts]]
BY DEF TypeOK

\* Setting a slot keeps the type of the slots.
LEMMA PostedType ==
  ASSUME TypeOK, NEW c \in Chain, NEW s \in Swap, NEW st \in SwapStatus,
         posted' = [posted EXCEPT ![c][s] = st]
  PROVE  posted' \in [Chain -> [Swap -> SwapStatus]]
BY DEF TypeOK

\* A post keeps the types of slots and history.
LEMMA RecordPostType ==
  ASSUME TypeOK, NEW c \in Chain, NEW s \in Swap, NEW i \in Initiator,
         NEW p \in Pool, RecordPost(c, s, i, p)
  PROVE  SwapType'
<1>1. Posted(i, p) \in SwapStatus
  BY DEF Posted, SwapStatus
<1>2. swapLog[c][s] \in EventCounts
  BY DEF TypeOK
<1>3. Count(swapLog[c][s], "post") \in EventCounts
  BY <1>2, CountType DEF Event
<1>4. swapLog' = [swapLog EXCEPT ![c][s] = Count(swapLog[c][s], "post")]
  BY DEF RecordPost
<1>5. posted' = [posted EXCEPT ![c][s] = Posted(i, p)]
  BY DEF RecordPost
<1> QED BY <1>1, <1>3, <1>4, <1>5, SwapLogType, PostedType DEF SwapType

\* Every call of the initial-chain side keeps the types.
LEMMA SwapCallType ==
  ASSUME TypeOK, NEW c \in Chain, SwapCall(c)
  PROVE  TypeOK'
<1> DEFINE Goal == SwapType' /\ MoneyType'
<1>1. PICK s \in Swap :
       \/ \E caller \in Addr, i \in Initiator, p \in Pool : PostSwap(c, caller, s, i, p)
       \/ \E i \in Initiator, p \in Pool, v \in MsgValues :
            PostSwapFromInitiator(c, i, s, p, v)
       \/ \E contract \in Addr, i \in Initiator, p \in Pool, v \in MsgValues :
            PostSwapFromContract(c, contract, s, i, p, v)
       \/ \E caller \in Addr, p \in Pool : BondSwap(c, caller, s, p)
       \/ CancelSwap(c, s)
       \/ \E recipient \in Recipient : CancelSwapTo(c, s, recipient)
       \/ \E recipient \in Recipient, d \in BOOLEAN : ExecuteSwap(c, s, recipient, d)
       \/ \E i \in Initiator, recipient \in Recipient, v \in MsgValues :
            DirectExecuteSwap(c, s, i, recipient, v)
       \/ \E v \in MsgValues : SimpleExecuteSwap(c, s, v)
  BY DEF SwapCall
<1>2. /\ s.inToken \in Token /\ s.amount \in Nat
      /\ \A p \in Pool : <<s.inToken, p>> \in Key
      /\ NotPosted \in SwapStatus /\ Finished \in SwapStatus
      /\ posted[c][s] \in SwapStatus /\ swapLog[c][s] \in EventCounts
      /\ 1 \in Pool
  BY SwapFacts, TokenAssumption DEF Key, NotPosted, Finished, SwapStatus, Pool, TypeOK
<1>3. MsgValues \subseteq Nat
  BY AmountAssumption
<1>4. ASSUME NEW i \in Initiator, NEW p \in Pool, NEW v \in Nat,
             DepositToken(c, s.inToken, s.amount, v), RecordPost(c, s, i, p),
             UNCHANGED balance
      PROVE  Goal
  BY <1>2, <1>4, DepositTokenType, RecordPostType DEF MoneyType, TypeOK
<1>5. ASSUME NEW caller \in Addr, NEW p \in Pool, BondSwap(c, caller, s, p)
      PROVE  Goal
  BY <1>2, <1>5 DEF BondSwap, SwapType, SwapStatus, TypeOK, MoneyType, moneyVars
<1>6. ASSUME NEW a, RefundTo(c, s, a)
      PROVE  Goal
  <2>1. SwapType'
    <3>1. posted' = [posted EXCEPT ![c][s] = NotPosted]
      BY <1>6 DEF RefundTo
    <3>2. swapLog' = [swapLog EXCEPT ![c][s] = Count(swapLog[c][s], "cancel")]
      BY <1>6 DEF RefundTo
    <3> QED BY <1>2, <3>1, <3>2, PostedType, SwapLogType, CountType DEF SwapType, Event
  <2>2. MoneyType'
    BY <1>2, <1>6, SafeTransferType DEF RefundTo, MoneyType, TypeOK
  <2> QED BY <2>1, <2>2
<1>7. ASSUME NEW recipient, NEW d \in BOOLEAN, ExecuteSwap(c, s, recipient, d)
      PROVE  Goal
  <2>1. SwapType'
    <3>1. posted' = [posted EXCEPT ![c][s] = AfterExecution(c, s)]
      BY <1>7 DEF ExecuteSwap
    <3>2. swapLog' = [swapLog EXCEPT ![c][s] = Count(swapLog[c][s], "execute")]
      BY <1>7 DEF ExecuteSwap
    <3>3. AfterExecution(c, s) \in SwapStatus
      BY <1>2 DEF AfterExecution
    <3> QED
      BY <1>2, <3>1, <3>2, <3>3, PostedType, SwapLogType, CountType DEF SwapType, Event
  <2>2. MoneyType'
    <3>1. <<s.inToken, posted[c][s].pool>> \in Key
      BY <1>2 DEF SwapStatus
    <3>2. CASE d
      BY <1>2, <1>7, <3>1, <3>2, CreditType DEF ExecuteSwap, MoneyType, TypeOK
    <3>3. CASE ~d
      BY <1>2, <1>7, <3>3, SafeTransferType DEF ExecuteSwap, MoneyType, TypeOK
    <3> QED BY <3>2, <3>3
  <2> QED BY <2>1, <2>2
<1>8. ASSUME NEW v \in Nat, ExecuteAtOnce(c, s, v)
      PROVE  Goal
  <2>1. SwapType'
    <3>1. posted' = [posted EXCEPT ![c][s] = Finished]
      BY <1>8 DEF ExecuteAtOnce
    <3>2. swapLog' = [swapLog EXCEPT
                        ![c][s] = Count(Count(swapLog[c][s], "post"), "execute")]
      BY <1>8 DEF ExecuteAtOnce
    <3>3. Count(Count(swapLog[c][s], "post"), "execute") \in EventCounts
      BY <1>2, CountType DEF Event
    <3> QED BY <1>2, <3>1, <3>2, <3>3, PostedType, SwapLogType DEF SwapType
  <2>2. MoneyType'
    BY <1>2, <1>8, CreditType, DepositTokenType DEF ExecuteAtOnce, MoneyType
  <2> QED BY <2>1, <2>2
<1>9. Goal
  BY <1>1, <1>3, <1>4, <1>5, <1>6, <1>7, <1>8
     DEF PostSwap, PostSwapFromInitiator, PostSwapFromContract, CancelSwap,
         CancelSwapTo, DirectExecuteSwap, SimpleExecuteSwap
<1>10. UNCHANGED <<envVars, adminVars, registryVars, lockVars>>
  BY DEF SwapCall
<1>11. now' \in Nat /\ releaseSigs' \subseteq Signature
  BY <1>10 DEF TypeOK, envVars
<1>12. AdminType' /\ RegistryType' /\ LockType'
  BY <1>10 DEF TypeOK, adminVars, registryVars, lockVars, AdminType, RegistryType, LockType
<1> QED
  BY <1>9, <1>11, <1>12
  DEF TypeOK, AdminType, RegistryType, MoneyType, SwapType, LockType

\* A chain's ledger replaced by another one.
LEMMA BalanceType ==
  ASSUME TypeOK, NEW c \in Chain, NEW b \in [Key -> Nat],
         balance' = [balance EXCEPT ![c] = b]
  PROVE  balance' \in [Chain -> [Key -> Nat]]
BY DEF TypeOK

\* Setting a lock keeps the type of the locks.
LEMMA LockedType ==
  ASSUME TypeOK, NEW c \in Chain, NEW x \in SwapId, NEW st \in LockStatus,
         locked' = [locked EXCEPT ![c][x] = st]
  PROVE  locked' \in [Chain -> [SwapId -> LockStatus]]
BY DEF TypeOK

\* A release keeps the types of locks and history.
LEMMA RecordReleaseType ==
  ASSUME TypeOK, NEW c \in Chain, NEW x \in SwapId, RecordRelease(c, x)
  PROVE  LockType'
<1>1. Released \in LockStatus
  BY TokenAssumption DEF Released, LockStatus, Pool
<1> QED BY <1>1, LockedType DEF RecordRelease, LockType, TypeOK

\* Debiting two keys whose results are not negative.
LEMMA TwoDebits ==
  ASSUME NEW K, NEW b \in [K -> Nat], NEW k \in K, NEW l \in K,
         NEW m \in Nat, NEW n \in Nat,
         Debit(Debit(b, k, m), l, n)[k] >= 0, Debit(Debit(b, k, m), l, n)[l] >= 0
  PROVE  Debit(Debit(b, k, m), l, n) \in [K -> Nat]
BY DEF Debit

\* Paying a recipient keeps what is held a ledger.
LEMMA PayRecipientType ==
  ASSUME TypeOK, NEW c \in Chain, NEW s \in Swap, NEW m \in Nat, NEW n \in Nat,
         PayRecipient(c, s, m, n)
  PROVE  held' \in [Chain -> [Asset -> Nat]]
<1> DEFINE h == Debit(Debit(held[c], 0, n), AssetOf(s.outToken), m)
<1>1. 0 \in Asset /\ AssetOf(s.outToken) \in Asset
  BY KeyFacts, SwapFacts
<1>2. held[c] \in [Asset -> Nat]
  BY DEF TypeOK
<1>3. held' = [held EXCEPT ![c] = h]
  BY DEF PayRecipient
<1>4. held'[c] = h
  BY <1>3 DEF TypeOK
<1>5. h[0] >= 0 /\ h[AssetOf(s.outToken)] >= 0
  BY <1>4 DEF PayRecipient
<1>6. h \in [Asset -> Nat]
  BY <1>1, <1>2, <1>5, TwoDebits
<1> HIDE DEF h
<1> QED BY <1>3, <1>6 DEF TypeOK

\* Settling the fees of a swap credits two keys.
LEMMA SettleFeesType ==
  ASSUME TypeOK, NEW s \in Swap, NEW b \in [Key -> Nat]
  PROVE  SettleFees(b, s) \in [Key -> Nat]
<1>1. <<s.outToken, 0>> \in Key /\ <<s.outToken, s.sharePool>> \in Key
  BY SwapFacts, TokenAssumption DEF Key, Pool
<1>2. Credit(b, <<s.outToken, 0>>, FeePaid(s)) \in [Key -> Nat]
  BY <1>1, AmountFacts, LedgerType
<1> QED BY <1>1, <1>2, AmountFacts, LedgerType DEF SettleFees

\* The keys and the pool of a lock.
LEMMA LockKeys ==
  ASSUME TypeOK, NEW c \in Chain, NEW s \in Swap, NEW p \in Pool
  PROVE  /\ <<s.outToken, p>> \in Key /\ <<CoreIndex(c), p>> \in Key
         /\ balance[c] \in [Key -> Nat]
BY KeyFacts, SwapFacts DEF Key, TypeOK

\* Locking takes from a pool no more than it has.
LEMMA LockSwapType ==
  ASSUME TypeOK, NEW c \in Chain, NEW caller \in Addr, NEW s \in Swap,
         NEW i \in Initiator, LockSwap(c, caller, s, i)
  PROVE  balance' \in [Chain -> [Key -> Nat]] /\ LockType'
<1> DEFINE p == poolOfAuthorizedAddr[c][caller]
           until == LockUntil(c)
<1>1. p \in Pool /\ <<s, i>> \in SwapId
  BY DEF TypeOK, SwapId
<1>2. until \in Nat
  <2>1. now \in Nat
    BY DEF TypeOK
  <2> QED BY <2>1, TimeAssumption DEF Timestamp, LockUntil
<1>3. Computable(s) /\ AmountToLock(s) \in Nat /\ CoreTokenAmount(s) \in Nat
  BY AmountFacts DEF LockSwap
<1>4. balance' = [balance EXCEPT ![c] = LockFunds(c, s, p)]
  BY DEF LockSwap
<1>5. LockFunds(c, s, p) \in [Key -> Nat]
  <2>1. balance'[c] = LockFunds(c, s, p)
    BY <1>4 DEF TypeOK
  <2>2. LockFunds(c, s, p)[<<s.outToken, p>>] >= 0
        /\ LockFunds(c, s, p)[<<CoreIndex(c), p>>] >= 0
    BY <2>1 DEF LockSwap
  <2> HIDE DEF p
  <2> QED BY <1>1, <1>3, <2>2, LockKeys, TwoDebits DEF LockFunds
<1>6. Locked(until, p) \in LockStatus
  BY <1>1, <1>2 DEF Locked, LockStatus
<1>7. locked' = [locked EXCEPT ![c][<<s, i>>] = Locked(until, p)]
  BY DEF LockSwap
<1> HIDE DEF p, until
<1> QED BY <1>1, <1>4, <1>5, <1>6, <1>7, BalanceType, LockedType
        DEF LockSwap, LockType, TypeOK

\* Unlocking gives back amounts that were computed when locking.
LEMMA UnlockType ==
  ASSUME TypeOK, LockInv, NEW c \in Chain, NEW s \in Swap, NEW i \in Initiator,
         Unlock(c, s, i)
  PROVE  balance' \in [Chain -> [Key -> Nat]] /\ LockType'
<1> DEFINE p == locked[c][<<s, i>>].pool
<1>1. <<s, i>> \in SwapId
  BY DEF SwapId
<1>2. p \in Pool
  BY <1>1 DEF TypeOK, LockStatus
<1>3. Computable(s)
  BY <1>1 DEF Unlock, LockInv, LockOK
<1>4. AmountToLock(s) \in Nat /\ CoreTokenAmount(s) \in Nat
  BY <1>3, AmountFacts
<1>5. UnlockFunds(c, s, p) \in [Key -> Nat]
  <2> HIDE DEF p
  <2>1. Credit(balance[c], <<s.outToken, p>>, AmountToLock(s)) \in [Key -> Nat]
    BY <1>2, <1>4, LockKeys, LedgerType
  <2> QED BY <1>2, <1>4, <2>1, LockKeys, LedgerType DEF UnlockFunds
<1>6. NotLocked \in LockStatus
  BY TokenAssumption DEF NotLocked, LockStatus, Pool
<1>7. /\ balance' = [balance EXCEPT ![c] = UnlockFunds(c, s, p)]
      /\ locked' = [locked EXCEPT ![c][<<s, i>>] = NotLocked]
  BY DEF Unlock
<1> HIDE DEF p
<1> QED BY <1>1, <1>5, <1>6, <1>7, BalanceType, LockedType, ZenonT(40)
        DEF Unlock, LockType, TypeOK

\* A release pays no more than the contract holds.
LEMMA ReleaseType ==
  ASSUME TypeOK, LockInv, NEW c \in Chain, NEW b \in BOOLEAN, NEW s \in Swap,
         NEW i \in Initiator, NEW a, Release(c, b, s, i, a)
  PROVE  MoneyType' /\ LockType'
<1>1. <<s, i>> \in SwapId
  BY DEF SwapId
<1>2. Computable(s)
  BY <1>1 DEF Release, LockInv, LockOK
<1>3. ReleaseAmount(s) \in Nat /\ CoreTokenAmount(s) \in Nat
  BY <1>2, AmountFacts DEF Release
<1>4. SettleFees(balance[c], s) \in [Key -> Nat]
  BY SettleFeesType DEF TypeOK
<1> QED BY <1>1, <1>3, <1>4, BalanceType, PayRecipientType, RecordReleaseType
        DEF Release, MoneyType

\* A release without a lock takes from a pool no more than it has.
LEMMA DirectReleaseType ==
  ASSUME TypeOK, NEW c \in Chain, NEW caller \in Addr, NEW b \in BOOLEAN,
         NEW s \in Swap, NEW i \in Initiator, NEW a, NEW signed \in BOOLEAN,
         DirectRelease(c, caller, b, s, i, a, signed)
  PROVE  MoneyType' /\ LockType'
<1> DEFINE p == poolOfAuthorizedAddr[c][caller]
           b1 == Debit(balance[c], <<s.outToken, p>>, AmountToLock(s))
           b2 == SettleFees(b1, s)
           b3 == Debit(b2, <<CoreIndex(c), p>>, CoreTokenAmount(s))
<1>1. <<s, i>> \in SwapId /\ p \in Pool
  BY DEF SwapId, TypeOK
<1>2. Computable(s)
  BY DEF DirectRelease
<1>3. /\ ReleaseAmount(s) \in Nat /\ CoreTokenAmount(s) \in Nat
      /\ AmountToLock(s) \in Nat
  BY <1>2, AmountFacts DEF DirectRelease
<1>4. balance' = [balance EXCEPT ![c] = b3]
  BY DEF DirectRelease
<1>5. balance[c][<<s.outToken, p>>] >= AmountToLock(s)
  BY DEF DirectRelease, Affords
<1>6. b1 \in [Key -> Nat]
  <2> HIDE DEF p
  <2> QED BY <1>1, <1>3, <1>5, LockKeys, LedgerType
<1>7. b2 \in [Key -> Nat]
  <2> HIDE DEF b1
  <2> QED BY <1>6, SettleFeesType
<1>8. b3[<<CoreIndex(c), p>>] >= 0
  BY <1>4 DEF DirectRelease, TypeOK
<1>9. b3 \in [Key -> Nat]
  <2>1. <<CoreIndex(c), p>> \in Key
    <3> HIDE DEF p
    <3> QED BY <1>1, LockKeys
  <2> HIDE DEF p, b2
  <2> QED BY <1>3, <1>7, <1>8, <2>1 DEF Debit
<1>10. held' \in [Chain -> [Asset -> Nat]]
  BY <1>3, PayRecipientType DEF DirectRelease
<1>11. LockType'
  BY <1>1, RecordReleaseType DEF DirectRelease
<1> HIDE DEF b3
<1> QED BY <1>4, <1>9, <1>10, <1>11, BalanceType DEF MoneyType

\* Every call of the target-chain side keeps the types.
LEMMA PoolCallType ==
  ASSUME TypeOK, LockInv, NEW c \in Chain, PoolCall(c)
  PROVE  TypeOK'
<1> DEFINE Goal == MoneyType' /\ LockType' /\ RegistryType'
<1>1. PICK caller \in Addr :
       \/ \E t \in Token, p \in Pool, n \in Amounts, v \in MsgValues :
            \/ DepositAndRegister(c, caller, t, p, n, v)
            \/ Deposit(c, caller, t, p, n, v)
       \/ \E t \in Token, p \in Pool, n \in Amounts : Withdraw(c, caller, t, p, n)
       \/ \E a \in Addr :
            \/ AddAuthorizedAddr(c, caller, a)
            \/ RemoveAuthorizedAddr(c, caller, a)
            \/ TransferPoolOwner(c, caller, a)
       \/ \E s \in Swap, i \in Initiator :
            \/ LockSwap(c, caller, s, i)
            \/ Unlock(c, s, i)
            \/ \E recipient \in Recipient :
                 \/ Release(c, caller = premiumManager[c], s, i, recipient)
                 \/ \E signed \in BOOLEAN :
                      DirectRelease(c, caller, caller = premiumManager[c],
                                    s, i, recipient, signed)
  BY DEF PoolCall
<1>2. Amounts \subseteq Nat /\ MsgValues \subseteq Nat
  BY AmountAssumption
<1>3. \A t \in Token, p \in Pool : <<t, p>> \in Key
  BY DEF Key
<1>4. poolOfAuthorizedAddr[c][caller] \in Pool /\ 0 \in Pool
  BY KeyFacts DEF TypeOK
<1>5. ASSUME NEW t \in Token, NEW p \in Pool, NEW n \in Nat, NEW v \in Nat,
             DepositAndRegister(c, caller, t, p, n, v)
      PROVE  Goal
  <2>1. MoneyType'
    BY <1>3, <1>5, CreditType, DepositTokenType DEF DepositAndRegister, MoneyType
  <2>2. RegistryType'
    BY <1>5 DEF DepositAndRegister, RegistryType, TypeOK
  <2>3. LockType'
    BY <1>5 DEF DepositAndRegister, LockType, TypeOK, lockVars
  <2> QED BY <2>1, <2>2, <2>3
<1>6. ASSUME NEW t \in Token, NEW p \in Pool, NEW n \in Nat, NEW v \in Nat,
             Deposit(c, caller, t, p, n, v)
      PROVE  Goal
  <2>1. MoneyType'
    BY <1>3, <1>6, CreditType, DepositTokenType DEF Deposit, MoneyType
  <2>2. RegistryType' /\ LockType'
    BY <1>6 DEF Deposit, RegistryType, LockType, TypeOK, lockVars, registryVars
  <2> QED BY <2>1, <2>2
<1>7. ASSUME NEW t \in Token, NEW p \in Pool, NEW n \in Nat,
             Withdraw(c, caller, t, p, n)
      PROVE  Goal
  <2>1. Debit(balance[c], <<t, p>>, n) \in [Key -> Nat]
    BY <1>3, <1>7, LedgerType DEF Withdraw, Affords, TypeOK
  <2>2. MoneyType'
    BY <1>7, <2>1, BalanceType, SafeTransferType DEF Withdraw, MoneyType
  <2>3. RegistryType' /\ LockType'
    BY <1>7 DEF Withdraw, RegistryType, LockType, TypeOK, lockVars, registryVars
  <2> QED BY <2>2, <2>3
<1>8. ASSUME NEW a \in Addr,
             \/ AddAuthorizedAddr(c, caller, a)
             \/ RemoveAuthorizedAddr(c, caller, a)
             \/ TransferPoolOwner(c, caller, a)
      PROVE  Goal
  <2>1. MoneyType' /\ LockType'
    BY <1>8 DEF AddAuthorizedAddr, RemoveAuthorizedAddr, TransferPoolOwner,
                MoneyType, LockType, TypeOK, moneyVars, lockVars
  <2>2. RegistryType'
    <3>1. CASE AddAuthorizedAddr(c, caller, a)
      BY <1>4, <3>1 DEF AddAuthorizedAddr, RegistryType, TypeOK
    <3>2. CASE RemoveAuthorizedAddr(c, caller, a)
      BY <1>4, <3>2 DEF RemoveAuthorizedAddr, RegistryType, TypeOK
    <3>3. CASE TransferPoolOwner(c, caller, a)
      BY <1>4, <3>3 DEF TransferPoolOwner, RegistryType, TypeOK
    <3> QED BY <1>8, <3>1, <3>2, <3>3
  <2> QED BY <2>1, <2>2
<1>9. ASSUME NEW s \in Swap, NEW i \in Initiator,
             LockSwap(c, caller, s, i) \/ Unlock(c, s, i)
      PROVE  Goal
  <2>1. balance' \in [Chain -> [Key -> Nat]] /\ LockType'
    BY <1>9, LockSwapType, UnlockType
  <2>2. UNCHANGED <<held, registryVars>>
    BY <1>9 DEF LockSwap, Unlock
  <2> QED BY <2>1, <2>2 DEF MoneyType, RegistryType, TypeOK, registryVars
<1>10. ASSUME NEW s \in Swap, NEW i \in Initiator, NEW recipient \in Recipient,
              NEW signed \in BOOLEAN,
             \/ Release(c, caller = premiumManager[c], s, i, recipient)
             \/ DirectRelease(c, caller, caller = premiumManager[c],
                              s, i, recipient, signed)
       PROVE  Goal
  <2>1. MoneyType' /\ LockType'
    BY <1>10, ReleaseType, DirectReleaseType
  <2>2. UNCHANGED registryVars
    BY <1>10 DEF Release, DirectRelease
  <2> QED BY <2>1, <2>2 DEF RegistryType, TypeOK, registryVars
<1>11. Goal
  <2> HIDE DEF Goal
  <2> QED BY <1>1, <1>2, <1>5, <1>6, <1>7, <1>8, <1>9, <1>10
<1>12. UNCHANGED <<envVars, adminVars, swapVars>>
  BY DEF PoolCall
<1>13. now' \in Nat /\ releaseSigs' \subseteq Signature /\ AdminType' /\ SwapType'
  BY <1>12 DEF TypeOK, envVars, adminVars, swapVars, AdminType, SwapType
<1> QED
  BY <1>11, <1>13
  DEF TypeOK, AdminType, RegistryType, MoneyType, SwapType, LockType

\* Moving service fees moves an amount from one key to another.
LEMMA WithdrawServiceFeeType ==
  ASSUME TypeOK, NEW c \in Chain, NEW caller \in Addr, NEW t \in Token,
         NEW n \in Nat, NEW p \in Pool, WithdrawServiceFee(c, caller, t, n, p)
  PROVE  MoneyType'
<1>1. <<t, 0>> \in Key /\ <<t, p>> \in Key /\ balance[c] \in [Key -> Nat]
  BY KeyFacts DEF Key, TypeOK
<1>2. Debit(balance[c], <<t, 0>>, n) \in [Key -> Nat]
  BY <1>1, LedgerType DEF WithdrawServiceFee, Affords
<1>3. Credit(Debit(balance[c], <<t, 0>>, n), <<t, p>>, n) \in [Key -> Nat]
  BY <1>1, <1>2, LedgerType
<1> QED BY <1>3, BalanceType DEF WithdrawServiceFee, MoneyType, TypeOK

\* A swap within one chain keeps the types of the ledgers.
LEMMA DirectSwapType ==
  ASSUME TypeOK, NEW c \in Chain, NEW s \in Swap, NEW a, DirectSwap(c, s, a)
  PROVE  MoneyType'
<1> DEFINE out == s.amount - s.fee
           b1 == Credit(balance[c], <<s.inToken, 1>>, s.amount)
           b2 == Debit(b1, <<s.outToken, 1>>, out)
           h1 == Credit(held[c], s.inToken, s.amount)
           h2 == Debit(h1, AssetOf(s.outToken), out)
<1>1. /\ <<s.inToken, 1>> \in Key /\ <<s.outToken, 1>> \in Key
      /\ balance[c] \in [Key -> Nat] /\ held[c] \in [Asset -> Nat]
      /\ s.amount \in Nat /\ AssetOf(s.outToken) \in Asset
  BY KeyFacts, SwapFacts DEF Key, TypeOK
<1>2. out \in Nat /\ s.inToken \in Asset
  BY SwapFacts DEF DirectSwap, Asset
<1>3. b1 \in [Key -> Nat] /\ h1 \in [Asset -> Nat]
  BY <1>1, <1>2, LedgerType
<1>4. /\ balance' = [balance EXCEPT ![c] = b2]
      /\ held' = [held EXCEPT ![c] = h2]
  BY DEF DirectSwap
<1>5. b2[<<s.outToken, 1>>] >= 0 /\ h2[AssetOf(s.outToken)] >= 0
  BY <1>4 DEF DirectSwap, TypeOK
<1>6. b2 \in [Key -> Nat] /\ h2 \in [Asset -> Nat]
  <2> HIDE DEF b1, h1, out
  <2> QED BY <1>1, <1>2, <1>3, <1>5 DEF Debit
<1> HIDE DEF b2, h2
<1> QED BY <1>4, <1>6, BalanceType DEF MoneyType, TypeOK

\* Every call of the managers keeps the types.
LEMMA ManagerCallType ==
  ASSUME TypeOK, NEW c \in Chain, ManagerCall(c)
  PROVE  TypeOK'
<1>1. PICK caller \in Addr :
    \/ /\ \/ \E ts \in SUBSET Token : AddSupportTokens(c, caller, ts)
          \/ \E t \in Token : RemoveSupportToken(c, caller, t)
          \/ \E a \in Addr : TransferOwnership(c, caller, a)
          \/ \E a \in Addr : TransferPremiumManager(c, caller, a)
       /\ UNCHANGED <<envVars, registryVars, moneyVars, swapVars, lockVars>>
    \/ /\ \/ \E t \in Token, n \in Amounts, p \in Pool :
               WithdrawServiceFee(c, caller, t, n, p)
          \/ \E s \in Swap, recipient \in Recipient : DirectSwap(c, s, recipient)
       /\ UNCHANGED <<envVars, adminVars, registryVars, swapVars, lockVars>>
  BY DEF ManagerCall
<1>2. CASE
       /\ \/ \E ts \in SUBSET Token : AddSupportTokens(c, caller, ts)
          \/ \E t \in Token : RemoveSupportToken(c, caller, t)
          \/ \E a \in Addr : TransferOwnership(c, caller, a)
          \/ \E a \in Addr : TransferPremiumManager(c, caller, a)
       /\ UNCHANGED <<envVars, registryVars, moneyVars, swapVars, lockVars>>
  <2>1. AdminType'
    BY <1>2, ZenonT(40) DEF AddSupportTokens, RemoveSupportToken, TransferOwnership,
                TransferPremiumManager, AdminType, TypeOK
  <2> QED BY <1>2, <2>1
          DEF TypeOK, AdminType, envVars, registryVars, moneyVars, swapVars, lockVars
<1>3. CASE
       /\ \/ \E t \in Token, n \in Amounts, p \in Pool :
               WithdrawServiceFee(c, caller, t, n, p)
          \/ \E s \in Swap, recipient \in Recipient : DirectSwap(c, s, recipient)
       /\ UNCHANGED <<envVars, adminVars, registryVars, swapVars, lockVars>>
  <2>1. MoneyType'
    BY <1>3, AmountAssumption, WithdrawServiceFeeType, DirectSwapType
  <2> QED BY <1>3, <2>1
          DEF TypeOK, MoneyType, envVars, adminVars, registryVars, swapVars, lockVars
<1> QED BY <1>1, <1>2, <1>3
-----------------------------------------------------------------------------
(* Settling once. *)

\* What a step may do to one swap's slot and events on one chain.
SlotStep(c, s) ==
  LET log == swapLog[c][s]
      st == posted[c][s].st
  IN  \/ posted'[c][s] = posted[c][s] /\ swapLog'[c][s] = log
      \/ /\ st = "posted" /\ posted'[c][s].st = "posted"
         /\ posted[c][s].pool = 0
         /\ swapLog'[c][s] = log
      \/ /\ VerifyEncodedSwap(c, s)
         /\ posted'[c][s].st = "posted"
         /\ swapLog'[c][s] = Count(log, "post")
      \/ /\ VerifyEncodedSwap(c, s)
         /\ posted'[c][s].st = "finished"
         /\ swapLog'[c][s] = Count(Count(log, "post"), "execute")
      \/ /\ st = "posted" /\ Expired(c, s)
         /\ posted'[c][s].st = "none"
         /\ swapLog'[c][s] = Count(log, "cancel")
      \/ /\ st = "posted"
         /\ posted'[c][s] = AfterExecution(c, s)
         /\ swapLog'[c][s] = Count(log, "execute")

\* Only the swap that a call names changes.
OthersStay(c, s) ==
  \A d \in Chain, r \in Swap :
    d # c \/ r # s => posted'[d][r] = posted[d][r] /\ swapLog'[d][r] = swapLog[d][r]

OnlySlot(c, s) == OthersStay(c, s) /\ SlotStep(c, s)

\* Every call of the initial-chain side is such a step.
LEMMA SwapCallSlot ==
  ASSUME TypeOK, NEW c \in Chain, SwapCall(c)
  PROVE  \E s \in Swap : OnlySlot(c, s)
<1>1. PICK s \in Swap :
       \/ \E caller \in Addr, i \in Initiator, p \in Pool : PostSwap(c, caller, s, i, p)
       \/ \E i \in Initiator, p \in Pool, v \in MsgValues :
            PostSwapFromInitiator(c, i, s, p, v)
       \/ \E contract \in Addr, i \in Initiator, p \in Pool, v \in MsgValues :
            PostSwapFromContract(c, contract, s, i, p, v)
       \/ \E caller \in Addr, p \in Pool : BondSwap(c, caller, s, p)
       \/ CancelSwap(c, s)
       \/ \E recipient \in Recipient : CancelSwapTo(c, s, recipient)
       \/ \E recipient \in Recipient, d \in BOOLEAN : ExecuteSwap(c, s, recipient, d)
       \/ \E i \in Initiator, recipient \in Recipient, v \in MsgValues :
            DirectExecuteSwap(c, s, i, recipient, v)
       \/ \E v \in MsgValues : SimpleExecuteSwap(c, s, v)
  BY DEF SwapCall
<1> SUFFICES OnlySlot(c, s)
  OBVIOUS
<1>2. ASSUME NEW i, NEW p, VerifyEncodedSwap(c, s), RecordPost(c, s, i, p)
      PROVE  OnlySlot(c, s)
  <2>1. /\ posted' = [posted EXCEPT ![c][s] = Posted(i, p)]
        /\ swapLog' = [swapLog EXCEPT ![c][s] = Count(swapLog[c][s], "post")]
    BY <1>2 DEF RecordPost
  <2>2. /\ posted'[c][s] = Posted(i, p)
        /\ swapLog'[c][s] = Count(swapLog[c][s], "post")
        /\ OthersStay(c, s)
    BY <2>1 DEF TypeOK, OthersStay
  <2>3. SlotStep(c, s)
    BY <1>2, <2>2 DEF Posted, SlotStep
  <2> QED BY <2>2, <2>3 DEF OnlySlot
<1>3. ASSUME NEW caller, NEW p, BondSwap(c, caller, s, p)
      PROVE  OnlySlot(c, s)
  <2>1. /\ posted' = [posted EXCEPT ![c][s] = [posted[c][s] EXCEPT !.pool = p]]
        /\ swapLog' = [swapLog EXCEPT ![c][s] = swapLog[c][s]]
        /\ posted[c][s].st = "posted" /\ posted[c][s].pool = 0
    BY <1>3 DEF BondSwap, IsPosted, TypeOK
  <2>2. /\ posted'[c][s] = [posted[c][s] EXCEPT !.pool = p]
        /\ swapLog'[c][s] = swapLog[c][s]
        /\ OthersStay(c, s)
    BY <2>1 DEF TypeOK, OthersStay
  <2>3. SlotStep(c, s)
    BY <2>1, <2>2 DEF SlotStep, TypeOK, SwapStatus
  <2> QED BY <2>2, <2>3 DEF OnlySlot
<1>4. ASSUME NEW a, RefundTo(c, s, a)
      PROVE  OnlySlot(c, s)
  <2>1. /\ posted' = [posted EXCEPT ![c][s] = NotPosted]
        /\ swapLog' = [swapLog EXCEPT ![c][s] = Count(swapLog[c][s], "cancel")]
        /\ posted[c][s].st = "posted" /\ Expired(c, s)
    BY <1>4 DEF RefundTo, IsPosted
  <2>2. /\ posted'[c][s] = NotPosted
        /\ swapLog'[c][s] = Count(swapLog[c][s], "cancel")
        /\ OthersStay(c, s)
    BY <2>1 DEF TypeOK, OthersStay
  <2>3. SlotStep(c, s)
    BY <2>1, <2>2 DEF NotPosted, SlotStep
  <2> QED BY <2>2, <2>3 DEF OnlySlot
<1>5. ASSUME NEW a, NEW d, ExecuteSwap(c, s, a, d)
      PROVE  OnlySlot(c, s)
  <2>1. /\ posted' = [posted EXCEPT ![c][s] = AfterExecution(c, s)]
        /\ swapLog' = [swapLog EXCEPT ![c][s] = Count(swapLog[c][s], "execute")]
        /\ posted[c][s].st = "posted"
    BY <1>5 DEF ExecuteSwap, IsPosted
  <2>2. /\ posted'[c][s] = AfterExecution(c, s)
        /\ swapLog'[c][s] = Count(swapLog[c][s], "execute")
        /\ OthersStay(c, s)
    BY <2>1 DEF TypeOK, OthersStay
  <2>3. SlotStep(c, s)
    BY <2>1, <2>2 DEF SlotStep
  <2> QED BY <2>2, <2>3 DEF OnlySlot
<1>6. ASSUME NEW v, ExecuteAtOnce(c, s, v)
      PROVE  OnlySlot(c, s)
  <2>1. /\ posted' = [posted EXCEPT ![c][s] = Finished]
        /\ swapLog' = [swapLog EXCEPT
                        ![c][s] = Count(Count(swapLog[c][s], "post"), "execute")]
        /\ VerifyEncodedSwap(c, s)
    BY <1>6 DEF ExecuteAtOnce
  <2>2. /\ posted'[c][s] = Finished
        /\ swapLog'[c][s] = Count(Count(swapLog[c][s], "post"), "execute")
        /\ OthersStay(c, s)
    BY <2>1 DEF TypeOK, OthersStay
  <2>3. SlotStep(c, s)
    BY <2>1, <2>2 DEF Finished, SlotStep
  <2> QED BY <2>2, <2>3 DEF OnlySlot
<1> QED
  BY <1>1, <1>2, <1>3, <1>4, <1>5, <1>6
     DEF PostSwap, PostSwapFromInitiator, PostSwapFromContract, CancelSwap,
         CancelSwapTo, DirectExecuteSwap, SimpleExecuteSwap

\* Such a step keeps the slot invariant of the swap.
LEMMA SlotStepKeeps ==
  ASSUME TypeOK, NEW c \in Chain, NEW s \in Swap, SlotOK(c, s), SlotStep(c, s),
         UNCHANGED now
  PROVE  SlotOK(c, s)'
<1> DEFINE log == swapLog[c][s]
<1>1. log \in EventCounts /\ log.post \in Nat /\ log.execute \in Nat /\ log.cancel \in Nat
  BY DEF TypeOK, EventCounts, Event
<1>2. /\ s.expireTs \in Nat /\ MIN_BOND_TIME_PERIOD \in Nat
      /\ Timestamp(c) \in Nat /\ Timestamp(c)' = Timestamp(c)
  <2>1. now \in Nat
    BY DEF TypeOK
  <2>2. s.expireTs \in Nat
    BY SwapFacts
  <2> QED BY <2>1, <2>2, TimeAssumption DEF Timestamp
<1>3. \A l \in EventCounts :
        /\ Count(l, "post").post = l.post + 1 /\ Count(l, "post").execute = l.execute
        /\ Count(l, "post").cancel = l.cancel
        /\ Count(l, "execute").execute = l.execute + 1
        /\ Count(l, "execute").post = l.post /\ Count(l, "execute").cancel = l.cancel
        /\ Count(l, "cancel").cancel = l.cancel + 1
        /\ Count(l, "cancel").post = l.post /\ Count(l, "cancel").execute = l.execute
  BY CountType DEF Event
<1>4. Count(log, "post") \in EventCounts
  BY <1>1, CountType DEF Event
<1>5. CASE posted'[c][s] = posted[c][s] /\ swapLog'[c][s] = log
  BY <1>2, <1>5 DEF SlotOK
<1>6. CASE posted[c][s].st = "posted" /\ posted'[c][s].st = "posted" /\ swapLog'[c][s] = log
  BY <1>2, <1>6 DEF SlotOK
<1>7. CASE VerifyEncodedSwap(c, s)
  <2>1. posted[c][s].st = "none"
        /\ ~(s.expireTs < Timestamp(c) + MIN_BOND_TIME_PERIOD)
    BY <1>2, <1>7 DEF VerifyEncodedSwap, NotPosted
  <2>2. log.post = 0 /\ log.execute = 0 /\ log.cancel = 0
    BY <2>1 DEF SlotOK
  <2>3. CASE posted'[c][s].st = "posted" /\ swapLog'[c][s] = Count(log, "post")
    BY <1>1, <1>3, <2>2, <2>3 DEF SlotOK
  <2>4. CASE /\ posted'[c][s].st = "finished"
             /\ swapLog'[c][s] = Count(Count(log, "post"), "execute")
    BY <1>1, <1>3, <1>4, <2>2, <2>4 DEF SlotOK
  <2> QED BY <1>5, <2>1, <2>3, <2>4 DEF SlotStep
<1>8. CASE /\ posted[c][s].st = "posted" /\ Expired(c, s)
           /\ posted'[c][s].st = "none" /\ swapLog'[c][s] = Count(log, "cancel")
  <2>1. log.post = 1 /\ log.execute = 0 /\ log.cancel = 0
    BY <1>8 DEF SlotOK
  <2>2. s.expireTs < Timestamp(c) + MIN_BOND_TIME_PERIOD
    BY <1>2, <1>8 DEF Expired
  <2> QED BY <1>1, <1>2, <1>3, <1>8, <2>1, <2>2 DEF SlotOK
<1>9. CASE /\ posted[c][s].st = "posted" /\ posted'[c][s] = AfterExecution(c, s)
           /\ swapLog'[c][s] = Count(log, "execute")
  <2>1. log.post = 1 /\ log.execute = 0 /\ log.cancel = 0
    BY <1>9 DEF SlotOK
  <2>2. CASE s.expireTs < Timestamp(c) + MIN_BOND_TIME_PERIOD
    <3>1. posted'[c][s].st = "none"
      BY <1>9, <2>2 DEF AfterExecution, NotPosted
    <3> QED BY <1>1, <1>2, <1>3, <1>9, <2>1, <2>2, <3>1 DEF SlotOK
  <2>3. CASE ~(s.expireTs < Timestamp(c) + MIN_BOND_TIME_PERIOD)
    <3>1. posted'[c][s].st = "finished"
      BY <1>9, <2>3 DEF AfterExecution, Finished
    <3> QED BY <1>1, <1>3, <1>9, <2>1, <3>1 DEF SlotOK
  <2> QED BY <2>2, <2>3
<1> QED BY <1>5, <1>6, <1>7, <1>8, <1>9 DEF SlotStep

\* The passing of time only helps: what could not be posted again still cannot.
LEMMA SlotTick ==
  ASSUME TypeOK, SlotInv, now' = now + 1, UNCHANGED swapVars
  PROVE  SlotInv'
<1> SUFFICES ASSUME NEW c \in Chain, NEW s \in Swap
             PROVE  SlotOK(c, s)'
  BY DEF SlotInv
<1>1. /\ s.expireTs \in Nat /\ MIN_BOND_TIME_PERIOD \in Nat
      /\ Timestamp(c) \in Nat /\ Timestamp(c)' = Timestamp(c) + 1
  <2>1. now \in Nat
    BY DEF TypeOK
  <2>2. s.expireTs \in Nat
    BY SwapFacts
  <2> QED BY <2>1, <2>2, TimeAssumption DEF Timestamp
<1>2. posted'[c][s] = posted[c][s] /\ swapLog'[c][s] = swapLog[c][s]
  BY DEF swapVars
<1>3. SlotOK(c, s)
  BY DEF SlotInv
<1> QED BY <1>1, <1>2, <1>3 DEF SlotOK

\* Nothing about the slots changes.
LEMMA SlotSame ==
  ASSUME SlotInv, UNCHANGED <<now, swapVars>>
  PROVE  SlotInv'
BY DEF SlotInv, SlotOK, Timestamp, swapVars

\* Every step keeps the slots right.
LEMMA SlotInvStep ==
  ASSUME TypeOK, SlotInv, [Next]_vars
  PROVE  SlotInv'
<1>1. CASE \E c \in Chain : SwapCall(c)
  <2>1. PICK c \in Chain : SwapCall(c)
    BY <1>1
  <2>2. PICK s \in Swap : OnlySlot(c, s)
    BY <2>1, SwapCallSlot
  <2>3. UNCHANGED now
    BY <2>1 DEF SwapCall, envVars
  <2>4. SlotOK(c, s)'
    BY <2>2, <2>3, SlotStepKeeps DEF SlotInv, OnlySlot
  <2>5. ASSUME NEW d \in Chain, NEW r \in Swap, d # c \/ r # s
        PROVE  SlotOK(d, r)'
    <3>1. posted'[d][r] = posted[d][r] /\ swapLog'[d][r] = swapLog[d][r]
      BY <2>2, <2>5 DEF OnlySlot, OthersStay
    <3>2. SlotOK(d, r)
      BY DEF SlotInv
    <3> QED BY <2>3, <3>1, <3>2 DEF SlotOK, Timestamp
  <2> QED BY <2>4, <2>5 DEF SlotInv
<1>2. CASE \E c \in Chain : PoolCall(c) \/ ManagerCall(c)
  <2>1. UNCHANGED <<now, swapVars>>
    BY <1>2 DEF PoolCall, ManagerCall, envVars
  <2> QED BY <2>1, SlotSame
<1>3. CASE \E s \in Swap, i \in Initiator, a \in Recipient : SignRelease(s, i, a)
  BY <1>3, SlotSame DEF SignRelease
<1>4. CASE Tick
  BY <1>4, SlotTick DEF Tick
<1>5. CASE UNCHANGED vars
  BY <1>5, SlotSame DEF vars, envVars
<1> QED BY <1>1, <1>2, <1>3, <1>4, <1>5 DEF Next
-----------------------------------------------------------------------------
(* Releasing once. *)

\* What a step may do to the lock of one swap.
LockStep(c, x) ==
  LET st == locked[c][x].st
      st2 == locked'[c][x].st
  IN  \/ locked'[c][x] = locked[c][x] /\ releases'[c][x] = releases[c][x]
      \/ /\ st = "none" /\ st2 = "locked" /\ Computable(x[1])
         /\ releases'[c][x] = releases[c][x]
      \/ st = "locked" /\ st2 = "none" /\ releases'[c][x] = releases[c][x]
      \/ st # "released" /\ st2 = "released" /\ releases'[c][x] = releases[c][x] + 1

\* Every call of the target-chain side is such a step for every lock.
LEMMA PoolCallLock ==
  ASSUME TypeOK, NEW c \in Chain, PoolCall(c)
  PROVE  \A d \in Chain, x \in SwapId : LockStep(d, x)
<1>1. CASE UNCHANGED lockVars
  BY <1>1 DEF lockVars, LockStep
<1>2. CASE \E s \in Swap, i \in Initiator : \E caller \in Addr : LockSwap(c, caller, s, i)
  <2>1. PICK s \in Swap, i \in Initiator, caller \in Addr : LockSwap(c, caller, s, i)
    BY <1>2
  <2>2. PICK y : y = Locked(LockUntil(c), poolOfAuthorizedAddr[c][caller])
    OBVIOUS
  <2>3. y.st = "locked"
    BY <2>2 DEF Locked
  <2>4. /\ locked' = [locked EXCEPT ![c][<<s, i>>] = y]
        /\ locked[c][<<s, i>>].st = "none" /\ Computable(s)
        /\ UNCHANGED releases
    BY <2>1, <2>2 DEF LockSwap, NotLocked
  <2>5. <<s, i>> \in SwapId
    BY DEF SwapId
  <2>6. ASSUME NEW d \in Chain, NEW x \in SwapId, d = c /\ x = <<s, i>>
        PROVE  LockStep(d, x)
    <3>1. locked'[c][<<s, i>>] = y
      BY <2>4, <2>5 DEF TypeOK
    <3> QED BY <2>3, <2>4, <2>6, <3>1 DEF LockStep
  <2>7. ASSUME NEW d \in Chain, NEW x \in SwapId, ~(d = c /\ x = <<s, i>>)
        PROVE  LockStep(d, x)
    BY <2>4, <2>5, <2>7 DEF LockStep, TypeOK
  <2> QED BY <2>6, <2>7
<1>3. CASE \E s \in Swap, i \in Initiator : Unlock(c, s, i)
  <2>1. PICK s \in Swap, i \in Initiator : Unlock(c, s, i)
    BY <1>3
  <2>2. /\ locked' = [locked EXCEPT ![c][<<s, i>>] = NotLocked]
        /\ locked[c][<<s, i>>].st = "locked" /\ NotLocked.st = "none"
        /\ UNCHANGED releases
    BY <2>1 DEF Unlock, IsLocked, NotLocked
  <2>3. <<s, i>> \in SwapId
    BY DEF SwapId
  <2> QED BY <2>2, <2>3 DEF LockStep, TypeOK
<1>4. ASSUME NEW s \in Swap, NEW i \in Initiator, RecordRelease(c, <<s, i>>),
             locked[c][<<s, i>>].st # "released"
      PROVE  \A d \in Chain, x \in SwapId : LockStep(d, x)
  <2>1. /\ locked' = [locked EXCEPT ![c][<<s, i>>] = Released]
        /\ releases' = [releases EXCEPT ![c][<<s, i>>] = releases[c][<<s, i>>] + 1]
        /\ Released.st = "released"
    BY <1>4 DEF RecordRelease, Released
  <2>2. <<s, i>> \in SwapId
    BY DEF SwapId
  <2> QED BY <1>4, <2>1, <2>2 DEF LockStep, TypeOK
<1>5. CASE \E s \in Swap, i \in Initiator, b \in BOOLEAN, a \in Recipient : Release(c, b, s, i, a)
  BY <1>4, <1>5 DEF Release, IsLocked
<1>6. CASE \E s \in Swap, i \in Initiator, b \in BOOLEAN, a \in Recipient,
             caller \in Addr, signed \in BOOLEAN :
             DirectRelease(c, caller, b, s, i, a, signed)
  <2>1. PICK s \in Swap, i \in Initiator, b \in BOOLEAN, a \in Recipient,
             caller \in Addr, signed \in BOOLEAN :
             DirectRelease(c, caller, b, s, i, a, signed)
    BY <1>6
  <2>2. RecordRelease(c, <<s, i>>) /\ locked[c][<<s, i>>].st = "none"
    BY <2>1 DEF DirectRelease, NotLocked
  <2> QED BY <1>4, <2>2
<1>7. CASE \E caller \in Addr, t \in Token, p \in Pool, n \in Amounts, v \in MsgValues :
             DepositAndRegister(c, caller, t, p, n, v) \/ Deposit(c, caller, t, p, n, v)
  BY <1>1, <1>7 DEF DepositAndRegister, Deposit
<1>8. CASE \E caller \in Addr, t \in Token, p \in Pool, n \in Amounts :
             Withdraw(c, caller, t, p, n)
  BY <1>1, <1>8 DEF Withdraw
<1>9. CASE \E caller \in Addr, a \in Addr :
             \/ AddAuthorizedAddr(c, caller, a) \/ RemoveAuthorizedAddr(c, caller, a)
             \/ TransferPoolOwner(c, caller, a)
  BY <1>1, <1>9 DEF AddAuthorizedAddr, RemoveAuthorizedAddr, TransferPoolOwner
<1>10. PICK caller \in Addr :
         \/ \E t \in Token, p \in Pool, n \in Amounts, v \in MsgValues :
              DepositAndRegister(c, caller, t, p, n, v) \/ Deposit(c, caller, t, p, n, v)
         \/ \E t \in Token, p \in Pool, n \in Amounts : Withdraw(c, caller, t, p, n)
         \/ \E a \in Addr : \/ AddAuthorizedAddr(c, caller, a)
                          \/ RemoveAuthorizedAddr(c, caller, a)
                          \/ TransferPoolOwner(c, caller, a)
         \/ \E s \in Swap, i \in Initiator :
              \/ LockSwap(c, caller, s, i)
              \/ Unlock(c, s, i)
              \/ \E a \in Recipient :
                   \/ Release(c, caller = premiumManager[c], s, i, a)
                   \/ \E signed \in BOOLEAN :
                        DirectRelease(c, caller, caller = premiumManager[c], s, i, a, signed)
  BY DEF PoolCall
<1>11. CASE \E s \in Swap, i \in Initiator : LockSwap(c, caller, s, i) \/ Unlock(c, s, i)
  BY <1>2, <1>3, <1>11
<1>12. CASE \E s \in Swap, i \in Initiator, a \in Recipient :
              Release(c, caller = premiumManager[c], s, i, a)
  <2>1. (caller = premiumManager[c]) \in BOOLEAN
    OBVIOUS
  <2> QED BY <1>5, <1>12, <2>1, Zenon
<1>13. CASE \E s \in Swap, i \in Initiator, a \in Recipient, signed \in BOOLEAN :
              DirectRelease(c, caller, caller = premiumManager[c], s, i, a, signed)
  <2>1. (caller = premiumManager[c]) \in BOOLEAN
    OBVIOUS
  <2> QED BY <1>6, <1>13, <2>1, Zenon
<1> QED BY <1>7, <1>8, <1>9, <1>10, <1>11, <1>12, <1>13

\* Every step keeps the locks right.
LEMMA LockInvStep ==
  ASSUME TypeOK, LockInv, [Next]_vars
  PROVE  LockInv'
<1>1. \A d \in Chain, x \in SwapId : LockStep(d, x)
  <2>1. CASE \E c \in Chain : PoolCall(c)
    BY <2>1, PoolCallLock
  <2>2. CASE ~(\E c \in Chain : PoolCall(c))
    <3>1. UNCHANGED lockVars
      BY <2>2 DEF Next, vars, SwapCall, ManagerCall, SignRelease, Tick
    <3> QED BY <3>1 DEF lockVars, LockStep
  <2> QED BY <2>1, <2>2
<1> SUFFICES ASSUME NEW c \in Chain, NEW x \in SwapId
             PROVE  LockOK(c, x)'
  BY DEF LockInv
<1>2. LockStep(c, x) /\ LockOK(c, x)
  BY <1>1 DEF LockInv
<1> QED BY <1>2 DEF LockOK, LockStep, IsLocked
-----------------------------------------------------------------------------
(* The invariant. *)

\* A contract that was just deployed satisfies the invariant.
LEMMA InitInv ==
  ASSUME Init
  PROVE  IInv
<1>1. /\ 0 \in Pool /\ NotPosted \in SwapStatus /\ NotLocked \in LockStatus
      /\ NoEvents \in EventCounts
  BY TokenAssumption DEF Pool, NotPosted, SwapStatus, NotLocked, LockStatus,
                         NoEvents, EventCounts
<1>2. TypeOK
  BY <1>1, AddrAssumption, TokenAssumption DEF Init, SwapInit, PoolsInit, TypeOK
<1>3. SlotInv
  BY DEF Init, SwapInit, SlotInv, SlotOK, NotPosted, NoEvents, Event
<1>4. LockInv
  BY DEF Init, PoolsInit, LockInv, LockOK, NotLocked, IsLocked
<1> QED BY <1>2, <1>3, <1>4 DEF IInv

\* Every step keeps the types.
LEMMA TypeStep ==
  ASSUME TypeOK, LockInv, [Next]_vars
  PROVE  TypeOK'
<1>1. CASE \E c \in Chain : SwapCall(c) \/ PoolCall(c) \/ ManagerCall(c)
  BY <1>1, SwapCallType, PoolCallType, ManagerCallType
<1>2. CASE \E s \in Swap, i \in Initiator, a \in Recipient : SignRelease(s, i, a)
  BY <1>2 DEF SignRelease, TypeOK, Signature, adminVars, registryVars, moneyVars,
              swapVars, lockVars
<1>3. CASE Tick
  BY <1>3 DEF Tick, TypeOK, adminVars, registryVars, moneyVars, swapVars, lockVars
<1>4. CASE UNCHANGED vars
  BY <1>4 DEF vars, TypeOK, envVars, adminVars, registryVars, moneyVars,
              swapVars, lockVars
<1> QED BY <1>1, <1>2, <1>3, <1>4 DEF Next

\* The strengthening is inductive: it holds at first and every step keeps it.
THEOREM Invariance == Spec => []IInv
<1>1. Init => IInv
  BY InitInv
<1>2. IInv /\ [Next]_vars => IInv'
  BY TypeStep, SlotInvStep, LockInvStep DEF IInv
<1> QED BY <1>1, <1>2, PTL DEF Spec

\* Every variable keeps its type; in particular no balance and no holding of
\* the contract is ever negative.
THEOREM TypeCorrect == Spec => []TypeOK
<1>1. IInv => TypeOK
  BY DEF IInv
<1> QED BY <1>1, Invariance, PTL

\* A posted swap's funds are taken once and leave once, although executeSwap
\* and cancelSwap free the slot that guards against posting again.
THEOREM SwapsSettleOnce == Spec => []SettledOnce
<1>1. IInv => SettledOnce
  <2> SUFFICES ASSUME IInv, NEW c \in Chain, NEW s \in Swap
               PROVE  /\ swapLog[c][s].post <= 1
                      /\ swapLog[c][s].execute + swapLog[c][s].cancel
                           <= swapLog[c][s].post
                      /\ IsPosted(c, s) <=> swapLog[c][s].post
                           > swapLog[c][s].execute + swapLog[c][s].cancel
    BY DEF SettledOnce
  <2>1. SlotOK(c, s) /\ posted[c][s] \in SwapStatus /\ swapLog[c][s] \in EventCounts
    BY DEF IInv, SlotInv, TypeOK
  <2>2. posted[c][s].st \in {"none", "finished", "posted"}
    BY <2>1 DEF SwapStatus
  <2>3. \A e \in Event : swapLog[c][s][e] \in Nat
    BY <2>1 DEF EventCounts
  <2>4. /\ swapLog[c][s].post \in Nat /\ swapLog[c][s].execute \in Nat
        /\ swapLog[c][s].cancel \in Nat
    BY <2>3 DEF Event
  <2>5. CASE posted[c][s].st = "posted"
    BY <2>1, <2>4, <2>5 DEF SlotOK, IsPosted
  <2>6. CASE posted[c][s].st = "finished"
    BY <2>1, <2>4, <2>6 DEF SlotOK, IsPosted
  <2>7. CASE posted[c][s].st = "none"
    <3>1. \/ /\ swapLog[c][s].post = 0 /\ swapLog[c][s].execute = 0
             /\ swapLog[c][s].cancel = 0
          \/ swapLog[c][s].post = 1 /\ swapLog[c][s].execute + swapLog[c][s].cancel = 1
      BY <2>1, <2>7 DEF SlotOK
    <3> QED BY <2>4, <2>7, <3>1 DEF IsPosted
  <2> QED BY <2>2, <2>5, <2>6, <2>7
<1> QED BY <1>1, Invariance, PTL

\* A swap is released to its recipient at most once.
THEOREM SwapsReleaseOnce == Spec => []ReleasedOnce
<1>1. IInv => ReleasedOnce
  BY DEF IInv, LockInv, LockOK, ReleasedOnce, IsLocked
<1> QED BY <1>1, Invariance, PTL

\* The pool that a swap is bonded to does not change while it is posted.
THEOREM BondsAreFinal == Spec => BondIsFinal
<1> DEFINE Fixed == \A c \in Chain, s \in Swap :
             IsPosted(c, s) /\ IsPosted(c, s)' /\ posted[c][s].pool # 0
               => posted'[c][s] = posted[c][s]
<1>1. IInv /\ [Next]_vars => Fixed
  <2> SUFFICES ASSUME IInv, [Next]_vars, NEW c \in Chain, NEW s \in Swap,
                      IsPosted(c, s), IsPosted(c, s)', posted[c][s].pool # 0
               PROVE  posted'[c][s] = posted[c][s]
    OBVIOUS
  <2>1. CASE \E d \in Chain : SwapCall(d)
    <3>1. PICK d \in Chain, r \in Swap : OnlySlot(d, r)
      BY <2>1, SwapCallSlot DEF IInv
    <3>2. CASE d = c /\ r = s
      <4>1. SlotStep(c, s) /\ posted[c][s].st = "posted" /\ posted'[c][s].st = "posted"
        BY <3>1, <3>2 DEF OnlySlot, IsPosted
      <4>2. ~VerifyEncodedSwap(c, s)
        BY <4>1 DEF VerifyEncodedSwap, NotPosted
      <4>3. posted'[c][s] # AfterExecution(c, s)
        BY <4>1 DEF AfterExecution, NotPosted, Finished
      <4> QED BY <4>1, <4>2, <4>3 DEF SlotStep
    <3>3. CASE ~(d = c /\ r = s)
      BY <3>1, <3>3 DEF OnlySlot, OthersStay
    <3> QED BY <3>2, <3>3
  <2>2. CASE ~(\E d \in Chain : SwapCall(d))
    BY <2>2 DEF Next, PoolCall, ManagerCall, SignRelease, Tick, vars, swapVars
  <2> QED BY <2>1, <2>2
<1>2. IInv /\ [Next]_vars => [Fixed]_vars
  BY <1>1
<1>3. Spec => [][Fixed]_vars
  <2> HIDE DEF Fixed
  <2> QED BY <1>2, Invariance, PTL DEF Spec
<1> QED BY <1>3 DEF BondIsFinal
-----------------------------------------------------------------------------
(* Solvency: on every chain and for every asset, no call makes what the    *)
(* contract owes grow by more than what it holds, and no call pays out     *)
(* more than it takes off what is owed.                                    *)

\* The part of an amount of token t that is in asset a.
Part(t, a, n) == IF AssetOf(t) = a THEN n ELSE 0

\* What the pools own of an asset according to a ledger.
Claim(b, a) == [k \in Key |-> Part(k[1], a, b[k])]
PoolTotal(b, a) == Total(Claim(b, a))

\* The keys, the swaps and the swap ids are finitely many.
LEMMA FiniteDomains ==
  IsFiniteSet(Key) /\ IsFiniteSet(Swap) /\ IsFiniteSet(SwapId)
<1>1. IsFiniteSet(Token \cup {0})
  <2>1. IsFiniteSet(0 .. 255)
    <3>1. 0 \in Int /\ 255 \in Int
      OBVIOUS
    <3> QED BY <3>1, FS_Interval, Zenon
  <2>2. Token \cup {0} \subseteq 0 .. 255
    BY TokenAssumption
  <2> QED BY <2>1, <2>2, FS_Subset
<1>2. IsFiniteSet(Pool)
  BY FS_Interval, TokenAssumption DEF Pool
<1>3. IsFiniteSet(Initiator)
  BY FinitenessAssumption, AddrAssumption, FS_Subset
<1> QED BY <1>1, <1>2, <1>3, FinitenessAssumption, FS_Product DEF Key, SwapId

\* Crediting a key adds to the pools' total of its asset.
LEMMA CreditTotal ==
  ASSUME NEW b \in [Key -> Nat], NEW k \in Key, NEW n \in Nat, NEW a
  PROVE  /\ PoolTotal(b, a) \in Nat
         /\ PoolTotal(Credit(b, k, n), a) = PoolTotal(b, a) + Part(k[1], a, n)
<1> DEFINE f == Claim(b, a)
           g == Claim(Credit(b, k, n), a)
<1>1. f \in [Key -> Nat] /\ g \in [Key -> Nat]
  BY LedgerType DEF Claim, Part, Credit
<1>2. \A l \in Key \ {k} : g[l] = f[l]
  BY DEF Claim, Credit
<1>3. Total(f) \in Nat /\ Total(g) \in Nat
  BY <1>1, FiniteDomains, TotalType
<1>4. Total(g) + f[k] = Total(f) + g[k]
  <2> HIDE DEF f, g
  <2> QED BY <1>1, <1>2, FiniteDomains, TotalChange
<1>5. g[k] = f[k] + Part(k[1], a, n) /\ f[k] \in Nat /\ Part(k[1], a, n) \in Nat
  BY DEF Claim, Credit, Part
<1> HIDE DEF f, g
<1>6. Total(g) = Total(f) + Part(k[1], a, n)
  BY <1>3, <1>4, <1>5
<1> QED BY <1>3, <1>6 DEF f, g, PoolTotal

\* Debiting a key that can afford it takes from the total.
LEMMA DebitTotal ==
  ASSUME NEW b \in [Key -> Nat], NEW k \in Key, NEW n \in Nat, b[k] >= n, NEW a
  PROVE  /\ Debit(b, k, n) \in [Key -> Nat]
         /\ PoolTotal(Debit(b, k, n), a) + Part(k[1], a, n) = PoolTotal(b, a)
<1> DEFINE d == Debit(b, k, n)
<1>1. d \in [Key -> Nat]
  BY LedgerType
<1>2. Credit(d, k, n) = b
  <2>1. Credit(d, k, n) \in [Key -> Nat]
    BY <1>1, LedgerType
  <2>2. \A l \in Key : Credit(d, k, n)[l] = b[l]
    BY DEF Credit, Debit
  <2> HIDE DEF d
  <2> QED BY <2>1, <2>2
<1> HIDE DEF d
<1>3. PoolTotal(Credit(d, k, n), a) = PoolTotal(d, a) + Part(k[1], a, n)
  BY <1>1, CreditTotal
<1> QED BY <1>1, <1>2, <1>3 DEF d

\* The pools' claim is that of the chain's ledger.
LEMMA PoolClaimTotal ==
  ASSUME NEW c \in Chain, NEW a
  PROVE  Total(PoolClaim(c, a)) = PoolTotal(balance[c], a)
BY DEF PoolClaim, PoolTotal, Claim, Part

PostPart(c, s, a) == IF IsPosted(c, s) THEN Part(s.inToken, a, s.amount) ELSE 0

\* Changing the slot of one swap changes what is owed to initiators by the
\* difference of that swap's part.
LEMMA PostTotal ==
  ASSUME NEW c \in Chain, NEW a
  PROVE  /\ Total(PostClaim(c, a)) \in Nat
         /\ Total(PostClaim(c, a))' \in Nat
         /\ \A s \in Swap :
              (\A r \in Swap \ {s} : posted'[c][r] = posted[c][r])
              => Total(PostClaim(c, a))' + PostPart(c, s, a)
                   = Total(PostClaim(c, a)) + PostPart(c, s, a)'
<1> DEFINE f == PostClaim(c, a)
           g == [s \in Swap |-> IF posted'[c][s].st = "posted" /\ AssetOf(s.inToken) = a
                                THEN s.amount ELSE 0]
<1>1. f \in [Swap -> Nat] /\ g \in [Swap -> Nat]
  BY SwapFacts DEF PostClaim
<1>2. PostClaim(c, a)' = g
  BY DEF PostClaim, IsPosted
<1>3. Total(f) \in Nat /\ Total(g) \in Nat
  BY <1>1, FiniteDomains, TotalType
<1>4. ASSUME NEW s \in Swap, \A r \in Swap \ {s} : posted'[c][r] = posted[c][r]
      PROVE  Total(g) + PostPart(c, s, a) = Total(f) + PostPart(c, s, a)'
  <2>1. \A r \in Swap \ {s} : g[r] = f[r]
    BY <1>4 DEF PostClaim, IsPosted
  <2>2. f[s] = PostPart(c, s, a) /\ g[s] = PostPart(c, s, a)'
    BY DEF PostClaim, IsPosted, PostPart, Part
  <2> HIDE DEF f, g
  <2> QED BY <1>1, <2>1, <2>2, FiniteDomains, TotalChange
<1> QED BY <1>2, <1>3, <1>4

LockPart(c, x, a) ==
  IF IsLocked(c, x)
  THEN Part(x[1].outToken, a, AmountToLock(x[1])) + (IF a = 0 THEN CoreTokenAmount(x[1]) ELSE 0)
  ELSE 0

\* The same for what is owed to the recipients of locked swaps.
LEMMA LockTotal ==
  ASSUME NEW c \in Chain, NEW a, LockInv, LockInv'
  PROVE  /\ Total(LockClaim(c, a)) \in Nat
         /\ Total(LockClaim(c, a))' \in Nat
         /\ \A x \in SwapId :
              (\A y \in SwapId \ {x} : locked'[c][y] = locked[c][y])
              => Total(LockClaim(c, a))' + LockPart(c, x, a)
                   = Total(LockClaim(c, a)) + LockPart(c, x, a)'
<1> DEFINE part(x) == Part(x[1].outToken, a, AmountToLock(x[1]))
                      + (IF a = 0 THEN CoreTokenAmount(x[1]) ELSE 0)
           f == LockClaim(c, a)
           g == [x \in SwapId |-> IF locked'[c][x].st = "locked" THEN part(x) ELSE 0]
<1>1. ASSUME NEW x \in SwapId, Computable(x[1])
      PROVE  part(x) \in Nat
  <2>1. x[1] \in Swap
    BY DEF SwapId
  <2> QED BY <1>1, <2>1, AmountFacts DEF Part
<1>2. f \in [SwapId -> Nat] /\ g \in [SwapId -> Nat]
  <2>1. f = [x \in SwapId |-> IF IsLocked(c, x) THEN part(x) ELSE 0]
    BY DEF LockClaim, Part
  <2>2. \A x \in SwapId : IsLocked(c, x) => Computable(x[1])
    BY DEF LockInv, LockOK
  <2>3. \A x \in SwapId : locked'[c][x].st = "locked" => Computable(x[1])
    BY DEF LockInv, LockOK, IsLocked, Computable, AmountForCoreToken, AmountToLock
  <2> HIDE DEF part
  <2> QED BY <1>1, <2>1, <2>2, <2>3
<1>3. LockClaim(c, a)' = g
  BY DEF LockClaim, IsLocked, Part
<1>4. Total(f) \in Nat /\ Total(g) \in Nat
  BY <1>2, FiniteDomains, TotalType
<1>5. ASSUME NEW x \in SwapId, \A y \in SwapId \ {x} : locked'[c][y] = locked[c][y]
      PROVE  Total(g) + LockPart(c, x, a) = Total(f) + LockPart(c, x, a)'
  <2>1. \A y \in SwapId \ {x} : g[y] = f[y]
    BY <1>5 DEF LockClaim, IsLocked, Part
  <2>2. f[x] = LockPart(c, x, a) /\ g[x] = LockPart(c, x, a)'
    BY DEF LockClaim, IsLocked, LockPart, Part
  <2> HIDE DEF f, g
  <2> QED BY <1>2, <2>1, <2>2, FiniteDomains, TotalChange
<1> QED BY <1>3, <1>4, <1>5
-----------------------------------------------------------------------------
(* What each kind of call does to the three totals and to what is held. *)

\* A step on which what is owed grows by no more than what is held.
Backed(c, a) == Owed(c, a)' + held[c][a] <= Owed(c, a) + held'[c][a]

StepInv == TypeOK /\ LockInv /\ TypeOK' /\ LockInv'

\* The totals are naturals before and after a step.
LEMMA TotalsAreNat ==
  ASSUME StepInv, NEW c \in Chain, NEW a \in Asset
  PROVE  /\ Total(PoolClaim(c, a)) \in Nat /\ Total(PoolClaim(c, a))' \in Nat
         /\ Total(PostClaim(c, a)) \in Nat /\ Total(PostClaim(c, a))' \in Nat
         /\ Total(LockClaim(c, a)) \in Nat /\ Total(LockClaim(c, a))' \in Nat
         /\ held[c][a] \in Nat /\ held'[c][a] \in Nat
         /\ Total(PoolClaim(c, a)) = PoolTotal(balance[c], a)
         /\ Total(PoolClaim(c, a))' = PoolTotal(balance'[c], a)
<1>1. /\ Total(PoolClaim(c, a)) = PoolTotal(balance[c], a)
      /\ Total(PoolClaim(c, a))' = PoolTotal(balance'[c], a)
  BY DEF PoolClaim, PoolTotal, Claim, Part
<1>2. ASSUME NEW b \in [Key -> Nat]
      PROVE  PoolTotal(b, a) \in Nat
  <2>1. Claim(b, a) \in [Key -> Nat]
    BY DEF Claim, Part
  <2> QED BY <2>1, FiniteDomains, TotalType DEF PoolTotal
<1>3. balance[c] \in [Key -> Nat] /\ balance'[c] \in [Key -> Nat]
  BY DEF StepInv, TypeOK
<1>4. held[c][a] \in Nat /\ held'[c][a] \in Nat
  BY DEF StepInv, TypeOK
<1> QED BY <1>1, <1>2, <1>3, <1>4, PostTotal, LockTotal DEF StepInv

\* A part of the state that does not change keeps its total.
LEMMA SameTotals ==
  ASSUME NEW c \in Chain, NEW a
  PROVE  /\ balance'[c] = balance[c] => Total(PoolClaim(c, a))' = Total(PoolClaim(c, a))
         /\ posted'[c] = posted[c] => Total(PostClaim(c, a))' = Total(PostClaim(c, a))
         /\ locked'[c] = locked[c] => Total(LockClaim(c, a))' = Total(LockClaim(c, a))
BY DEF PoolClaim, PostClaim, IsPosted, LockClaim, IsLocked

\* A deposit of a token adds at least its amount to what is held.
LEMMA DepositHeld ==
  ASSUME TypeOK, NEW c \in Chain, NEW t \in Token, NEW n \in Nat, NEW v \in Nat,
         DepositToken(c, t, n, v), NEW a \in Asset
  PROVE  held'[c][a] >= held[c][a] + Part(t, a, n)
<1>1. held'[c][a] = held[c][a] + (IF a = 0 THEN v ELSE 0) + (IF a = t THEN n ELSE 0)
  BY DEF DepositToken, TypeOK
<1>2. held[c][a] \in Nat
  BY DEF TypeOK
<1>3. CASE IsCoreToken(t)
  <2>1. v = n /\ AssetOf(t) = 0 /\ a # t
    BY <1>3, TokenAssumption DEF DepositToken, AssetOf, Asset
  <2> QED BY <1>1, <1>2, <2>1 DEF Part
<1>4. CASE ~IsCoreToken(t)
  <2>1. AssetOf(t) = t
    BY <1>4 DEF AssetOf
  <2> QED BY <1>1, <1>2, <2>1 DEF Part
<1> QED BY <1>3, <1>4

\* A transfer takes its amount.
LEMMA TransferHeld ==
  ASSUME TypeOK, NEW c \in Chain, NEW t \in Token, NEW r, NEW n \in Nat,
         SafeTransfer(c, t, r, n), NEW a \in Asset
  PROVE  held'[c][a] + Part(t, a, n) = held[c][a]
<1>1. AssetOf(t) \in Asset
  BY KeyFacts
<1>2. held'[c][a] = IF a = AssetOf(t) THEN held[c][a] - n ELSE held[c][a]
  BY <1>1 DEF SafeTransfer, TypeOK
<1>3. held[c][a] \in Nat
  BY DEF TypeOK
<1> QED BY <1>2, <1>3 DEF Part

\* Crediting a ledger in a step.
LEMMA CreditStep ==
  ASSUME StepInv, NEW c \in Chain, NEW k \in Key, NEW n \in Nat,
         balance' = [balance EXCEPT ![c] = Credit(@, k, n)], NEW a \in Asset
  PROVE  Total(PoolClaim(c, a))' = Total(PoolClaim(c, a)) + Part(k[1], a, n)
<1>1. balance[c] \in [Key -> Nat] /\ balance'[c] = Credit(balance[c], k, n)
  BY DEF StepInv, TypeOK
<1> QED BY <1>1, TotalsAreNat, CreditTotal

\* Posting a swap takes its amount and owes it.
LEMMA PostBacked ==
  ASSUME StepInv, NEW c \in Chain, NEW a \in Asset, NEW s \in Swap, NEW i, NEW p,
         NEW v \in Nat, VerifyEncodedSwap(c, s), RecordPost(c, s, i, p),
         DepositToken(c, s.inToken, s.amount, v), UNCHANGED <<balance, lockVars>>
  PROVE  Backed(c, a)
<1>1. held'[c][a] >= held[c][a] + Part(s.inToken, a, s.amount)
  BY SwapFacts, DepositHeld DEF StepInv
<1>2. /\ posted[c][s].st = "none" /\ posted'[c][s].st = "posted"
      /\ \A r \in Swap \ {s} : posted'[c][r] = posted[c][r]
  BY DEF RecordPost, Posted, VerifyEncodedSwap, NotPosted, StepInv, TypeOK
<1>3. PostPart(c, s, a) = 0 /\ PostPart(c, s, a)' = Part(s.inToken, a, s.amount)
  BY <1>2 DEF PostPart, IsPosted, Part
<1>4. Total(PostClaim(c, a))' + 0
        = Total(PostClaim(c, a)) + Part(s.inToken, a, s.amount)
  BY <1>2, <1>3, PostTotal
<1>5. /\ Total(PoolClaim(c, a))' = Total(PoolClaim(c, a))
      /\ Total(LockClaim(c, a))' = Total(LockClaim(c, a))
  BY SameTotals DEF lockVars
<1>6. Part(s.inToken, a, s.amount) \in Nat
  BY SwapFacts DEF Part
<1> QED BY <1>1, <1>4, <1>5, <1>6, TotalsAreNat DEF Backed, Owed

\* A refund pays what was owed.
LEMMA RefundBacked ==
  ASSUME StepInv, NEW c \in Chain, NEW a \in Asset, NEW s \in Swap, NEW r,
         RefundTo(c, s, r), UNCHANGED lockVars
  PROVE  Backed(c, a)
<1>1. held'[c][a] + Part(s.inToken, a, s.amount) = held[c][a]
  BY SwapFacts, TransferHeld DEF StepInv, RefundTo
<1>2. /\ posted[c][s].st = "posted" /\ posted'[c][s].st = "none"
      /\ \A q \in Swap \ {s} : posted'[c][q] = posted[c][q]
  BY DEF RefundTo, NotPosted, IsPosted, StepInv, TypeOK
<1>3. PostPart(c, s, a)' = 0 /\ PostPart(c, s, a) = Part(s.inToken, a, s.amount)
  BY <1>2 DEF PostPart, IsPosted, Part
<1>4. Total(PostClaim(c, a))' + Part(s.inToken, a, s.amount)
        = Total(PostClaim(c, a)) + 0
  BY <1>2, <1>3, PostTotal
<1>5. /\ Total(PoolClaim(c, a))' = Total(PoolClaim(c, a))
      /\ Total(LockClaim(c, a))' = Total(LockClaim(c, a))
  BY SameTotals DEF lockVars, RefundTo
<1>6. Part(s.inToken, a, s.amount) \in Nat
  BY SwapFacts DEF Part
<1> QED BY <1>1, <1>4, <1>5, <1>6, TotalsAreNat DEF Backed, Owed

\* An execution turns what is owed to the initiator into the pool's, or pays
\* it to the pool's owner.
LEMMA ExecuteBacked ==
  ASSUME StepInv, NEW c \in Chain, NEW a \in Asset, NEW s \in Swap, NEW r,
         NEW d \in BOOLEAN, ExecuteSwap(c, s, r, d), UNCHANGED lockVars
  PROVE  Backed(c, a)
<1> DEFINE k == <<s.inToken, posted[c][s].pool>>
           part == Part(s.inToken, a, s.amount)
<1>1. k \in Key /\ k[1] = s.inToken /\ part \in Nat /\ s.amount \in Nat
  BY SwapFacts DEF Key, StepInv, TypeOK, SwapStatus, Part
<1>2. /\ posted[c][s].st = "posted" /\ posted'[c][s] = AfterExecution(c, s)
      /\ \A q \in Swap \ {s} : posted'[c][q] = posted[c][q]
  BY DEF ExecuteSwap, IsPosted, StepInv, TypeOK
<1>3. posted'[c][s].st # "posted"
  BY <1>2 DEF AfterExecution, NotPosted, Finished
<1>4. PostPart(c, s, a)' = 0 /\ PostPart(c, s, a) = part
  BY <1>2, <1>3 DEF PostPart, IsPosted, Part
<1>5. Total(PostClaim(c, a))' + part = Total(PostClaim(c, a)) + 0
  BY <1>2, <1>4, PostTotal
<1>6. Total(LockClaim(c, a))' = Total(LockClaim(c, a))
  BY SameTotals DEF lockVars
<1>7. CASE d
  <2>1. balance' = [balance EXCEPT ![c] = Credit(@, k, s.amount)] /\ UNCHANGED held
    BY <1>7 DEF ExecuteSwap
  <2>2. Total(PoolClaim(c, a))' = Total(PoolClaim(c, a)) + part
    <3> HIDE DEF k
    <3> QED BY <1>1, <2>1, CreditStep
  <2> HIDE DEF part
  <2> QED BY <1>1, <1>5, <1>6, <2>1, <2>2, TotalsAreNat DEF Backed, Owed
<1>8. CASE ~d
  <2>1. held'[c][a] + part = held[c][a]
    BY <1>8, SwapFacts, TransferHeld DEF StepInv, ExecuteSwap
  <2>2. Total(PoolClaim(c, a))' = Total(PoolClaim(c, a))
    BY <1>8, SameTotals DEF ExecuteSwap
  <2> HIDE DEF part
  <2> QED BY <1>1, <1>5, <1>6, <2>1, <2>2, TotalsAreNat DEF Backed, Owed
<1> QED BY <1>7, <1>8

\* Deposits, also those of a swap posted and executed at once.
LEMMA DepositBacked ==
  ASSUME StepInv, NEW c \in Chain, NEW a \in Asset, NEW t \in Token,
         NEW p \in Pool, NEW n \in Nat, NEW v \in Nat, DepositToken(c, t, n, v),
         balance' = [balance EXCEPT ![c] = Credit(@, <<t, p>>, n)],
         Total(PostClaim(c, a))' = Total(PostClaim(c, a)), UNCHANGED lockVars
  PROVE  Backed(c, a)
<1>1. <<t, p>> \in Key /\ Part(t, a, n) \in Nat
  BY DEF Key, Part
<1>2. Total(PoolClaim(c, a))' = Total(PoolClaim(c, a)) + Part(t, a, n)
  BY <1>1, CreditStep
<1>3. held'[c][a] >= held[c][a] + Part(t, a, n)
  BY DepositHeld DEF StepInv
<1>4. Total(LockClaim(c, a))' = Total(LockClaim(c, a))
  BY SameTotals DEF lockVars
<1> QED BY <1>1, <1>2, <1>3, <1>4, TotalsAreNat DEF Backed, Owed

\* Posting and executing at once: what is deposited is owed to pool 1.
LEMMA ExecuteAtOnceBacked ==
  ASSUME StepInv, NEW c \in Chain, NEW a \in Asset, NEW s \in Swap,
         NEW v \in Nat, ExecuteAtOnce(c, s, v), UNCHANGED lockVars
  PROVE  Backed(c, a)
<1>1. /\ posted[c][s].st = "none" /\ posted'[c][s].st = "finished"
      /\ \A r \in Swap \ {s} : posted'[c][r] = posted[c][r]
  BY DEF ExecuteAtOnce, Finished, VerifyEncodedSwap, NotPosted, StepInv, TypeOK
<1>2. PostPart(c, s, a) = 0 /\ PostPart(c, s, a)' = 0
  BY <1>1 DEF PostPart, IsPosted
<1>3. Total(PostClaim(c, a))' + 0 = Total(PostClaim(c, a)) + 0
  BY <1>1, <1>2, PostTotal
<1>4. Total(PostClaim(c, a))' = Total(PostClaim(c, a))
  BY <1>3, TotalsAreNat
<1>5. s.inToken \in Token /\ s.amount \in Nat /\ 1 \in Pool
  BY SwapFacts, TokenAssumption DEF Pool
<1> QED BY <1>4, <1>5, DepositBacked DEF ExecuteAtOnce

\* A withdrawal pays what is taken off the pool's balance.
LEMMA WithdrawBacked ==
  ASSUME StepInv, NEW c \in Chain, NEW a \in Asset, NEW caller \in Addr,
         NEW t \in Token, NEW p \in Pool, NEW n \in Nat, Withdraw(c, caller, t, p, n),
         UNCHANGED swapVars
  PROVE  Backed(c, a)
<1>1. <<t, p>> \in Key /\ Part(t, a, n) \in Nat
  BY DEF Key, Part
<1>2. /\ balance[c] \in [Key -> Nat] /\ balance[c][<<t, p>>] >= n
      /\ balance'[c] = Debit(balance[c], <<t, p>>, n)
  BY DEF Withdraw, Affords, StepInv, TypeOK
<1>3. Total(PoolClaim(c, a))' + Part(t, a, n) = Total(PoolClaim(c, a))
  BY <1>1, <1>2, DebitTotal, TotalsAreNat
<1>4. held'[c][a] + Part(t, a, n) = held[c][a]
  BY TransferHeld DEF StepInv, Withdraw
<1>5. /\ Total(PostClaim(c, a))' = Total(PostClaim(c, a))
      /\ Total(LockClaim(c, a))' = Total(LockClaim(c, a))
  BY SameTotals DEF swapVars, lockVars, Withdraw
<1> QED BY <1>1, <1>3, <1>4, <1>5, TotalsAreNat DEF Backed, Owed

\* A bond moves nothing.
LEMMA BondBacked ==
  ASSUME StepInv, NEW c \in Chain, NEW a \in Asset, NEW s \in Swap, NEW caller,
         NEW p, BondSwap(c, caller, s, p), UNCHANGED lockVars
  PROVE  Backed(c, a)
<1>1. \A r \in Swap : posted'[c][r].st = posted[c][r].st
  BY DEF BondSwap, StepInv, TypeOK, SwapStatus
<1>2. Total(PostClaim(c, a))' = Total(PostClaim(c, a))
  BY <1>1 DEF PostClaim, IsPosted
<1>3. /\ Total(PoolClaim(c, a))' = Total(PoolClaim(c, a))
      /\ Total(LockClaim(c, a))' = Total(LockClaim(c, a))
      /\ held' = held
  BY SameTotals DEF lockVars, BondSwap, moneyVars
<1> QED BY <1>2, <1>3, TotalsAreNat DEF Backed, Owed

\* What a lock is made of, in one asset.
LockedParts(s, a) ==
  Part(s.outToken, a, AmountToLock(s)) + Part(0, a, CoreTokenAmount(s))

\* What is locked of an asset is a natural number.
LEMMA LockedPartsFacts ==
  ASSUME NEW s \in Swap, NEW a \in Asset, Computable(s), NEW c \in Chain,
         NEW i \in Initiator, TypeOK
  PROVE  /\ Part(s.outToken, a, AmountToLock(s)) \in Nat
         /\ Part(0, a, CoreTokenAmount(s)) \in Nat
         /\ LockedParts(s, a) \in Nat
         /\ Part(CoreIndex(c), a, CoreTokenAmount(s)) = Part(0, a, CoreTokenAmount(s))
         /\ IsLocked(c, <<s, i>>) => LockPart(c, <<s, i>>, a) = LockedParts(s, a)
         /\ ~IsLocked(c, <<s, i>>) => LockPart(c, <<s, i>>, a) = 0
<1>1. AmountToLock(s) \in Nat /\ CoreTokenAmount(s) \in Nat
  BY AmountFacts
<1>2. AssetOf(CoreIndex(c)) = 0 /\ AssetOf(0) = 0
  BY DEF CoreIndex, AssetOf, IsCoreToken
<1>3. LockPart(c, <<s, i>>, a)
        = IF IsLocked(c, <<s, i>>) THEN LockedParts(s, a) ELSE 0
  BY <1>2 DEF LockPart, LockedParts, Part
<1> QED BY <1>1, <1>2, <1>3 DEF LockedParts, Part

\* The same after a step that changes the lock: the amounts are the swap's.
LEMMA LockPartAfter ==
  ASSUME NEW s \in Swap, NEW a \in Asset, NEW c \in Chain, NEW i \in Initiator
  PROVE  /\ locked'[c][<<s, i>>].st = "locked" =>
              LockPart(c, <<s, i>>, a)' = LockedParts(s, a)
         /\ locked'[c][<<s, i>>].st # "locked" => LockPart(c, <<s, i>>, a)' = 0
<1>1. AssetOf(0) = 0
  BY DEF AssetOf, IsCoreToken
<1> QED BY <1>1 DEF LockPart, LockedParts, Part, IsLocked

\* Locking moves the funds of a swap from a pool's balance to its lock.
LEMMA LockBacked ==
  ASSUME StepInv, NEW c \in Chain, NEW a \in Asset, NEW caller \in Addr,
         NEW s \in Swap, NEW i \in Initiator, LockSwap(c, caller, s, i),
         UNCHANGED swapVars
  PROVE  Backed(c, a)
<1> DEFINE p == poolOfAuthorizedAddr[c][caller]
           b1 == Debit(balance[c], <<s.outToken, p>>, AmountToLock(s))
           b2 == Debit(b1, <<CoreIndex(c), p>>, CoreTokenAmount(s))
<1>1. p \in Pool /\ <<s, i>> \in SwapId
  BY DEF StepInv, TypeOK, SwapId
<1>2. Computable(s) /\ AmountToLock(s) \in Nat /\ CoreTokenAmount(s) \in Nat
  BY AmountFacts DEF LockSwap
<1>3. /\ <<s.outToken, p>> \in Key /\ <<CoreIndex(c), p>> \in Key
      /\ balance[c] \in [Key -> Nat]
  <2> HIDE DEF p
  <2> QED BY <1>1, LockKeys DEF StepInv
<1>4. balance'[c] = b2
  BY DEF LockSwap, LockFunds, StepInv, TypeOK
<1>5. b2[<<s.outToken, p>>] >= 0 /\ b2[<<CoreIndex(c), p>>] >= 0
  BY <1>4 DEF LockSwap
<1>6. /\ balance[c][<<s.outToken, p>>] >= AmountToLock(s)
      /\ b1 \in [Key -> Nat] /\ b1[<<CoreIndex(c), p>>] >= CoreTokenAmount(s)
  <2>1. balance[c][<<s.outToken, p>>] >= AmountToLock(s)
    <3> HIDE DEF p
    <3> QED BY <1>2, <1>3, <1>5 DEF Debit
  <2>2. b1 \in [Key -> Nat]
    <3> HIDE DEF p
    <3> QED BY <1>2, <1>3, <2>1, LedgerType
  <2> HIDE DEF p, b1
  <2> QED BY <1>2, <1>3, <1>5, <2>1, <2>2 DEF Debit
<1>7. PoolTotal(b1, a) + Part(s.outToken, a, AmountToLock(s)) = PoolTotal(balance[c], a)
  <2> HIDE DEF p
  <2> QED BY <1>2, <1>3, <1>6, DebitTotal
<1>8. PoolTotal(b2, a) + Part(CoreIndex(c), a, CoreTokenAmount(s)) = PoolTotal(b1, a)
  <2> HIDE DEF p, b1
  <2> QED BY <1>2, <1>3, <1>6, DebitTotal
<1>9. PoolTotal(b1, a) \in Nat
  <2> HIDE DEF b1
  <2> QED BY <1>3, <1>6, CreditTotal, 0 \in Nat
<1>10. Total(PoolClaim(c, a))' + LockedParts(s, a) = Total(PoolClaim(c, a))
  <2> HIDE DEF b1, b2
  <2>1. /\ Total(PoolClaim(c, a))' = PoolTotal(b2, a)
        /\ Total(PoolClaim(c, a))' \in Nat
        /\ Total(PoolClaim(c, a)) = PoolTotal(balance[c], a)
    BY <1>4, TotalsAreNat
  <2>2. /\ Part(s.outToken, a, AmountToLock(s)) \in Nat
        /\ Part(0, a, CoreTokenAmount(s)) \in Nat
        /\ Part(CoreIndex(c), a, CoreTokenAmount(s)) = Part(0, a, CoreTokenAmount(s))
    BY <1>2, LockedPartsFacts DEF StepInv
  <2> QED BY <1>7, <1>8, <1>9, <2>1, <2>2 DEF LockedParts
<1>11. /\ locked[c][<<s, i>>].st = "none" /\ locked'[c][<<s, i>>].st = "locked"
       /\ \A y \in SwapId \ {<<s, i>>} : locked'[c][y] = locked[c][y]
  BY <1>1 DEF LockSwap, Locked, NotLocked, StepInv, TypeOK
<1>12. Total(LockClaim(c, a))' + 0 = Total(LockClaim(c, a)) + LockedParts(s, a)
  <2>1. LockPart(c, <<s, i>>, a) = 0 /\ LockPart(c, <<s, i>>, a)' = LockedParts(s, a)
    BY <1>2, <1>11, LockedPartsFacts, LockPartAfter DEF IsLocked, StepInv
  <2> QED BY <1>1, <1>11, <2>1, LockTotal DEF StepInv
<1>13. Total(PostClaim(c, a))' = Total(PostClaim(c, a)) /\ held' = held
  BY SameTotals DEF swapVars, LockSwap
<1>14. LockedParts(s, a) \in Nat
  BY <1>2, LockedPartsFacts DEF StepInv
<1> HIDE DEF p, b1, b2
<1> QED BY <1>10, <1>12, <1>13, <1>14, TotalsAreNat DEF Backed, Owed

\* Unlocking moves them back.
LEMMA UnlockBacked ==
  ASSUME StepInv, NEW c \in Chain, NEW a \in Asset, NEW s \in Swap,
         NEW i \in Initiator, Unlock(c, s, i), UNCHANGED swapVars
  PROVE  Backed(c, a)
<1> DEFINE p == locked[c][<<s, i>>].pool
           b1 == Credit(balance[c], <<s.outToken, p>>, AmountToLock(s))
           b2 == Credit(b1, <<CoreIndex(c), p>>, CoreTokenAmount(s))
<1>1. p \in Pool /\ <<s, i>> \in SwapId
  BY DEF StepInv, TypeOK, SwapId, LockStatus
<1>2. Computable(s)
  BY <1>1 DEF StepInv, LockInv, LockOK, Unlock
<1>3. AmountToLock(s) \in Nat /\ CoreTokenAmount(s) \in Nat
  BY <1>2, AmountFacts
<1>4. /\ <<s.outToken, p>> \in Key /\ <<CoreIndex(c), p>> \in Key
      /\ balance[c] \in [Key -> Nat]
  <2> HIDE DEF p
  <2> QED BY <1>1, LockKeys DEF StepInv
<1>5. balance'[c] = b2
  BY DEF Unlock, UnlockFunds, StepInv, TypeOK
<1>6. b1 \in [Key -> Nat]
  <2> HIDE DEF p
  <2> QED BY <1>3, <1>4, LedgerType
<1>7. /\ PoolTotal(b1, a)
           = PoolTotal(balance[c], a) + Part(s.outToken, a, AmountToLock(s))
      /\ PoolTotal(balance[c], a) \in Nat
  <2> HIDE DEF p
  <2> QED BY <1>3, <1>4, CreditTotal
<1>8. PoolTotal(b2, a) = PoolTotal(b1, a) + Part(CoreIndex(c), a, CoreTokenAmount(s))
  <2> HIDE DEF p, b1
  <2> QED BY <1>3, <1>4, <1>6, CreditTotal
<1>9. Total(PoolClaim(c, a))' = Total(PoolClaim(c, a)) + LockedParts(s, a)
  <2> HIDE DEF b1, b2
  <2>1. /\ Total(PoolClaim(c, a))' = PoolTotal(b2, a)
        /\ Total(PoolClaim(c, a)) = PoolTotal(balance[c], a)
    BY <1>5, TotalsAreNat
  <2>2. /\ Part(s.outToken, a, AmountToLock(s)) \in Nat
        /\ Part(0, a, CoreTokenAmount(s)) \in Nat
        /\ Part(CoreIndex(c), a, CoreTokenAmount(s)) = Part(0, a, CoreTokenAmount(s))
    BY <1>2, LockedPartsFacts DEF StepInv
  <2> QED BY <1>7, <1>8, <2>1, <2>2 DEF LockedParts
<1>10. /\ locked[c][<<s, i>>].st = "locked" /\ locked'[c][<<s, i>>].st = "none"
       /\ \A y \in SwapId \ {<<s, i>>} : locked'[c][y] = locked[c][y]
  BY <1>1 DEF Unlock, IsLocked, NotLocked, StepInv, TypeOK
<1>11. Total(LockClaim(c, a))' + LockedParts(s, a) = Total(LockClaim(c, a)) + 0
  <2>1. LockPart(c, <<s, i>>, a)' = 0 /\ LockPart(c, <<s, i>>, a) = LockedParts(s, a)
    BY <1>2, <1>10, LockedPartsFacts, LockPartAfter DEF IsLocked, StepInv
  <2> QED BY <1>1, <1>10, <2>1, LockTotal DEF StepInv
<1>12. Total(PostClaim(c, a))' = Total(PostClaim(c, a)) /\ held' = held
  BY SameTotals DEF swapVars, Unlock
<1>13. LockedParts(s, a) \in Nat
  BY <1>2, LockedPartsFacts DEF StepInv
<1> HIDE DEF p, b1, b2
<1> QED BY <1>9, <1>11, <1>12, <1>13, TotalsAreNat DEF Backed, Owed

\* What paying a recipient takes from what is held.
LEMMA PaidHeld ==
  ASSUME TypeOK, NEW c \in Chain, NEW s \in Swap, NEW m \in Nat, NEW n \in Nat,
         PayRecipient(c, s, m, n), NEW a \in Asset
  PROVE  held'[c][a] + Part(s.outToken, a, m) + Part(0, a, n) = held[c][a]
<1>1. 0 \in Asset /\ AssetOf(s.outToken) \in Asset /\ AssetOf(0) = 0
  BY KeyFacts, SwapFacts DEF AssetOf, IsCoreToken
<1>2. held'[c] = Debit(Debit(held[c], 0, n), AssetOf(s.outToken), m)
  BY DEF PayRecipient, TypeOK
<1>3. held[c] \in [Asset -> Nat] /\ held[c][a] \in Nat
  BY DEF TypeOK
<1>4. held'[c][a] = held[c][a] - (IF a = 0 THEN n ELSE 0)
                      - (IF a = AssetOf(s.outToken) THEN m ELSE 0)
  BY <1>1, <1>2, <1>3 DEF Debit
<1> QED BY <1>1, <1>3, <1>4 DEF Part

\* What settling the fees adds to the pools.
LEMMA FeesTotal ==
  ASSUME NEW s \in Swap, NEW b \in [Key -> Nat], NEW a
  PROVE  /\ SettleFees(b, s) \in [Key -> Nat]
         /\ PoolTotal(b, a) \in Nat
         /\ PoolTotal(SettleFees(b, s), a)
              = PoolTotal(b, a) + Part(s.outToken, a, FeePaid(s))
                                + Part(s.outToken, a, AmountToShare(s))
<1> DEFINE b1 == Credit(b, <<s.outToken, 0>>, FeePaid(s))
<1>1. <<s.outToken, 0>> \in Key /\ <<s.outToken, s.sharePool>> \in Key
  BY SwapFacts, TokenAssumption DEF Key, Pool
<1>2. FeePaid(s) \in Nat /\ AmountToShare(s) \in Nat
  BY AmountFacts
<1>3. /\ b1 \in [Key -> Nat] /\ PoolTotal(b, a) \in Nat
      /\ PoolTotal(b1, a) = PoolTotal(b, a) + Part(s.outToken, a, FeePaid(s))
  BY <1>1, <1>2, LedgerType, CreditTotal, ZenonT(40)
<1> HIDE DEF b1
<1>4. PICK k \in Key : k = <<s.outToken, s.sharePool>>
  BY <1>1
<1>5. /\ Credit(b1, k, AmountToShare(s)) \in [Key -> Nat]
      /\ PoolTotal(Credit(b1, k, AmountToShare(s)), a)
           = PoolTotal(b1, a) + Part(k[1], a, AmountToShare(s))
  BY <1>2, <1>3, LedgerType, CreditTotal, ZenonT(40)
<1> QED BY <1>3, <1>4, <1>5 DEF SettleFees, b1

\* A release pays out of a lock exactly what the lock is made of.
LEMMA ReleaseParts ==
  ASSUME NEW s \in Swap, NEW a, Computable(s), ReleaseAmount(s) >= 0
  PROVE  /\ ReleaseAmount(s) \in Nat /\ CoreTokenAmount(s) \in Nat
         /\ Part(s.outToken, a, ReleaseAmount(s)) \in Nat
         /\ Part(s.outToken, a, FeePaid(s)) \in Nat
         /\ Part(s.outToken, a, AmountToShare(s)) \in Nat
         /\ Part(0, a, CoreTokenAmount(s)) \in Nat
         /\ LockedParts(s, a) = Part(s.outToken, a, ReleaseAmount(s))
               + Part(s.outToken, a, FeePaid(s))
               + Part(s.outToken, a, AmountToShare(s))
               + Part(0, a, CoreTokenAmount(s))
<1>1. /\ AmountToLock(s) \in Nat /\ FeePaid(s) \in Nat /\ AmountToShare(s) \in Nat
      /\ CoreTokenAmount(s) \in Nat /\ ReleaseAmount(s) \in Nat
  BY AmountFacts
<1>2. AmountToLock(s) = ReleaseAmount(s) + FeePaid(s) + AmountToShare(s)
  BY <1>1 DEF ReleaseAmount
<1>3. CASE AssetOf(s.outToken) = a
  BY <1>1, <1>2, <1>3 DEF Part, LockedParts
<1>4. CASE AssetOf(s.outToken) # a
  BY <1>1, <1>2, <1>4 DEF Part, LockedParts
<1> QED BY <1>3, <1>4

\* A release pays out, or owes to the pools, what was locked.
LEMMA ReleaseBacked ==
  ASSUME StepInv, NEW c \in Chain, NEW a \in Asset, NEW b \in BOOLEAN,
         NEW s \in Swap, NEW i \in Initiator, NEW r, Release(c, b, s, i, r),
         UNCHANGED swapVars
  PROVE  Backed(c, a)
<1>1. <<s, i>> \in SwapId /\ balance[c] \in [Key -> Nat]
  BY DEF StepInv, TypeOK, SwapId
<1>2. Computable(s) /\ ReleaseAmount(s) >= 0
  BY <1>1 DEF StepInv, LockInv, LockOK, Release
<1>3. balance'[c] = SettleFees(balance[c], s)
  BY DEF Release, StepInv, TypeOK
<1>4. Total(PoolClaim(c, a))'
        = Total(PoolClaim(c, a)) + Part(s.outToken, a, FeePaid(s))
                                 + Part(s.outToken, a, AmountToShare(s))
  BY <1>1, <1>3, FeesTotal, TotalsAreNat
<1>5. held'[c][a] + Part(s.outToken, a, ReleaseAmount(s))
        + Part(0, a, CoreTokenAmount(s)) = held[c][a]
  BY <1>2, ReleaseParts, PaidHeld DEF Release, StepInv
<1>6. /\ locked[c][<<s, i>>].st = "locked" /\ locked'[c][<<s, i>>].st = "released"
      /\ \A y \in SwapId \ {<<s, i>>} : locked'[c][y] = locked[c][y]
  BY <1>1 DEF Release, RecordRelease, Released, IsLocked, StepInv, TypeOK
<1>7. Total(LockClaim(c, a))' + LockedParts(s, a) = Total(LockClaim(c, a)) + 0
  <2>1. LockPart(c, <<s, i>>, a)' = 0 /\ LockPart(c, <<s, i>>, a) = LockedParts(s, a)
    BY <1>2, <1>6, LockedPartsFacts, LockPartAfter DEF IsLocked, StepInv
  <2> QED BY <1>1, <1>6, <2>1, LockTotal DEF StepInv
<1>8. Total(PostClaim(c, a))' = Total(PostClaim(c, a))
  BY SameTotals DEF swapVars
<1> QED BY <1>2, <1>4, <1>5, <1>7, <1>8, ReleaseParts, TotalsAreNat DEF Backed, Owed

\* A direct release pays out of a pool's balance.
LEMMA DirectReleaseBacked ==
  ASSUME StepInv, NEW c \in Chain, NEW a \in Asset, NEW caller \in Addr,
         NEW b \in BOOLEAN, NEW s \in Swap, NEW i \in Initiator, NEW r,
         NEW signed \in BOOLEAN, DirectRelease(c, caller, b, s, i, r, signed),
         UNCHANGED swapVars
  PROVE  Backed(c, a)
<1> DEFINE p == poolOfAuthorizedAddr[c][caller]
           b1 == Debit(balance[c], <<s.outToken, p>>, AmountToLock(s))
           b2 == SettleFees(b1, s)
           b3 == Debit(b2, <<CoreIndex(c), p>>, CoreTokenAmount(s))
<1>1. p \in Pool /\ <<s, i>> \in SwapId
  BY DEF StepInv, TypeOK, SwapId
<1>2. Computable(s) /\ ReleaseAmount(s) >= 0
  BY DEF DirectRelease
<1>3. AmountToLock(s) \in Nat /\ CoreTokenAmount(s) \in Nat
  BY <1>2, AmountFacts
<1>4. /\ <<s.outToken, p>> \in Key /\ <<CoreIndex(c), p>> \in Key
      /\ balance[c] \in [Key -> Nat]
  <2> HIDE DEF p
  <2> QED BY <1>1, LockKeys DEF StepInv
<1>5. balance'[c] = b3
  BY DEF DirectRelease, StepInv, TypeOK
<1>6. balance[c][<<s.outToken, p>>] >= AmountToLock(s)
  BY DEF DirectRelease, Affords
<1>7. /\ b1 \in [Key -> Nat]
      /\ PoolTotal(b1, a) + Part(s.outToken, a, AmountToLock(s)) = PoolTotal(balance[c], a)
  <2> HIDE DEF p
  <2> QED BY <1>3, <1>4, <1>6, DebitTotal
<1>8. /\ b2 \in [Key -> Nat] /\ PoolTotal(b1, a) \in Nat
      /\ PoolTotal(b2, a) = PoolTotal(b1, a) + Part(s.outToken, a, FeePaid(s))
                                             + Part(s.outToken, a, AmountToShare(s))
  <2> HIDE DEF b1
  <2> QED BY <1>7, FeesTotal
<1>9. b2[<<CoreIndex(c), p>>] >= CoreTokenAmount(s)
  <2>1. b3[<<CoreIndex(c), p>>] >= 0
    BY <1>5 DEF DirectRelease
  <2> HIDE DEF p, b2
  <2> QED BY <1>3, <1>4, <1>8, <2>1 DEF Debit
<1>10. PoolTotal(b3, a) + Part(CoreIndex(c), a, CoreTokenAmount(s)) = PoolTotal(b2, a)
  <2> HIDE DEF p, b2
  <2> QED BY <1>3, <1>4, <1>8, <1>9, DebitTotal
<1>11. Part(CoreIndex(c), a, CoreTokenAmount(s)) = Part(0, a, CoreTokenAmount(s))
  BY <1>2, LockedPartsFacts DEF StepInv
<1>12. held'[c][a] + Part(s.outToken, a, ReleaseAmount(s))
         + Part(0, a, CoreTokenAmount(s)) = held[c][a]
  BY <1>2, ReleaseParts, PaidHeld DEF DirectRelease, StepInv
<1>13. /\ locked[c][<<s, i>>].st = "none" /\ locked'[c][<<s, i>>].st = "released"
       /\ \A y \in SwapId \ {<<s, i>>} : locked'[c][y] = locked[c][y]
  BY <1>1 DEF DirectRelease, RecordRelease, Released, NotLocked, StepInv, TypeOK
<1>14. Total(LockClaim(c, a))' + 0 = Total(LockClaim(c, a)) + 0
  <2>1. LockPart(c, <<s, i>>, a)' = 0 /\ LockPart(c, <<s, i>>, a) = 0
    BY <1>2, <1>13, LockedPartsFacts, LockPartAfter DEF IsLocked, StepInv
  <2> QED BY <1>1, <1>13, <2>1, LockTotal DEF StepInv
<1>15. Total(PostClaim(c, a))' = Total(PostClaim(c, a))
  BY SameTotals DEF swapVars
<1>16. /\ Total(PoolClaim(c, a))' = PoolTotal(b3, a) /\ PoolTotal(b3, a) \in Nat
       /\ Total(PoolClaim(c, a)) = PoolTotal(balance[c], a)
  BY <1>5, TotalsAreNat
<1>17. Part(s.outToken, a, AmountToLock(s))
         = Part(s.outToken, a, ReleaseAmount(s)) + Part(s.outToken, a, FeePaid(s))
           + Part(s.outToken, a, AmountToShare(s))
  BY <1>2, <1>3, ReleaseParts DEF LockedParts, Part
<1> HIDE DEF p, b1, b2, b3
<1>18. Total(PoolClaim(c, a))' + Part(s.outToken, a, ReleaseAmount(s))
         + Part(0, a, CoreTokenAmount(s)) = Total(PoolClaim(c, a))
  BY <1>2, <1>7, <1>8, <1>10, <1>11, <1>16, <1>17, ReleaseParts
<1> QED BY <1>2, <1>12, <1>14, <1>15, <1>18, ReleaseParts, TotalsAreNat DEF Backed, Owed

\* Service fees move between pools.
LEMMA ServiceFeeBacked ==
  ASSUME StepInv, NEW c \in Chain, NEW a \in Asset, NEW caller, NEW t \in Token,
         NEW n \in Nat, NEW p \in Pool, WithdrawServiceFee(c, caller, t, n, p),
         UNCHANGED <<swapVars, lockVars>>
  PROVE  Backed(c, a)
<1> DEFINE b1 == Debit(balance[c], <<t, 0>>, n)
<1>1. /\ <<t, 0>> \in Key /\ <<t, p>> \in Key /\ balance[c] \in [Key -> Nat]
      /\ balance[c][<<t, 0>>] >= n
      /\ balance'[c] = Credit(b1, <<t, p>>, n)
  BY KeyFacts DEF Key, StepInv, TypeOK, WithdrawServiceFee, Affords
<1>2. b1 \in [Key -> Nat] /\ PoolTotal(b1, a) + Part(t, a, n) = PoolTotal(balance[c], a)
  BY <1>1, DebitTotal
<1> HIDE DEF b1
<1>3. /\ PoolTotal(b1, a) \in Nat
      /\ PoolTotal(balance'[c], a) = PoolTotal(b1, a) + Part(t, a, n)
  BY <1>1, <1>2, CreditTotal
<1>4. Total(PoolClaim(c, a))' = Total(PoolClaim(c, a))
  BY <1>2, <1>3, TotalsAreNat
<1>5. /\ Total(PostClaim(c, a))' = Total(PostClaim(c, a))
      /\ Total(LockClaim(c, a))' = Total(LockClaim(c, a)) /\ held' = held
  BY SameTotals DEF swapVars, lockVars, WithdrawServiceFee
<1> QED BY <1>4, <1>5, TotalsAreNat DEF Backed, Owed

\* A swap within the chain takes in and pays out what it credits and debits.
LEMMA DirectSwapBacked ==
  ASSUME StepInv, NEW c \in Chain, NEW a \in Asset, NEW s \in Swap, NEW r,
         DirectSwap(c, s, r), UNCHANGED <<swapVars, lockVars>>
  PROVE  Backed(c, a)
<1> DEFINE out == s.amount - s.fee
           b1 == Credit(balance[c], <<s.inToken, 1>>, s.amount)
           b2 == Debit(b1, <<s.outToken, 1>>, out)
           paid == AssetOf(s.outToken)
<1>1. /\ <<s.inToken, 1>> \in Key /\ <<s.outToken, 1>> \in Key
      /\ balance[c] \in [Key -> Nat] /\ held[c] \in [Asset -> Nat]
      /\ s.amount \in Nat /\ paid \in Asset
  BY KeyFacts, SwapFacts DEF Key, StepInv, TypeOK
<1>2. /\ out \in Nat /\ AssetOf(s.inToken) = s.inToken
      /\ balance'[c] = b2 /\ b2[<<s.outToken, 1>>] >= 0
      /\ held'[c] = Debit(Credit(held[c], s.inToken, s.amount), paid, out)
  BY <1>1, SwapFacts DEF DirectSwap, AssetOf, StepInv, TypeOK
<1>3. /\ b1 \in [Key -> Nat] /\ PoolTotal(balance[c], a) \in Nat
      /\ PoolTotal(b1, a) = PoolTotal(balance[c], a) + Part(s.inToken, a, s.amount)
  BY <1>1, LedgerType, CreditTotal
<1>4. b1[<<s.outToken, 1>>] >= out
  <2> HIDE DEF b1, out
  <2> QED BY <1>1, <1>2, <1>3 DEF Debit
<1>5. PoolTotal(b2, a) + Part(s.outToken, a, out) = PoolTotal(b1, a)
  <2> HIDE DEF b1, out
  <2> QED BY <1>1, <1>2, <1>3, <1>4, DebitTotal
<1>6. held'[c][a] + Part(s.outToken, a, out) = held[c][a] + Part(s.inToken, a, s.amount)
  <2> HIDE DEF out
  <2> QED BY <1>1, <1>2 DEF Credit, Debit, Part
<1>7. /\ Total(PostClaim(c, a))' = Total(PostClaim(c, a))
      /\ Total(LockClaim(c, a))' = Total(LockClaim(c, a))
  BY SameTotals DEF swapVars, lockVars
<1>8. Total(PoolClaim(c, a))' = PoolTotal(b2, a)
      /\ Total(PoolClaim(c, a)) = PoolTotal(balance[c], a)
  BY <1>2, TotalsAreNat
<1>9. Part(s.outToken, a, out) \in Nat /\ Part(s.inToken, a, s.amount) \in Nat
  <2> HIDE DEF out
  <2> QED BY <1>1, <1>2 DEF Part
<1> HIDE DEF b1, b2, out
<1> QED BY <1>3, <1>5, <1>6, <1>7, <1>8, <1>9, TotalsAreNat DEF Backed, Owed
-----------------------------------------------------------------------------
(* Every step. *)

\* A call on one chain leaves every other chain alone.
ChainStays(c) ==
  /\ balance'[c] = balance[c] /\ held'[c] = held[c]
  /\ posted'[c] = posted[c] /\ locked'[c] = locked[c]

\* A chain that a step leaves alone stays backed.
LEMMA StaysBacked ==
  ASSUME StepInv, NEW c \in Chain, NEW a \in Asset, ChainStays(c)
  PROVE  Backed(c, a)
BY SameTotals, TotalsAreNat DEF ChainStays, Backed, Owed

\* A call of the initial-chain side leaves the other chains alone.
LEMMA SwapCallElsewhere ==
  ASSUME TypeOK, NEW c \in Chain, NEW d \in Chain, d # c, SwapCall(d)
  PROVE  ChainStays(c)
<1>1. PICK s \in Swap :
       \/ \E caller \in Addr, i \in Initiator, p \in Pool : PostSwap(d, caller, s, i, p)
       \/ \E i \in Initiator, p \in Pool, v \in MsgValues :
            PostSwapFromInitiator(d, i, s, p, v)
       \/ \E contract \in Addr, i \in Initiator, p \in Pool, v \in MsgValues :
            PostSwapFromContract(d, contract, s, i, p, v)
       \/ \E caller \in Addr, p \in Pool : BondSwap(d, caller, s, p)
       \/ \E r \in Recipient \cup {posted[d][s].initiator} : RefundTo(d, s, r)
       \/ \E recipient \in Recipient, e \in BOOLEAN : ExecuteSwap(d, s, recipient, e)
       \/ \E v \in MsgValues : ExecuteAtOnce(d, s, v)
  BY DEF SwapCall, CancelSwap, CancelSwapTo, DirectExecuteSwap, SimpleExecuteSwap
<1>2. UNCHANGED lockVars
  BY DEF SwapCall
<1>3. ASSUME NEW i, NEW p, NEW v, RecordPost(d, s, i, p),
             DepositToken(d, s.inToken, s.amount, v), UNCHANGED balance
      PROVE  ChainStays(c)
  BY <1>2, <1>3 DEF RecordPost, DepositToken, ChainStays, lockVars, TypeOK
<1>4. ASSUME NEW caller, NEW p, BondSwap(d, caller, s, p)
      PROVE  ChainStays(c)
  BY <1>2, <1>4 DEF BondSwap, ChainStays, moneyVars, lockVars, TypeOK
<1>5. ASSUME NEW r, RefundTo(d, s, r)
      PROVE  ChainStays(c)
  BY <1>2, <1>5 DEF RefundTo, SafeTransfer, ChainStays, lockVars, TypeOK
<1>6. ASSUME NEW r, NEW e, ExecuteSwap(d, s, r, e)
      PROVE  ChainStays(c)
  BY <1>2, <1>6 DEF ExecuteSwap, SafeTransfer, ChainStays, lockVars, TypeOK
<1>7. ASSUME NEW v, ExecuteAtOnce(d, s, v)
      PROVE  ChainStays(c)
  BY <1>2, <1>7 DEF ExecuteAtOnce, DepositToken, ChainStays, lockVars, TypeOK
<1> QED BY <1>1, <1>3, <1>4, <1>5, <1>6, <1>7
        DEF PostSwap, PostSwapFromInitiator, PostSwapFromContract

\* Every call of the initial-chain side keeps its chain backed.
LEMMA SwapCallBacked ==
  ASSUME StepInv, NEW c \in Chain, NEW a \in Asset, SwapCall(c)
  PROVE  Backed(c, a)
<1>1. UNCHANGED lockVars /\ MsgValues \subseteq Nat /\ 0 \in Nat
  BY AmountAssumption DEF SwapCall
<1>2. PICK s \in Swap :
       \/ \E caller \in Addr, i \in Initiator, p \in Pool : PostSwap(c, caller, s, i, p)
       \/ \E i \in Initiator, p \in Pool, v \in MsgValues :
            PostSwapFromInitiator(c, i, s, p, v)
       \/ \E contract \in Addr, i \in Initiator, p \in Pool, v \in MsgValues :
            PostSwapFromContract(c, contract, s, i, p, v)
       \/ \E caller \in Addr, p \in Pool : BondSwap(c, caller, s, p)
       \/ \E r \in Recipient \cup {posted[c][s].initiator} : RefundTo(c, s, r)
       \/ \E recipient \in Recipient, d \in BOOLEAN : ExecuteSwap(c, s, recipient, d)
       \/ \E v \in MsgValues : ExecuteAtOnce(c, s, v)
  BY DEF SwapCall, CancelSwap, CancelSwapTo, DirectExecuteSwap, SimpleExecuteSwap
<1>3. ASSUME NEW i, NEW p, NEW v \in Nat, VerifyEncodedSwap(c, s),
             RecordPost(c, s, i, p), DepositToken(c, s.inToken, s.amount, v),
             UNCHANGED balance
      PROVE  Backed(c, a)
  BY <1>1, <1>3, PostBacked
<1> QED BY <1>1, <1>2, <1>3, BondBacked, RefundBacked, ExecuteBacked, ExecuteAtOnceBacked
        DEF PostSwap, PostSwapFromInitiator, PostSwapFromContract

\* A call of the target-chain side leaves the other chains alone.
LEMMA PoolCallElsewhere ==
  ASSUME TypeOK, NEW c \in Chain, NEW d \in Chain, d # c, PoolCall(d)
  PROVE  ChainStays(c)
<1>1. UNCHANGED swapVars
  BY DEF PoolCall
<1>2. PICK caller \in Addr :
       \/ \E t \in Token, p \in Pool, n \in Amounts, v \in MsgValues :
            \/ DepositAndRegister(d, caller, t, p, n, v)
            \/ Deposit(d, caller, t, p, n, v)
       \/ \E t \in Token, p \in Pool, n \in Amounts : Withdraw(d, caller, t, p, n)
       \/ UNCHANGED <<moneyVars, lockVars>>
       \/ \E s \in Swap, i \in Initiator :
            \/ LockSwap(d, caller, s, i)
            \/ Unlock(d, s, i)
            \/ \E r \in Recipient, b \in BOOLEAN :
                 \/ Release(d, b, s, i, r)
                 \/ \E signed \in BOOLEAN : DirectRelease(d, caller, b, s, i, r, signed)
  BY ZenonT(40) DEF PoolCall, AddAuthorizedAddr, RemoveAuthorizedAddr, TransferPoolOwner
<1>3. ASSUME NEW t, NEW p, NEW n, NEW v,
             \/ DepositAndRegister(d, caller, t, p, n, v)
             \/ Deposit(d, caller, t, p, n, v)
      PROVE  ChainStays(c)
  BY <1>1, <1>3 DEF DepositAndRegister, Deposit, DepositToken, ChainStays,
                    swapVars, lockVars, TypeOK
<1>4. ASSUME NEW t, NEW p, NEW n, Withdraw(d, caller, t, p, n)
      PROVE  ChainStays(c)
  BY <1>1, <1>4 DEF Withdraw, SafeTransfer, ChainStays, swapVars, lockVars, TypeOK
<1>5. CASE UNCHANGED <<moneyVars, lockVars>>
  BY <1>1, <1>5 DEF moneyVars, lockVars, swapVars, ChainStays
<1>6. ASSUME NEW s, NEW i, LockSwap(d, caller, s, i) \/ Unlock(d, s, i)
      PROVE  ChainStays(c)
  BY <1>1, <1>6 DEF LockSwap, Unlock, ChainStays, swapVars, TypeOK
<1>7. ASSUME NEW s, NEW i, NEW r, NEW b, Release(d, b, s, i, r)
      PROVE  ChainStays(c)
  BY <1>1, <1>7 DEF Release, RecordRelease, PayRecipient, ChainStays, swapVars, TypeOK
<1>8. ASSUME NEW s, NEW i, NEW r, NEW b, NEW signed,
             DirectRelease(d, caller, b, s, i, r, signed)
      PROVE  ChainStays(c)
  BY <1>1, <1>8 DEF DirectRelease, RecordRelease, PayRecipient, ChainStays, swapVars, TypeOK
<1> QED BY <1>2, <1>3, <1>4, <1>5, <1>6, <1>7, <1>8

\* Every call of the target-chain side keeps its chain backed.
LEMMA PoolCallBacked ==
  ASSUME StepInv, NEW c \in Chain, NEW a \in Asset, PoolCall(c)
  PROVE  Backed(c, a)
<1>1. UNCHANGED swapVars /\ MsgValues \subseteq Nat /\ Amounts \subseteq Nat
  BY AmountAssumption DEF PoolCall
<1>2. PICK caller \in Addr :
       \/ \E t \in Token, p \in Pool, n \in Amounts, v \in MsgValues :
            \/ DepositAndRegister(c, caller, t, p, n, v)
            \/ Deposit(c, caller, t, p, n, v)
       \/ \E t \in Token, p \in Pool, n \in Amounts : Withdraw(c, caller, t, p, n)
       \/ UNCHANGED <<moneyVars, lockVars>>
       \/ \E s \in Swap, i \in Initiator :
            \/ LockSwap(c, caller, s, i)
            \/ Unlock(c, s, i)
            \/ \E r \in Recipient, b \in BOOLEAN :
                 \/ Release(c, b, s, i, r)
                 \/ \E signed \in BOOLEAN : DirectRelease(c, caller, b, s, i, r, signed)
  BY ZenonT(40) DEF PoolCall, AddAuthorizedAddr, RemoveAuthorizedAddr, TransferPoolOwner
<1>3. ASSUME NEW t \in Token, NEW p \in Pool, NEW n \in Nat, NEW v \in Nat,
             \/ DepositAndRegister(c, caller, t, p, n, v)
             \/ Deposit(c, caller, t, p, n, v)
      PROVE  Backed(c, a)
  <2>1. /\ DepositToken(c, t, n, v) /\ UNCHANGED lockVars
        /\ balance' = [balance EXCEPT ![c] = Credit(@, <<t, p>>, n)]
    BY <1>3 DEF DepositAndRegister, Deposit
  <2>2. Total(PostClaim(c, a))' = Total(PostClaim(c, a))
    BY <1>1, SameTotals DEF swapVars
  <2> QED BY <2>1, <2>2, DepositBacked
<1>4. CASE UNCHANGED <<moneyVars, lockVars>>
  BY <1>1, <1>4, StaysBacked DEF moneyVars, lockVars, swapVars, ChainStays
<1> QED BY <1>1, <1>2, <1>3, <1>4, WithdrawBacked, LockBacked, UnlockBacked,
           ReleaseBacked, DirectReleaseBacked

\* Every call of the managers keeps its chain, and the others, backed.
LEMMA ManagerCallBacked ==
  ASSUME StepInv, NEW c \in Chain, NEW a \in Asset, NEW d \in Chain, ManagerCall(d)
  PROVE  Backed(c, a)
<1>1. UNCHANGED <<swapVars, lockVars>>
  BY DEF ManagerCall
<1>2. CASE UNCHANGED moneyVars
  BY <1>1, <1>2, StaysBacked DEF moneyVars, lockVars, swapVars, ChainStays
<1>3. ASSUME NEW caller, NEW t \in Token, NEW n \in Nat, NEW p \in Pool,
             WithdrawServiceFee(d, caller, t, n, p)
      PROVE  Backed(c, a)
  <2>1. CASE d = c
    BY <1>1, <1>3, <2>1, ServiceFeeBacked
  <2>2. CASE d # c
    <3>1. ChainStays(c)
      BY <1>1, <1>3, <2>2
         DEF WithdrawServiceFee, ChainStays, swapVars, lockVars, StepInv, TypeOK
    <3> QED BY <3>1, StaysBacked
  <2> QED BY <2>1, <2>2
<1>4. ASSUME NEW s \in Swap, NEW r, DirectSwap(d, s, r)
      PROVE  Backed(c, a)
  <2>1. CASE d = c
    BY <1>1, <1>4, <2>1, DirectSwapBacked
  <2>2. CASE d # c
    <3>1. ChainStays(c)
      BY <1>1, <1>4, <2>2
         DEF DirectSwap, ChainStays, swapVars, lockVars, StepInv, TypeOK
    <3> QED BY <3>1, StaysBacked
  <2> QED BY <2>1, <2>2
<1> QED BY <1>2, <1>3, <1>4, AmountAssumption DEF ManagerCall

\* Every step keeps every chain backed.
LEMMA EveryStepBacked ==
  ASSUME StepInv, [Next]_vars, NEW c \in Chain, NEW a \in Asset
  PROVE  Backed(c, a)
<1>1. ASSUME NEW d \in Chain, SwapCall(d)
      PROVE  Backed(c, a)
  BY <1>1, SwapCallBacked, SwapCallElsewhere, StaysBacked DEF StepInv
<1>2. ASSUME NEW d \in Chain, PoolCall(d)
      PROVE  Backed(c, a)
  BY <1>2, PoolCallBacked, PoolCallElsewhere, StaysBacked DEF StepInv
<1>3. CASE UNCHANGED <<moneyVars, swapVars, lockVars>>
  BY <1>3, StaysBacked DEF moneyVars, lockVars, swapVars, ChainStays
<1>4. \/ UNCHANGED <<moneyVars, swapVars, lockVars>>
      \/ \E d \in Chain : SwapCall(d) \/ PoolCall(d) \/ ManagerCall(d)
  BY DEF Next, Tick, SignRelease, vars
<1> QED BY <1>1, <1>2, <1>3, <1>4, ManagerCallBacked

\* A contract that was just deployed owes and holds nothing.
LEMMA InitSolvent ==
  ASSUME Init, NEW c \in Chain, NEW a \in Asset
  PROVE  Owed(c, a) = 0 /\ held[c][a] = 0
<1>1. Total(PoolClaim(c, a)) = 0
  <2>1. PoolClaim(c, a) \in [Key -> Nat] /\ \A k \in Key : PoolClaim(c, a)[k] = 0
    BY DEF PoolClaim, Init
  <2> QED BY <2>1, TotalZero
<1>2. Total(PostClaim(c, a)) = 0
  <2>1. PostClaim(c, a) \in [Swap -> Nat] /\ \A s \in Swap : PostClaim(c, a)[s] = 0
    BY DEF PostClaim, IsPosted, Init, SwapInit, NotPosted
  <2> QED BY <2>1, TotalZero
<1>3. Total(LockClaim(c, a)) = 0
  <2>1. LockClaim(c, a) \in [SwapId -> Nat] /\ \A x \in SwapId : LockClaim(c, a)[x] = 0
    BY DEF LockClaim, IsLocked, Init, PoolsInit, NotLocked
  <2> QED BY <2>1, TotalZero
<1> QED BY <1>1, <1>2, <1>3 DEF Owed, Init

\* The contract can always pay everything it owes, in every asset, on every
\* chain: cancelSwap, executeSwap, release and withdraw never find it short.
THEOREM Solvency == Spec => []Solvent
<1>1. Init => IInv /\ Solvent
  BY InitInv, InitSolvent DEF Solvent
<1>2. IInv /\ IInv' /\ Solvent /\ [Next]_vars => Solvent'
  <2> SUFFICES ASSUME IInv, IInv', Solvent, [Next]_vars,
                      NEW c \in Chain, NEW a \in Asset
               PROVE  Owed(c, a)' <= held'[c][a]
    BY DEF Solvent
  <2>1. StepInv
    BY DEF StepInv, IInv
  <2>2. Owed(c, a)' + held[c][a] <= Owed(c, a) + held'[c][a]
    BY <2>1, EveryStepBacked DEF Backed
  <2>3. /\ Owed(c, a) \in Nat /\ Owed(c, a)' \in Nat
        /\ held[c][a] \in Nat /\ held'[c][a] \in Nat
    BY <2>1, TotalsAreNat DEF Owed
  <2>4. Owed(c, a) <= held[c][a]
    BY DEF Solvent
  <2> QED BY <2>2, <2>3, <2>4
<1> QED BY <1>1, <1>2, Invariance, PTL DEF Spec
-----------------------------------------------------------------------------
(* Swaps between chains: the parties of MesonProtocol call nothing but the *)
(* contract, so the invariants above hold of it, and their clocks and      *)
(* signatures tie the two chains together.                                 *)

\* What holds of one swap, over its two chains.  Until the initiator signs, no
\* leg is paid.  Afterwards nothing has been cancelled, neither leg is idle, and
\* neither deadline has passed.  A lock ends before the swap expires, by more
\* than the clocks can differ.
SwapTies(s) ==
  LET lock == locked[s.outChain][IdOf(s)]
      log == swapLog[s.inChain][s]
  IN  /\ IsLocked(s.outChain, IdOf(s)) => lock.until < s.expireTs - LockMargin
      /\ ~SignedRelease(s) => log.execute = 0 /\ releases[s.outChain][IdOf(s)] = 0
      /\ SignedRelease(s) =>
           /\ log.cancel = 0 /\ log.post = 1
           /\ IsPosted(s.inChain, s) \/ log.execute = 1
           /\ IsPosted(s.inChain, s) => Timestamp(s.inChain) <= s.expireTs
           /\ IsLocked(s.outChain, IdOf(s)) \/ releases[s.outChain][IdOf(s)] = 1
           /\ IsLocked(s.outChain, IdOf(s)) => Timestamp(s.outChain) <= lock.until

TiesInv == \A s \in Swap : SwapTies(s)

ProtocolInv == IInv /\ TiesInv

\* A swap's initiator, its id on the target chain, and its two chains.
LEMMA IdFacts ==
  ASSUME NEW s \in Swap
  PROVE  /\ s.inChain \in Chain /\ s.outChain \in Chain
         /\ InitiatorOf[s] \in Initiator /\ IdOf(s) \in SwapId
         /\ IdOf(s)[1] = s
BY SwapFacts, ProtocolAssumption DEF IdOf, SwapId

\* Clocks and deadlines are natural numbers, and a clock is ahead of another by
\* at most the margin.
LEMMA ClockFacts ==
  ASSUME TypeOK, NEW s \in Swap
  PROVE  /\ Timestamp(s.inChain) \in Nat /\ Timestamp(s.outChain) \in Nat
         /\ s.expireTs \in Nat /\ LockMargin \in Nat
         /\ locked[s.outChain][IdOf(s)].until \in Nat
         /\ Timestamp(s.inChain) <= Timestamp(s.outChain) + LockMargin
<1>1. s.inChain \in Chain /\ s.outChain \in Chain /\ IdOf(s) \in SwapId
  BY IdFacts
<1>2. /\ now \in Nat /\ Skew[s.inChain] \in Nat /\ Skew[s.outChain] \in Nat
      /\ LockMargin \in Nat /\ Skew[s.inChain] <= Skew[s.outChain] + LockMargin
  BY <1>1, TimeAssumption, ProtocolAssumption DEF TypeOK
<1>3. locked[s.outChain][IdOf(s)] \in LockStatus
  BY <1>1 DEF TypeOK
<1>4. s.expireTs \in Nat
  BY SwapFacts
<1> QED BY <1>2, <1>3, <1>4 DEF Timestamp, LockStatus

\* Every step of the parties is a call, a signature or a tick of the contract.
LEMMA ProtocolSteps ==
  ASSUME TypeOK, [ProtocolNext]_vars
  PROVE  [Next]_vars
<1>1. Provider \subseteq Addr /\ \A a \in Provider : PoolOf[a] \in Pool
  BY ProtocolAssumption
<1>2. 0 \in Pool /\ 0 \in MsgValues /\ 0 \in Nat
  BY TokenAssumption, AmountAssumption DEF Pool
<1>3. ASSUME NEW s \in Swap, Post(s) \/ Bond(s) \/ Cancel(s) \/ ExecuteForProvider(s)
      PROVE  SwapCall(s.inChain)
  <2>1. UNCHANGED <<envVars, adminVars, registryVars, lockVars>>
    BY <1>3 DEF Post, Bond, Cancel, ExecuteForProvider, OnInChain
  <2>2. InitiatorOf[s] \in Initiator
    BY IdFacts
  <2>3. CASE Post(s)
    BY <1>1, <1>2, <2>1, <2>2, <2>3 DEF Post, SwapCall
  <2>4. CASE Bond(s)
    BY <1>1, <2>1, <2>4 DEF Bond, SwapCall
  <2>5. CASE Cancel(s)
    BY <2>1, <2>5 DEF Cancel, SwapCall
  <2>6. CASE ExecuteForProvider(s)
    BY <2>1, <2>6 DEF ExecuteForProvider, SwapCall
  <2> QED BY <1>3, <2>3, <2>4, <2>5, <2>6
<1>4. ASSUME NEW s \in Swap, Lock(s) \/ ReleaseToUser(s) \/ UnlockForProvider(s)
      PROVE  PoolCall(s.outChain)
  <2>1. UNCHANGED <<envVars, adminVars, swapVars>>
    BY <1>4 DEF Lock, ReleaseToUser, UnlockForProvider, OnOutChain
  <2>2. InitiatorOf[s] \in Initiator /\ s.outChain \in Chain
    BY IdFacts
  <2>3. CASE Lock(s)
    BY <1>1, <2>1, <2>2, <2>3 DEF Lock, PoolCall
  <2>4. CASE ReleaseToUser(s)
    <3>1. PICK caller \in Addr : caller = premiumManager[s.outChain]
      BY <2>2 DEF TypeOK
    <3>2. PICK recipient \in Recipient : Release(s.outChain, TRUE, s, InitiatorOf[s], recipient)
      BY <2>4 DEF ReleaseToUser
    <3>3. (caller = premiumManager[s.outChain]) = TRUE
      BY <3>1
    <3>4. Release(s.outChain, caller = premiumManager[s.outChain], s, InitiatorOf[s], recipient)
      BY <3>2, <3>3
    <3> QED BY <2>1, <2>2, <3>4 DEF PoolCall
  <2>5. CASE UnlockForProvider(s)
    <3>1. PICK caller \in Addr : caller = Admin
      BY AddrAssumption
    <3> QED BY <2>1, <2>2, <2>5 DEF UnlockForProvider, PoolCall
  <2> QED BY <1>4, <2>3, <2>4, <2>5
<1>5. ASSUME NEW s \in Swap, Sign(s)
      PROVE  \E r \in Recipient : SignRelease(s, InitiatorOf[s], r)
  BY <1>5 DEF Sign
<1>6. CASE UNCHANGED vars
  BY <1>6
<1>7. CASE ProtocolTick
  BY <1>7 DEF ProtocolTick, Next
<1>8. CASE \E s \in Swap : Post(s) \/ Bond(s) \/ Cancel(s) \/ ExecuteForProvider(s)
  BY <1>3, <1>8, IdFacts DEF Next
<1>9. CASE \E s \in Swap : Lock(s) \/ ReleaseToUser(s) \/ UnlockForProvider(s)
  BY <1>4, <1>9, IdFacts DEF Next
<1>10. CASE \E s \in Swap : Sign(s)
  BY <1>5, <1>10, IdFacts DEF Next
<1> QED BY <1>6, <1>7, <1>8, <1>9, <1>10 DEF ProtocolNext

\* Events are counted one at a time.
LEMMA CountFacts ==
  ASSUME TypeOK, NEW c \in Chain, NEW s \in Swap
  PROVE  LET log == swapLog[c][s]
         IN  /\ log.post \in Nat /\ log.execute \in Nat /\ log.cancel \in Nat
             /\ Count(log, "post").post = log.post + 1
             /\ Count(log, "post").execute = log.execute
             /\ Count(log, "post").cancel = log.cancel
             /\ Count(log, "execute").post = log.post
             /\ Count(log, "execute").execute = log.execute + 1
             /\ Count(log, "execute").cancel = log.cancel
             /\ Count(log, "cancel").post = log.post
             /\ Count(log, "cancel").execute = log.execute
             /\ Count(log, "cancel").cancel = log.cancel + 1
<1> DEFINE log == swapLog[c][s]
<1>1. log \in EventCounts
  BY DEF TypeOK
<1> HIDE DEF log
<1>2. log.post \in Nat /\ log.execute \in Nat /\ log.cancel \in Nat
  BY <1>1 DEF EventCounts, Event
<1>3. \A l \in EventCounts :
        /\ Count(l, "post").post = l.post + 1 /\ Count(l, "post").execute = l.execute
        /\ Count(l, "post").cancel = l.cancel
        /\ Count(l, "execute").execute = l.execute + 1
        /\ Count(l, "execute").post = l.post /\ Count(l, "execute").cancel = l.cancel
        /\ Count(l, "cancel").cancel = l.cancel + 1
        /\ Count(l, "cancel").post = l.post /\ Count(l, "cancel").execute = l.execute
  BY CountType DEF Event
<1> QED BY <1>1, <1>2, <1>3 DEF log

\* A step on the initial chain of a swap touches neither another swap nor what
\* other chains know, and these are the changes it makes.
LEMMA InChainStep ==
  ASSUME TypeOK, NEW s \in Swap, Post(s) \/ Bond(s) \/ Cancel(s) \/ ExecuteForProvider(s)
  PROVE  /\ OthersStay(s.inChain, s)
         /\ UNCHANGED <<now, releaseSigs, locked, releases>>
         /\ LET c == s.inChain IN
            \/ /\ VerifyEncodedSwap(c, s)
               /\ posted'[c][s].st = "posted" /\ swapLog'[c][s] = Count(swapLog[c][s], "post")
            \/ /\ IsPosted(c, s) /\ posted'[c][s].st = "posted" /\ swapLog'[c][s] = swapLog[c][s]
            \/ /\ IsPosted(c, s) /\ Expired(c, s)
               /\ posted'[c][s].st = "none"
               /\ swapLog'[c][s] = Count(swapLog[c][s], "cancel")
            \/ /\ IsPosted(c, s) /\ SignedRelease(s)
               /\ posted'[c][s].st \in {"none", "finished"}
               /\ swapLog'[c][s] = Count(swapLog[c][s], "execute")
<1> DEFINE c == s.inChain
<1>1. c \in Chain
  BY IdFacts
<1>2. UNCHANGED <<now, releaseSigs, locked, releases>>
  BY DEF Post, Bond, Cancel, ExecuteForProvider, OnInChain, envVars, lockVars
<1>3. /\ posted \in [Chain -> [Swap -> SwapStatus]]
      /\ swapLog \in [Chain -> [Swap -> EventCounts]]
  BY DEF TypeOK
<1>4. ASSUME NEW y, NEW l, posted' = [posted EXCEPT ![c][s] = y],
             swapLog' = [swapLog EXCEPT ![c][s] = l]
      PROVE  /\ posted'[c][s] = y /\ swapLog'[c][s] = l /\ OthersStay(c, s)
  <2> HIDE DEF c
  <2> QED BY <1>1, <1>3, <1>4 DEF OthersStay
<1>5. CASE Post(s)
  <2>1. PICK p : VerifyEncodedSwap(c, s) /\ RecordPost(c, s, InitiatorOf[s], p)
    BY <1>5 DEF Post, PostSwapFromInitiator, PostSwap
  <2>2. posted'[c][s] = Posted(InitiatorOf[s], p) /\ OthersStay(c, s)
        /\ swapLog'[c][s] = Count(swapLog[c][s], "post")
    BY <2>1, <1>4 DEF RecordPost
  <2> QED BY <1>2, <2>1, <2>2 DEF Posted
<1>6. CASE Bond(s)
  <2>1. PICK a \in Provider : BondSwap(c, a, s, PoolOf[a])
    BY <1>6 DEF Bond
  <2>2. /\ IsPosted(c, s) /\ posted' = [posted EXCEPT ![c][s].pool = PoolOf[a]]
        /\ swapLog' = swapLog
    BY <2>1 DEF BondSwap
  <2>3. posted'[c][s].st = posted[c][s].st /\ OthersStay(c, s)
    <3> HIDE DEF c
    <3> QED BY <1>1, <1>3, <2>2 DEF OthersStay, SwapStatus
  <2> QED BY <1>2, <2>2, <2>3 DEF IsPosted
<1>7. CASE Cancel(s)
  <2>1. /\ IsPosted(c, s) /\ Expired(c, s)
        /\ posted' = [posted EXCEPT ![c][s] = NotPosted]
        /\ swapLog' = [swapLog EXCEPT ![c][s] = Count(swapLog[c][s], "cancel")]
    BY <1>7 DEF Cancel, CancelSwap, RefundTo
  <2>2. /\ posted'[c][s] = NotPosted /\ OthersStay(c, s)
        /\ swapLog'[c][s] = Count(swapLog[c][s], "cancel")
    BY <2>1, <1>4
  <2> QED BY <1>2, <2>1, <2>2 DEF NotPosted
<1>8. CASE ExecuteForProvider(s)
  <2>1. PICK recipient \in Recipient, b \in BOOLEAN : ExecuteSwap(c, s, recipient, b)
    BY <1>8 DEF ExecuteForProvider
  <2>2. /\ IsPosted(c, s)
        /\ posted' = [posted EXCEPT ![c][s] = AfterExecution(c, s)]
        /\ swapLog' = [swapLog EXCEPT ![c][s] = Count(swapLog[c][s], "execute")]
    BY <2>1 DEF ExecuteSwap
  <2>3. SignedRelease(s)
    BY <2>1 DEF ExecuteSwap, SignedRelease
  <2>4. /\ posted'[c][s] = AfterExecution(c, s) /\ OthersStay(c, s)
        /\ swapLog'[c][s] = Count(swapLog[c][s], "execute")
    BY <2>2, <1>4
  <2> QED BY <1>2, <2>2, <2>3, <2>4 DEF AfterExecution, NotPosted, Finished
<1> QED BY <1>5, <1>6, <1>7, <1>8

\* A step on the target chain of a swap, likewise.
LEMMA OutChainStep ==
  ASSUME TypeOK, NEW s \in Swap, Lock(s) \/ ReleaseToUser(s) \/ UnlockForProvider(s)
  PROVE  /\ \A r \in Swap \ {s} :
              /\ locked'[r.outChain][IdOf(r)] = locked[r.outChain][IdOf(r)]
              /\ releases'[r.outChain][IdOf(r)] = releases[r.outChain][IdOf(r)]
         /\ UNCHANGED <<now, releaseSigs, posted, swapLog>>
         /\ LET d == s.outChain
                x == IdOf(s)
            IN
            \/ /\ IsPosted(s.inChain, s) /\ locked[d][x].st = "none" /\ LocksInTime(d, s)
               /\ locked'[d][x].st = "locked" /\ locked'[d][x].until = LockUntil(d)
               /\ releases'[d][x] = releases[d][x]
            \/ /\ IsLocked(d, x) /\ SignedRelease(s)
               /\ locked'[d][x].st = "released" /\ releases'[d][x] = releases[d][x] + 1
            \/ /\ IsLocked(d, x) /\ LockEnded(d, s, InitiatorOf[s])
               /\ locked'[d][x].st = "none" /\ releases'[d][x] = releases[d][x]
<1> DEFINE d == s.outChain
           x == IdOf(s)
<1>1. d \in Chain /\ x \in SwapId /\ x = <<s, InitiatorOf[s]>>
  BY IdFacts DEF IdOf
<1>2. UNCHANGED <<now, releaseSigs, posted, swapLog>>
  BY DEF Lock, ReleaseToUser, UnlockForProvider, OnOutChain, envVars, swapVars
<1>3. locked \in [Chain -> [SwapId -> LockStatus]] /\ releases \in [Chain -> [SwapId -> Nat]]
  BY DEF TypeOK
<1>4. \A r \in Swap \ {s} : r.outChain \in Chain /\ IdOf(r) \in SwapId /\ IdOf(r) # x
  BY IdFacts
<1>5. ASSUME NEW y, locked' = [locked EXCEPT ![d][x] = y]
      PROVE  /\ locked'[d][x] = y
             /\ \A r \in Swap \ {s} :
                  locked'[r.outChain][IdOf(r)] = locked[r.outChain][IdOf(r)]
  <2> HIDE DEF d, x
  <2> QED BY <1>1, <1>3, <1>4, <1>5
<1>6. CASE Lock(s)
  <2>1. PICK a \in Provider : BondedTo(s, PoolOf[a]) /\ LockSwap(d, a, s, InitiatorOf[s])
    BY <1>6 DEF Lock
  <2>2. PICK y : y = Locked(LockUntil(d), poolOfAuthorizedAddr[d][a])
    OBVIOUS
  <2>3. /\ locked[d][x] = NotLocked /\ LocksInTime(d, s) /\ releases' = releases
        /\ locked' = [locked EXCEPT ![d][x] = y]
    BY <1>1, <2>1, <2>2 DEF LockSwap
  <2>4. IsPosted(s.inChain, s)
    BY <2>1 DEF BondedTo, Posted, IsPosted
  <2>5. y.st = "locked" /\ y.until = LockUntil(d)
    BY <2>2 DEF Locked
  <2>6. /\ locked'[d][x] = y
        /\ \A r \in Swap \ {s} : locked'[r.outChain][IdOf(r)] = locked[r.outChain][IdOf(r)]
    BY <1>5, <2>3
  <2>7. locked[d][x].st = "none"
    BY <2>3 DEF NotLocked
  <2> HIDE DEF d, x
  <2>8. locked'[d][x].st = "locked" /\ locked'[d][x].until = LockUntil(d)
    BY <2>5, <2>6
  <2> QED BY <1>2, <2>3, <2>4, <2>6, <2>7, <2>8 DEF d, x
<1>7. CASE ReleaseToUser(s)
  <2>1. PICK recipient \in Recipient : Release(d, TRUE, s, InitiatorOf[s], recipient)
    BY <1>7 DEF ReleaseToUser
  <2>2. IsLocked(d, x) /\ SignedRelease(s) /\ RecordRelease(d, x)
    BY <1>1, <2>1 DEF Release, ReleaseSigned, SignedRelease
  <2>3. /\ locked' = [locked EXCEPT ![d][x] = Released]
        /\ releases' = [releases EXCEPT ![d][x] = releases[d][x] + 1]
    BY <2>2 DEF RecordRelease
  <2>4. /\ releases'[d][x] = releases[d][x] + 1
        /\ \A r \in Swap \ {s} :
             releases'[r.outChain][IdOf(r)] = releases[r.outChain][IdOf(r)]
    <3> HIDE DEF d, x
    <3> QED BY <1>1, <1>3, <1>4, <2>3
  <2>5. Released.st = "released"
    BY DEF Released
  <2>6. /\ locked'[d][x] = Released
        /\ \A r \in Swap \ {s} : locked'[r.outChain][IdOf(r)] = locked[r.outChain][IdOf(r)]
    BY <1>5, <2>3, <2>5
  <2> HIDE DEF d, x
  <2>7. locked'[d][x].st = "released"
    BY <2>5, <2>6
  <2> QED BY <1>2, <2>2, <2>4, <2>6, <2>7 DEF d, x
<1>8. CASE UnlockForProvider(s)
  <2>1. /\ IsLocked(d, x) /\ LockEnded(d, s, InitiatorOf[s]) /\ releases' = releases
        /\ locked' = [locked EXCEPT ![d][x] = NotLocked]
    BY <1>1, <1>8 DEF UnlockForProvider, Unlock
  <2>2. NotLocked.st = "none"
    BY DEF NotLocked
  <2>3. /\ locked'[d][x] = NotLocked
        /\ \A r \in Swap \ {s} : locked'[r.outChain][IdOf(r)] = locked[r.outChain][IdOf(r)]
    BY <1>5, <2>1, <2>2
  <2> HIDE DEF d, x
  <2>4. locked'[d][x].st = "none"
    BY <2>2, <2>3
  <2> QED BY <1>2, <2>1, <2>3, <2>4 DEF d, x
<1> QED BY <1>6, <1>7, <1>8

\* What a step may do to the legs of a swap, as AtomicSwap has it.
LegsMove(s) ==
  \/ UserLeg(s)' = UserLeg(s) /\ LpLeg(s)' = LpLeg(s)
  \/ /\ UserLeg(s) = "idle" /\ UserLeg(s)' = "funded"
     /\ LpLeg(s)' = LpLeg(s)
  \/ /\ UserLeg(s) = "funded" /\ LpLeg(s) = "idle" /\ LpLeg(s)' = "reserved"
     /\ UserLeg(s)' = UserLeg(s)
  \/ /\ SignedRelease(s) /\ LpLeg(s) = "reserved" /\ LpLeg(s)' = "paid"
     /\ UserLeg(s)' = UserLeg(s)
  \/ /\ SignedRelease(s) /\ UserLeg(s) = "funded" /\ UserLeg(s)' = "paid"
     /\ LpLeg(s)' = LpLeg(s)
  \/ /\ ~SignedRelease(s) /\ UserLeg(s) = "funded" /\ UserLeg(s)' = "refunded"
     /\ LpLeg(s)' = LpLeg(s)
  \/ /\ ~SignedRelease(s) /\ LpLeg(s) = "reserved" /\ LpLeg(s)' = "idle"
     /\ UserLeg(s)' = UserLeg(s)

\* A swap that a step leaves alone keeps its ties and its legs.
LEMMA TiesStay ==
  ASSUME NEW r \in Swap, SwapTies(r), now' = now, SignedRelease(r)' = SignedRelease(r),
         posted'[r.inChain][r] = posted[r.inChain][r],
         swapLog'[r.inChain][r] = swapLog[r.inChain][r],
         locked'[r.outChain][IdOf(r)] = locked[r.outChain][IdOf(r)],
         releases'[r.outChain][IdOf(r)] = releases[r.outChain][IdOf(r)]
  PROVE  SwapTies(r)' /\ UserLeg(r)' = UserLeg(r) /\ LpLeg(r)' = LpLeg(r)
<1>1. /\ IsPosted(r.inChain, r)' <=> IsPosted(r.inChain, r)
      /\ IsLocked(r.outChain, IdOf(r))' <=> IsLocked(r.outChain, IdOf(r))
      /\ IdOf(r)' = IdOf(r)
      /\ Timestamp(r.inChain)' = Timestamp(r.inChain)
      /\ Timestamp(r.outChain)' = Timestamp(r.outChain)
  BY DEF IsPosted, IsLocked, IdOf, Timestamp
<1>2. UserLeg(r)' = UserLeg(r) /\ LpLeg(r)' = LpLeg(r)
  BY <1>1 DEF UserLeg, LpLeg
<1>3. SwapTies(r)'
  BY <1>1 DEF SwapTies
<1> QED BY <1>2, <1>3

\* What the slot and the lock say of the legs of a swap.
LEMMA LegFacts ==
  ASSUME IInv, NEW s \in Swap
  PROVE  /\ IsPosted(s.inChain, s) =>
              /\ swapLog[s.inChain][s].post = 1 /\ swapLog[s.inChain][s].execute = 0
              /\ swapLog[s.inChain][s].cancel = 0
         /\ VerifyEncodedSwap(s.inChain, s) =>
              /\ swapLog[s.inChain][s].post = 0 /\ swapLog[s.inChain][s].execute = 0
              /\ swapLog[s.inChain][s].cancel = 0
         /\ releases[s.outChain][IdOf(s)] =
              (IF locked[s.outChain][IdOf(s)].st = "released" THEN 1 ELSE 0)
<1>1. s.inChain \in Chain /\ s.outChain \in Chain /\ IdOf(s) \in SwapId
  BY IdFacts
<1>2. SlotOK(s.inChain, s) /\ LockOK(s.outChain, IdOf(s))
  BY <1>1 DEF IInv, SlotInv, LockInv
<1>3. VerifyEncodedSwap(s.inChain, s) =>
        /\ posted[s.inChain][s].st = "none"
        /\ ~(s.expireTs < Timestamp(s.inChain) + MIN_BOND_TIME_PERIOD)
  <2>1. s.expireTs \in Nat /\ Timestamp(s.inChain) \in Nat /\ MIN_BOND_TIME_PERIOD \in Nat
    BY ClockFacts, TimeAssumption DEF IInv
  <2> QED BY <2>1 DEF VerifyEncodedSwap, NotPosted
<1> QED BY <1>2, <1>3 DEF SlotOK, LockOK, IsPosted

\* Posting, bonding, cancelling and executing keep the ties of the swap: in
\* particular a swap whose release is signed cannot be cancelled, and one that
\* is executed has been signed.
LEMMA InChainTies ==
  ASSUME IInv, NEW s \in Swap, SwapTies(s),
         Post(s) \/ Bond(s) \/ Cancel(s) \/ ExecuteForProvider(s)
  PROVE  SwapTies(s)' /\ LegsMove(s)
<1> DEFINE c == s.inChain
           d == s.outChain
           x == IdOf(s)
           log == swapLog[c][s]
<1>1. TypeOK
  BY DEF IInv
<1>2. c \in Chain
  BY IdFacts
<1>3. /\ UNCHANGED <<now, releaseSigs, locked, releases>>
      /\ \/ /\ VerifyEncodedSwap(c, s)
            /\ posted'[c][s].st = "posted" /\ swapLog'[c][s] = Count(log, "post")
         \/ IsPosted(c, s) /\ posted'[c][s].st = "posted" /\ swapLog'[c][s] = log
         \/ /\ IsPosted(c, s) /\ Expired(c, s)
            /\ posted'[c][s].st = "none" /\ swapLog'[c][s] = Count(log, "cancel")
         \/ /\ IsPosted(c, s) /\ SignedRelease(s)
            /\ posted'[c][s].st \in {"none", "finished"}
            /\ swapLog'[c][s] = Count(log, "execute")
  BY <1>1, InChainStep
<1>4. /\ log.post \in Nat /\ log.execute \in Nat /\ log.cancel \in Nat
      /\ Count(log, "post").post = log.post + 1
      /\ Count(log, "post").execute = log.execute
      /\ Count(log, "post").cancel = log.cancel
      /\ Count(log, "execute").post = log.post
      /\ Count(log, "execute").execute = log.execute + 1
      /\ Count(log, "execute").cancel = log.cancel
      /\ Count(log, "cancel").post = log.post
      /\ Count(log, "cancel").execute = log.execute
      /\ Count(log, "cancel").cancel = log.cancel + 1
  BY <1>1, <1>2, CountFacts
<1>5. /\ IsLocked(d, x)' <=> IsLocked(d, x)
      /\ locked'[d][x] = locked[d][x] /\ releases'[d][x] = releases[d][x]
      /\ IdOf(s)' = IdOf(s) /\ Timestamp(c)' = Timestamp(c) /\ Timestamp(d)' = Timestamp(d)
      /\ SignedRelease(s)' <=> SignedRelease(s)
  BY <1>3 DEF IsLocked, IdOf, Timestamp, SignedRelease
<1>6. LpLeg(s)' = LpLeg(s)
  BY <1>5 DEF LpLeg
<1>7. /\ IsPosted(c, s) => log.post = 1 /\ log.execute = 0 /\ log.cancel = 0
      /\ VerifyEncodedSwap(c, s) => log.post = 0 /\ log.execute = 0 /\ log.cancel = 0
  BY LegFacts
<1>8. s.expireTs \in Nat /\ Timestamp(c) \in Nat
  BY <1>1, ClockFacts
<1>9. /\ UserLeg(s) = IF log.execute > 0 THEN "paid" ELSE IF log.cancel > 0 THEN "refunded"
                      ELSE IF log.post > 0 THEN "funded" ELSE "idle"
      /\ UserLeg(s)' = IF swapLog'[c][s].execute > 0 THEN "paid"
                       ELSE IF swapLog'[c][s].cancel > 0 THEN "refunded"
                       ELSE IF swapLog'[c][s].post > 0 THEN "funded" ELSE "idle"
  BY DEF UserLeg
<1>10. /\ (IsLocked(d, x) => locked[d][x].until < s.expireTs - LockMargin)
       /\ (~SignedRelease(s) => log.execute = 0 /\ releases[d][x] = 0)
       /\ (SignedRelease(s) =>
            /\ log.cancel = 0 /\ log.post = 1
            /\ IsPosted(c, s) \/ log.execute = 1
            /\ IsPosted(c, s) => Timestamp(c) <= s.expireTs
            /\ IsLocked(d, x) \/ releases[d][x] = 1
            /\ IsLocked(d, x) => Timestamp(d) <= locked[d][x].until)
  BY DEF SwapTies
<1>11. IsPosted(c, s)' <=> posted'[c][s].st = "posted"
  BY DEF IsPosted
<1> SUFFICES /\ LegsMove(s)
             /\ (~SignedRelease(s) => swapLog'[c][s].execute = 0)
             /\ (SignedRelease(s) =>
                  /\ swapLog'[c][s].cancel = 0 /\ swapLog'[c][s].post = 1
                  /\ posted'[c][s].st = "posted" \/ swapLog'[c][s].execute = 1
                  /\ posted'[c][s].st = "posted" => Timestamp(c) <= s.expireTs)
  BY <1>5, <1>10, <1>11 DEF SwapTies
<1>12. CASE VerifyEncodedSwap(c, s) /\ posted'[c][s].st = "posted"
            /\ swapLog'[c][s] = Count(log, "post")
  <2>1. ~SignedRelease(s)
    BY <1>7, <1>10, <1>12
  <2>2. UserLeg(s) = "idle" /\ UserLeg(s)' = "funded"
    BY <1>4, <1>7, <1>9, <1>12
  <2> QED BY <1>4, <1>6, <1>7, <1>12, <2>1, <2>2 DEF LegsMove
<1>13. CASE IsPosted(c, s) /\ posted'[c][s].st = "posted" /\ swapLog'[c][s] = log
  <2>1. UserLeg(s)' = UserLeg(s)
    BY <1>9, <1>13
  <2> QED BY <1>6, <1>10, <1>13, <2>1 DEF LegsMove
<1>14. CASE /\ IsPosted(c, s) /\ Expired(c, s)
            /\ posted'[c][s].st = "none" /\ swapLog'[c][s] = Count(log, "cancel")
  <2>1. ~SignedRelease(s)
    BY <1>8, <1>10, <1>14 DEF Expired
  <2>2. UserLeg(s) = "funded" /\ UserLeg(s)' = "refunded"
    BY <1>4, <1>7, <1>9, <1>14
  <2> QED BY <1>4, <1>6, <1>7, <1>14, <2>1, <2>2 DEF LegsMove
<1>15. CASE /\ IsPosted(c, s) /\ SignedRelease(s)
            /\ posted'[c][s].st \in {"none", "finished"}
            /\ swapLog'[c][s] = Count(log, "execute")
  <2>1. UserLeg(s) = "funded" /\ UserLeg(s)' = "paid"
    BY <1>4, <1>7, <1>9, <1>15
  <2> QED BY <1>4, <1>6, <1>7, <1>15, <2>1 DEF LegsMove
<1> QED BY <1>3, <1>12, <1>13, <1>14, <1>15

\* Locking, releasing and unlocking keep the ties of the swap: a lock ends before
\* the swap expires, and a swap whose release is signed cannot be unlocked.
LEMMA OutChainTies ==
  ASSUME IInv, NEW s \in Swap, SwapTies(s),
         Lock(s) \/ ReleaseToUser(s) \/ UnlockForProvider(s)
  PROVE  SwapTies(s)' /\ LegsMove(s)
<1> DEFINE c == s.inChain
           d == s.outChain
           x == IdOf(s)
           lock == locked[d][x]
           lock2 == locked'[d][x]
<1>1. TypeOK
  BY DEF IInv
<1>2. /\ UNCHANGED <<now, releaseSigs, posted, swapLog>>
      /\ \/ /\ IsPosted(c, s) /\ lock.st = "none" /\ LocksInTime(d, s)
            /\ lock2.st = "locked" /\ lock2.until = LockUntil(d)
            /\ releases'[d][x] = releases[d][x]
         \/ /\ IsLocked(d, x) /\ SignedRelease(s)
            /\ lock2.st = "released" /\ releases'[d][x] = releases[d][x] + 1
         \/ /\ IsLocked(d, x) /\ LockEnded(d, s, InitiatorOf[s])
            /\ lock2.st = "none" /\ releases'[d][x] = releases[d][x]
  BY <1>1, OutChainStep
<1>3. /\ IsPosted(c, s)' <=> IsPosted(c, s)
      /\ swapLog'[c][s] = swapLog[c][s]
      /\ IdOf(s)' = IdOf(s) /\ Timestamp(c)' = Timestamp(c) /\ Timestamp(d)' = Timestamp(d)
      /\ SignedRelease(s)' <=> SignedRelease(s)
  BY <1>2 DEF IsPosted, IdOf, Timestamp, SignedRelease
<1>4. UserLeg(s)' = UserLeg(s)
  BY <1>3 DEF UserLeg
<1>5. /\ IsPosted(c, s) => UserLeg(s) = "funded"
      /\ releases[d][x] = (IF lock.st = "released" THEN 1 ELSE 0)
  BY LegFacts DEF UserLeg
<1>6. lock.until \in Nat /\ Timestamp(d) \in Nat
  BY <1>1, ClockFacts
<1>7. /\ LpLeg(s) = IF releases[d][x] > 0 THEN "paid"
                    ELSE IF lock.st = "locked" THEN "reserved" ELSE "idle"
      /\ LpLeg(s)' = IF releases'[d][x] > 0 THEN "paid"
                     ELSE IF lock2.st = "locked" THEN "reserved" ELSE "idle"
  BY <1>3 DEF LpLeg, IsLocked
<1>8. /\ (IsLocked(d, x) => lock.until < s.expireTs - LockMargin)
      /\ (~SignedRelease(s) => swapLog[c][s].execute = 0 /\ releases[d][x] = 0)
      /\ (SignedRelease(s) =>
            /\ swapLog[c][s].cancel = 0 /\ swapLog[c][s].post = 1
            /\ IsPosted(c, s) \/ swapLog[c][s].execute = 1
            /\ IsPosted(c, s) => Timestamp(c) <= s.expireTs
            /\ IsLocked(d, x) \/ releases[d][x] = 1
            /\ IsLocked(d, x) => Timestamp(d) <= lock.until)
  BY DEF SwapTies
<1>9. (IsLocked(d, x) <=> lock.st = "locked") /\ (IsLocked(d, x)' <=> lock2.st = "locked")
  BY <1>3 DEF IsLocked
<1> SUFFICES /\ LegsMove(s)
             /\ (lock2.st = "locked" => lock2.until < s.expireTs - LockMargin)
             /\ (~SignedRelease(s) => releases'[d][x] = 0)
             /\ (SignedRelease(s) =>
                  /\ lock2.st = "locked" \/ releases'[d][x] = 1
                  /\ lock2.st = "locked" => Timestamp(d) <= lock2.until)
  BY <1>3, <1>8, <1>9 DEF SwapTies
<1>10. CASE /\ IsPosted(c, s) /\ lock.st = "none" /\ LocksInTime(d, s)
            /\ lock2.st = "locked" /\ lock2.until = LockUntil(d)
            /\ releases'[d][x] = releases[d][x]
  <2>1. ~SignedRelease(s)
    BY <1>5, <1>8, <1>9, <1>10
  <2>2. LpLeg(s) = "idle" /\ LpLeg(s)' = "reserved"
    BY <1>5, <1>7, <1>10
  <2> QED BY <1>4, <1>5, <1>8, <1>10, <2>1, <2>2 DEF LegsMove, LocksInTime
<1>11. CASE /\ IsLocked(d, x) /\ SignedRelease(s)
            /\ lock2.st = "released" /\ releases'[d][x] = releases[d][x] + 1
  <2>1. LpLeg(s) = "reserved" /\ LpLeg(s)' = "paid" /\ releases'[d][x] = 1
    BY <1>5, <1>7, <1>9, <1>11
  <2> QED BY <1>4, <1>11, <2>1 DEF LegsMove
<1>12. CASE /\ IsLocked(d, x) /\ LockEnded(d, s, InitiatorOf[s])
            /\ lock2.st = "none" /\ releases'[d][x] = releases[d][x]
  <2>1. lock.until < Timestamp(d)
    BY <1>12 DEF LockEnded, IdOf
  <2>2. ~SignedRelease(s)
    BY <1>6, <1>8, <1>12, <2>1
  <2>3. LpLeg(s) = "reserved" /\ LpLeg(s)' = "idle"
    BY <1>5, <1>7, <1>9, <1>12
  <2> QED BY <1>4, <1>8, <1>12, <2>2, <2>3 DEF LegsMove
<1> QED BY <1>2, <1>10, <1>11, <1>12

\* The initiator signs while its payout is locked and the swap is posted, when
\* neither deadline has passed on either clock.
LEMMA SignTies ==
  ASSUME IInv, NEW s \in Swap, SwapTies(s), Sign(s)
  PROVE  /\ SwapTies(s)' /\ SignedRelease(s)'
         /\ UserLeg(s) = "funded" /\ LpLeg(s) = "reserved"
         /\ \A r \in Swap \ {s} : SignedRelease(r)' = SignedRelease(r)
         /\ UNCHANGED <<now, posted, swapLog, locked, releases>>
<1> DEFINE c == s.inChain
           d == s.outChain
           x == IdOf(s)
           lock == locked[d][x]
<1>1. PICK recipient \in Recipient : SignRelease(s, InitiatorOf[s], recipient)
  BY DEF Sign
<1>2. PICK sig : /\ sig.swap = s /\ releaseSigs' = releaseSigs \cup {sig}
                 /\ UNCHANGED <<now, posted, swapLog, locked, releases>>
  <2>1. PICK sig : sig = [swap |-> s, signer |-> InitiatorOf[s], recipient |-> recipient]
    OBVIOUS
  <2> QED BY <1>1, <2>1 DEF SignRelease, swapVars, lockVars
<1>3. SignedRelease(s)' /\ \A r \in Swap \ {s} : SignedRelease(r)' = SignedRelease(r)
  BY <1>2 DEF SignedRelease
<1>4. /\ IsLocked(d, x) /\ IsPosted(c, s) /\ Timestamp(d) <= lock.until
  BY DEF Sign, IsLocked, BondedTo, Posted, IsPosted
<1>5. /\ swapLog[c][s].post = 1 /\ swapLog[c][s].execute = 0 /\ swapLog[c][s].cancel = 0
      /\ releases[d][x] = 0
  BY <1>4, LegFacts DEF IsLocked
<1>6. UserLeg(s) = "funded" /\ LpLeg(s) = "reserved"
  BY <1>4, <1>5 DEF UserLeg, LpLeg
<1>7. lock.until < s.expireTs - LockMargin
  BY <1>4 DEF SwapTies
<1>8. Timestamp(c) <= s.expireTs
  <2>1. /\ Timestamp(c) \in Nat /\ Timestamp(d) \in Nat /\ s.expireTs \in Nat
        /\ LockMargin \in Nat /\ lock.until \in Nat /\ Timestamp(c) <= Timestamp(d) + LockMargin
    BY ClockFacts DEF IInv
  <2> HIDE DEF c, d, lock
  <2> QED BY <1>4, <1>7, <2>1
<1>9. /\ IsPosted(c, s)' /\ IsLocked(d, x)' /\ IdOf(s)' = IdOf(s)
      /\ Timestamp(c)' = Timestamp(c) /\ Timestamp(d)' = Timestamp(d)
      /\ locked'[d][x] = lock /\ releases'[d][x] = releases[d][x]
      /\ swapLog'[c][s] = swapLog[c][s]
  BY <1>2, <1>4 DEF IsPosted, IsLocked, IdOf, Timestamp
<1>10. SwapTies(s)'
  BY <1>3, <1>4, <1>5, <1>7, <1>8, <1>9 DEF SwapTies
<1> QED BY <1>2, <1>3, <1>6, <1>10

\* The clocks wait for the holders of a release signature.
LEMMA TickTies ==
  ASSUME IInv, NEW s \in Swap, SwapTies(s), ProtocolTick
  PROVE  SwapTies(s)' /\ UserLeg(s)' = UserLeg(s) /\ LpLeg(s)' = LpLeg(s)
         /\ SignedRelease(s)' = SignedRelease(s)
<1> DEFINE c == s.inChain
           d == s.outChain
           x == IdOf(s)
<1>1. /\ now' = now + 1 /\ UNCHANGED <<releaseSigs, posted, swapLog, locked, releases>>
      /\ MeetsDeadlines
  BY DEF ProtocolTick, Tick, swapVars, lockVars
<1>2. /\ IsPosted(c, s)' <=> IsPosted(c, s)
      /\ IsLocked(d, x)' <=> IsLocked(d, x)
      /\ IdOf(s)' = IdOf(s) /\ (SignedRelease(s)' <=> SignedRelease(s))
  BY <1>1 DEF IsPosted, IsLocked, IdOf, SignedRelease
<1>3. UserLeg(s)' = UserLeg(s) /\ LpLeg(s)' = LpLeg(s)
  BY <1>1, <1>2 DEF UserLeg, LpLeg
<1>4. Timestamp(c)' = Timestamp(c) + 1 /\ Timestamp(d)' = Timestamp(d) + 1
  <2>1. now \in Nat /\ Skew[c] \in Nat /\ Skew[d] \in Nat
    BY IdFacts, TimeAssumption DEF IInv, TypeOK
  <2> QED BY <1>1, <2>1 DEF Timestamp
<1>5. /\ Timestamp(c) \in Nat /\ Timestamp(d) \in Nat /\ s.expireTs \in Nat
      /\ locked[d][x].until \in Nat
  BY ClockFacts DEF IInv
<1>6. SignedRelease(s) =>
        /\ IsLocked(d, x) => Timestamp(d) < locked[d][x].until
        /\ IsPosted(c, s) => Timestamp(c) < s.expireTs
  BY <1>1 DEF MeetsDeadlines
<1>7. SignedRelease(s) =>
        /\ IsLocked(d, x) => Timestamp(d) + 1 <= locked[d][x].until
        /\ IsPosted(c, s) => Timestamp(c) + 1 <= s.expireTs
  <2> HIDE DEF c, d, x
  <2> QED BY <1>5, <1>6
<1>8. SwapTies(s)'
  BY <1>1, <1>2, <1>4, <1>7 DEF SwapTies
<1>9. SignedRelease(s)' = SignedRelease(s)
  BY <1>1 DEF SignedRelease
<1> QED BY <1>3, <1>8, <1>9, Zenon

\* Every step of the parties keeps the ties of every swap, and moves the legs of
\* at most one swap, or signs for it, as AtomicSwap allows.
LEMMA ProtocolStep ==
  ASSUME ProtocolInv, [ProtocolNext]_vars
  PROVE  /\ TiesInv'
         /\ \/ \A r \in Swap : /\ UserLeg(r)' = UserLeg(r) /\ LpLeg(r)' = LpLeg(r)
                               /\ SignedRelease(r)' = SignedRelease(r)
            \/ \E s \in Swap :
                 /\ LegsMove(s)
                 /\ \A r \in Swap \ {s} : UserLeg(r)' = UserLeg(r) /\ LpLeg(r)' = LpLeg(r)
                 /\ \A r \in Swap : SignedRelease(r)' = SignedRelease(r)
            \/ \E s \in Swap :
                 /\ SignedRelease(s)' /\ UserLeg(s) = "funded" /\ LpLeg(s) = "reserved"
                 /\ \A r \in Swap : UserLeg(r)' = UserLeg(r) /\ LpLeg(r)' = LpLeg(r)
                 /\ \A r \in Swap \ {s} : SignedRelease(r)' = SignedRelease(r)
<1>1. IInv /\ TypeOK /\ \A s \in Swap : SwapTies(s)
  BY DEF ProtocolInv, TiesInv, IInv
<1>2. CASE UNCHANGED vars
  <2>1. /\ now' = now /\ posted' = posted /\ swapLog' = swapLog /\ locked' = locked
        /\ releases' = releases /\ releaseSigs' = releaseSigs
    BY <1>2 DEF vars, envVars, swapVars, lockVars
  <2>2. \A r \in Swap : SignedRelease(r)' = SignedRelease(r)
    BY <2>1 DEF SignedRelease
  <2>3. \A r \in Swap : SwapTies(r)' /\ UserLeg(r)' = UserLeg(r) /\ LpLeg(r)' = LpLeg(r)
    BY <1>1, <2>1, <2>2, TiesStay
  <2> QED BY <2>2, <2>3 DEF TiesInv
<1>3. CASE ProtocolTick
  <2>1. \A r \in Swap : /\ SwapTies(r)' /\ UserLeg(r)' = UserLeg(r) /\ LpLeg(r)' = LpLeg(r)
                        /\ SignedRelease(r)' = SignedRelease(r)
    BY <1>1, <1>3, TickTies
  <2> QED BY <2>1 DEF TiesInv
<1>4. ASSUME NEW s \in Swap, SwapTies(s)', LegsMove(s),
             UNCHANGED <<now, releaseSigs>>,
             \A r \in Swap \ {s} :
               /\ posted'[r.inChain][r] = posted[r.inChain][r]
               /\ swapLog'[r.inChain][r] = swapLog[r.inChain][r]
               /\ locked'[r.outChain][IdOf(r)] = locked[r.outChain][IdOf(r)]
               /\ releases'[r.outChain][IdOf(r)] = releases[r.outChain][IdOf(r)]
      PROVE  /\ TiesInv' /\ LegsMove(s)
             /\ \A r \in Swap \ {s} : UserLeg(r)' = UserLeg(r) /\ LpLeg(r)' = LpLeg(r)
             /\ \A r \in Swap : SignedRelease(r)' = SignedRelease(r)
  <2>1. \A r \in Swap : SignedRelease(r)' = SignedRelease(r)
    BY <1>4 DEF SignedRelease
  <2>2. \A r \in Swap \ {s} : SwapTies(r)' /\ UserLeg(r)' = UserLeg(r) /\ LpLeg(r)' = LpLeg(r)
    BY <1>1, <1>4, <2>1, TiesStay
  <2> QED BY <1>4, <2>1, <2>2 DEF TiesInv
<1>5. ASSUME NEW s \in Swap, Post(s) \/ Bond(s) \/ Cancel(s) \/ ExecuteForProvider(s)
      PROVE  /\ TiesInv' /\ LegsMove(s)
             /\ \A r \in Swap \ {s} : UserLeg(r)' = UserLeg(r) /\ LpLeg(r)' = LpLeg(r)
             /\ \A r \in Swap : SignedRelease(r)' = SignedRelease(r)
  <2>1. SwapTies(s)' /\ LegsMove(s)
    BY <1>1, <1>5, InChainTies
  <2>2. OthersStay(s.inChain, s) /\ UNCHANGED <<now, releaseSigs, locked, releases>>
    BY <1>1, <1>5, InChainStep
  <2>3. \A r \in Swap \ {s} :
          /\ posted'[r.inChain][r] = posted[r.inChain][r]
          /\ swapLog'[r.inChain][r] = swapLog[r.inChain][r]
    BY <2>2, IdFacts DEF OthersStay
  <2> QED BY <1>4, <2>1, <2>2, <2>3
<1>6. ASSUME NEW s \in Swap, Lock(s) \/ ReleaseToUser(s) \/ UnlockForProvider(s)
      PROVE  /\ TiesInv' /\ LegsMove(s)
             /\ \A r \in Swap \ {s} : UserLeg(r)' = UserLeg(r) /\ LpLeg(r)' = LpLeg(r)
             /\ \A r \in Swap : SignedRelease(r)' = SignedRelease(r)
  <2>1. SwapTies(s)' /\ LegsMove(s)
    BY <1>1, <1>6, OutChainTies
  <2>2. /\ UNCHANGED <<now, releaseSigs, posted, swapLog>>
        /\ \A r \in Swap \ {s} :
             /\ locked'[r.outChain][IdOf(r)] = locked[r.outChain][IdOf(r)]
             /\ releases'[r.outChain][IdOf(r)] = releases[r.outChain][IdOf(r)]
    BY <1>1, <1>6, OutChainStep
  <2> QED BY <1>4, <2>1, <2>2
<1>7. ASSUME NEW s \in Swap, Sign(s)
      PROVE  /\ TiesInv'
             /\ SignedRelease(s)' /\ UserLeg(s) = "funded" /\ LpLeg(s) = "reserved"
             /\ \A r \in Swap : UserLeg(r)' = UserLeg(r) /\ LpLeg(r)' = LpLeg(r)
             /\ \A r \in Swap \ {s} : SignedRelease(r)' = SignedRelease(r)
  <2>1. /\ SwapTies(s)' /\ SignedRelease(s)'
        /\ UserLeg(s) = "funded" /\ LpLeg(s) = "reserved"
        /\ \A r \in Swap \ {s} : SignedRelease(r)' = SignedRelease(r)
        /\ UNCHANGED <<now, posted, swapLog, locked, releases>>
    BY <1>1, <1>7, SignTies
  <2>2. \A r \in Swap \ {s} : SwapTies(r)' /\ UserLeg(r)' = UserLeg(r) /\ LpLeg(r)' = LpLeg(r)
    BY <1>1, <2>1, TiesStay
  <2>3. UserLeg(s)' = UserLeg(s) /\ LpLeg(s)' = LpLeg(s)
    BY <2>1 DEF UserLeg, LpLeg, IsLocked, IdOf
  <2> QED BY <2>1, <2>2, <2>3 DEF TiesInv
<1>8. CASE \E s \in Swap : Post(s) \/ Bond(s) \/ Cancel(s) \/ ExecuteForProvider(s)
  BY <1>5, <1>8
<1>9. CASE \E s \in Swap : Lock(s) \/ ReleaseToUser(s) \/ UnlockForProvider(s)
  BY <1>6, <1>9
<1>10. CASE \E s \in Swap : Sign(s)
  BY <1>7, <1>10
<1> QED BY <1>2, <1>3, <1>8, <1>9, <1>10 DEF ProtocolNext

\* At first the pools are funded and nothing is signed, posted or locked.
LEMMA ProtocolInitInv ==
  ASSUME ProtocolInit
  PROVE  ProtocolInv
<1>1. /\ 0 \in Pool /\ NotPosted \in SwapStatus /\ NotLocked \in LockStatus
      /\ NoEvents \in EventCounts
  BY TokenAssumption DEF Pool, NotPosted, SwapStatus, NotLocked, LockStatus,
                         NoEvents, EventCounts
<1>2. poolOfAuthorizedAddr \in [Chain -> [Addr -> Pool]]
  BY <1>1, ProtocolAssumption DEF ProtocolInit
<1>3. ownerOfPool \in [Chain -> [Pool -> Addr \cup {NoAddr}]]
  <2> DEFINE first(p) == IF \E a \in Provider : PoolOf[a] = p
                         THEN CHOOSE a \in Provider : PoolOf[a] = p ELSE NoAddr
  <2>1. \A p \in Pool : first(p) \in Addr \cup {NoAddr}
    BY ProtocolAssumption
  <2>2. ownerOfPool = [c \in Chain |-> [p \in Pool |-> first(p)]]
    BY DEF ProtocolInit
  <2> HIDE DEF first
  <2> QED BY <2>1, <2>2
<1>4. balance \in [Chain -> [Key -> Nat]]
  BY ProtocolAssumption DEF ProtocolInit
<1>5. held \in [Chain -> [Asset -> Nat]]
  <2> DEFINE share(a) == Cardinality({t \in Listed : AssetOf(t) = a} \X Provider)
  <2>1. \A a \in Asset : share(a) \in Nat
    <3> SUFFICES ASSUME NEW a \in Asset PROVE share(a) \in Nat
      OBVIOUS
    <3>1. IsFiniteSet(1 .. 255)
      <4>1. 1 \in Int /\ 255 \in Int
        OBVIOUS
      <4> QED BY <4>1, FS_Interval, Zenon
    <3>2. IsFiniteSet({t \in Listed : AssetOf(t) = a})
      <4>1. {t \in Listed : AssetOf(t) = a} \subseteq 1 .. 255
        BY TokenAssumption
      <4> QED BY <3>1, <4>1, FS_Subset
    <3>3. IsFiniteSet(Provider)
      BY ProtocolAssumption, FinitenessAssumption, FS_Subset
    <3> QED BY <3>2, <3>3, FS_Product, FS_CardinalityType
  <2>2. held = [c \in Chain |-> [a \in Asset |-> Liquidity * share(a)]]
    BY DEF ProtocolInit
  <2> HIDE DEF share
  <2>3. \A a \in Asset : Liquidity * share(a) \in Nat
    BY <2>1, ProtocolAssumption
  <2> QED BY <2>2, <2>3
<1>6. TypeOK
  BY <1>1, <1>2, <1>3, <1>4, <1>5, AddrAssumption, TokenAssumption
     DEF ProtocolInit, SwapInit, PoolsInit, TypeOK
<1>7. SlotInv
  BY DEF ProtocolInit, SwapInit, SlotInv, SlotOK, NotPosted, NoEvents, Event
<1>8. LockInv
  BY DEF ProtocolInit, PoolsInit, LockInv, LockOK, NotLocked, IsLocked
<1>9. TiesInv
  <2> SUFFICES ASSUME NEW s \in Swap PROVE SwapTies(s)
    BY DEF TiesInv
  <2>1. s.inChain \in Chain /\ s.outChain \in Chain /\ IdOf(s) \in SwapId
    BY IdFacts
  <2>2. /\ locked[s.outChain][IdOf(s)] = NotLocked /\ releases[s.outChain][IdOf(s)] = 0
        /\ swapLog[s.inChain][s] = NoEvents /\ releaseSigs = {}
    BY <2>1 DEF ProtocolInit, SwapInit, PoolsInit
  <2>3. ~SignedRelease(s) /\ NoEvents.execute = 0 /\ NotLocked.st = "none"
    BY <2>2 DEF SignedRelease, NoEvents, Event, NotLocked
  <2> QED BY <2>2, <2>3 DEF SwapTies, IsLocked
<1> QED BY <1>6, <1>7, <1>8, <1>9 DEF ProtocolInv, IInv

\* The invariant of the contract and the ties between the chains are inductive
\* for the parties' steps.
THEOREM ProtocolInvariance == SafeSpec => []ProtocolInv
<1>1. ProtocolInit => ProtocolInv
  BY ProtocolInitInv
<1>2. ProtocolInv /\ [ProtocolNext]_vars => ProtocolInv'
  <2> SUFFICES ASSUME ProtocolInv, [ProtocolNext]_vars PROVE ProtocolInv'
    OBVIOUS
  <2>1. IInv /\ TypeOK
    BY DEF ProtocolInv, IInv
  <2>2. [Next]_vars
    BY <2>1, ProtocolSteps
  <2>3. IInv'
    BY <2>1, <2>2, TypeStep, SlotInvStep, LockInvStep DEF IInv
  <2>4. TiesInv'
    BY ProtocolStep
  <2> QED BY <2>3, <2>4 DEF ProtocolInv
<1> QED BY <1>1, <1>2, PTL DEF SafeSpec

\* A swap is never both released to the user and refunded to it, and when the
\* provider has been paid the user has been, or still can be in time: for any
\* chains whose clocks differ by no more than lockSwap's margin, any providers
\* and any number of swaps at the same time.
THEOREM NobodyEverLoses == SafeSpec => []NobodyLoses
<1>1. ProtocolInv => NobodyLoses
  <2> SUFFICES ASSUME ProtocolInv, NEW s \in Swap
               PROVE  /\ ~(UserLeg(s) = "refunded" /\ LpLeg(s) = "paid")
                      /\ UserLeg(s) = "paid" /\ LpLeg(s) # "paid" =>
                           /\ LpLeg(s) = "reserved"
                           /\ Timestamp(s.outChain) <= locked[s.outChain][IdOf(s)].until
                           /\ Timestamp(s.outChain) < s.expireTs
    BY DEF NobodyLoses
  <2> DEFINE c == s.inChain
             d == s.outChain
             x == IdOf(s)
  <2>1. TypeOK /\ SwapTies(s) /\ c \in Chain /\ d \in Chain /\ x \in SwapId
    BY IdFacts DEF ProtocolInv, TiesInv, IInv
  <2>2. /\ Timestamp(d) \in Nat /\ s.expireTs \in Nat /\ LockMargin \in Nat
        /\ locked[d][x].until \in Nat
    BY <2>1, ClockFacts
  <2>3. /\ swapLog[c][s].execute \in Nat /\ swapLog[c][s].cancel \in Nat
        /\ releases[d][x] \in Nat
    BY <2>1, CountFacts DEF TypeOK
  <2>4. UserLeg(s) = "paid" => swapLog[c][s].execute > 0
    BY DEF UserLeg
  <2>5. UserLeg(s) = "refunded" => swapLog[c][s].cancel > 0
    BY DEF UserLeg
  <2>6. /\ LpLeg(s) = "paid" <=> releases[d][x] > 0
        /\ releases[d][x] = 0 /\ IsLocked(d, x) => LpLeg(s) = "reserved"
    BY DEF LpLeg
  <2>7. ~(UserLeg(s) = "refunded" /\ LpLeg(s) = "paid")
    BY <2>1, <2>3, <2>5, <2>6 DEF SwapTies
  <2>8. ASSUME UserLeg(s) = "paid", LpLeg(s) # "paid"
        PROVE  /\ LpLeg(s) = "reserved"
               /\ Timestamp(d) <= locked[d][x].until /\ Timestamp(d) < s.expireTs
    <3>1. releases[d][x] = 0 /\ SignedRelease(s)
      BY <2>1, <2>3, <2>4, <2>6, <2>8 DEF SwapTies
    <3>2. /\ IsLocked(d, x) /\ Timestamp(d) <= locked[d][x].until
          /\ locked[d][x].until < s.expireTs - LockMargin
      BY <2>1, <3>1 DEF SwapTies
    <3>3. Timestamp(d) < s.expireTs
      <4> HIDE DEF d, x
      <4> QED BY <2>2, <3>2
    <3> QED BY <2>6, <3>1, <3>2, <3>3
  <2> QED BY <2>7, <2>8
<1> QED BY <1>1, ProtocolInvariance, PTL

\* Every step of the parties is a step of the atomic swap, or leaves its legs
\* alone: the four calls on two chains implement it, apart from its fairness.
THEOREM SwapsAreAtomic == SafeSpec => Legs!Init /\ [][Legs!Next]_Legs!legVars
<1>1. ProtocolInit => Legs!Init
  <2> SUFFICES ASSUME ProtocolInit PROVE Legs!Init
    OBVIOUS
  <2>1. \A s \in Swap : UserLeg(s) = "idle" /\ LpLeg(s) = "idle" /\ ~SignedRelease(s)
    <3> SUFFICES ASSUME NEW s \in Swap
                 PROVE  UserLeg(s) = "idle" /\ LpLeg(s) = "idle" /\ ~SignedRelease(s)
      OBVIOUS
    <3>1. s.inChain \in Chain /\ s.outChain \in Chain /\ IdOf(s) \in SwapId
      BY IdFacts
    <3>2. /\ locked[s.outChain][IdOf(s)] = NotLocked /\ releases[s.outChain][IdOf(s)] = 0
          /\ swapLog[s.inChain][s] = NoEvents /\ releaseSigs = {}
      BY <3>1 DEF ProtocolInit, SwapInit, PoolsInit
    <3>3. /\ NoEvents.execute = 0 /\ NoEvents.cancel = 0 /\ NoEvents.post = 0
          /\ NotLocked.st = "none"
      BY DEF NoEvents, Event, NotLocked
    <3> QED BY <3>2, <3>3 DEF UserLeg, LpLeg, SignedRelease, IsLocked
  <2> QED BY <2>1 DEF Legs!Init
<1>2. ProtocolInv /\ [ProtocolNext]_vars => [Legs!Next]_Legs!legVars
  <2> SUFFICES ASSUME ProtocolInv, [ProtocolNext]_vars
               PROVE  [Legs!Next]_Legs!legVars
    OBVIOUS
  <2> DEFINE users == [s \in Swap |-> UserLeg(s)]
             lps == [s \in Swap |-> LpLeg(s)]
             signed == {s \in Swap : SignedRelease(s)}
  <2>1. CASE \A r \in Swap : /\ UserLeg(r)' = UserLeg(r) /\ LpLeg(r)' = LpLeg(r)
                             /\ SignedRelease(r)' = SignedRelease(r)
    BY <2>1 DEF Legs!legVars
  <2>2. ASSUME NEW s \in Swap, LegsMove(s),
               \A r \in Swap \ {s} : UserLeg(r)' = UserLeg(r) /\ LpLeg(r)' = LpLeg(r),
               \A r \in Swap : SignedRelease(r)' = SignedRelease(r)
        PROVE  [Legs!Next]_Legs!legVars
    <3>1. signed' = signed
      BY <2>2
    <3>2. UserLeg(s)' = UserLeg(s) => users' = users
      BY <2>2
    <3>3. LpLeg(s)' = LpLeg(s) => lps' = lps
      BY <2>2
    <3>4. users' = [users EXCEPT ![s] = UserLeg(s)'] /\ lps' = [lps EXCEPT ![s] = LpLeg(s)']
      BY <2>2
    <3>5. /\ users[s] = UserLeg(s) /\ lps[s] = LpLeg(s)
          /\ s \in signed <=> SignedRelease(s)
      OBVIOUS
    <3> QED BY <2>2, <3>1, <3>2, <3>3, <3>4, <3>5
        DEF LegsMove, Legs!Next, Legs!legVars, Legs!Fund, Legs!Reserve, Legs!PayUser,
            Legs!PayProvider, Legs!Refund, Legs!Unreserve
  <2>3. ASSUME NEW s \in Swap, SignedRelease(s)', UserLeg(s) = "funded", LpLeg(s) = "reserved",
               \A r \in Swap : UserLeg(r)' = UserLeg(r) /\ LpLeg(r)' = LpLeg(r),
               \A r \in Swap \ {s} : SignedRelease(r)' = SignedRelease(r)
        PROVE  Legs!Next
    <3>1. signed' = signed \cup {s} /\ users' = users /\ lps' = lps
      BY <2>3
    <3>2. users[s] = "funded" /\ lps[s] = "reserved"
      BY <2>3
    <3> QED BY <3>1, <3>2 DEF Legs!Next, Legs!Commit
  <2> QED BY <2>1, <2>2, <2>3, ProtocolStep
<1> QED BY <1>1, <1>2, ProtocolInvariance, PTL DEF SafeSpec
=============================================================================
