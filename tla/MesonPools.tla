----------------------------- MODULE MesonPools -----------------------------
(***************************************************************************)
(* The target-chain side of a Meson swap: liquidity providers register     *)
(* pools and fund them, lock the funds of a swap out of a pool, and anyone *)
(* with the initiator's release signature pays the recipient out of the    *)
(* lock.                                                                   *)
(***************************************************************************)
EXTENDS MesonStates

VARIABLES
  locked,                 \* chain -> <<swap, initiator>> -> _lockedSwaps
  releases                \* history: chain -> <<swap, initiator>> -> releases

lockVars == <<locked, releases>>

SwapId == Swap \X Initiator

\* The values of _lockedSwaps: 0, 1, and until|poolIndex.
NotLocked == [st |-> "none", until |-> 0, pool |-> 0]
Released == [st |-> "released", until |-> 0, pool |-> 0]
Locked(until, p) == [st |-> "locked", until |-> until, pool |-> p]

PoolsInit ==
  /\ locked = [c \in Chain |-> [x \in SwapId |-> NotLocked]]
  /\ releases = [c \in Chain |-> [x \in SwapId |-> 0]]

IsLocked(c, x) == locked[c][x].st = "locked"

DepositAndRegister(c, caller, t, p, amount, msgValue) ==
  /\ p # 0
  /\ ownerOfPool[c][p] = NoAddr
  /\ poolOfAuthorizedAddr[c][caller] = 0
  /\ ownerOfPool' = [ownerOfPool EXCEPT ![c][p] = caller]
  /\ poolOfAuthorizedAddr' = [poolOfAuthorizedAddr EXCEPT ![c][caller] = p]
  /\ balance' = [balance EXCEPT ![c] = Credit(@, <<t, p>>, amount)]
  /\ DepositToken(c, t, amount, msgValue)
  /\ UNCHANGED lockVars

Deposit(c, caller, t, p, amount, msgValue) ==
  /\ p # 0
  /\ poolOfAuthorizedAddr[c][caller] = p
  /\ balance' = [balance EXCEPT ![c] = Credit(@, <<t, p>>, amount)]
  /\ DepositToken(c, t, amount, msgValue)
  /\ UNCHANGED <<registryVars, lockVars>>

Withdraw(c, caller, t, p, amount) ==
  /\ amount > 0
  /\ p # 0
  /\ ownerOfPool[c][p] = caller
  /\ Affords(c, <<t, p>>, amount)
  /\ balance' = [balance EXCEPT ![c] = Debit(@, <<t, p>>, amount)]
  /\ SafeTransfer(c, t, caller, amount)
  /\ UNCHANGED <<registryVars, lockVars>>

OwnsItsPool(c, caller) ==
  /\ poolOfAuthorizedAddr[c][caller] # 0
  /\ ownerOfPool[c][poolOfAuthorizedAddr[c][caller]] = caller

AddAuthorizedAddr(c, caller, addr) ==
  /\ poolOfAuthorizedAddr[c][addr] = 0
  /\ OwnsItsPool(c, caller)
  /\ poolOfAuthorizedAddr' =
       [poolOfAuthorizedAddr EXCEPT ![c][addr] = poolOfAuthorizedAddr[c][caller]]
  /\ UNCHANGED <<ownerOfPool, moneyVars, lockVars>>

RemoveAuthorizedAddr(c, caller, addr) ==
  /\ OwnsItsPool(c, caller)
  /\ poolOfAuthorizedAddr[c][addr] = poolOfAuthorizedAddr[c][caller]
  /\ poolOfAuthorizedAddr' = [poolOfAuthorizedAddr EXCEPT ![c][addr] = 0]
  /\ UNCHANGED <<ownerOfPool, moneyVars, lockVars>>

TransferPoolOwner(c, caller, addr) ==
  /\ OwnsItsPool(c, caller)
  /\ poolOfAuthorizedAddr[c][addr] = poolOfAuthorizedAddr[c][caller]
  /\ ownerOfPool' =
       [ownerOfPool EXCEPT ![c][poolOfAuthorizedAddr[c][caller]] = addr]
  /\ UNCHANGED <<poolOfAuthorizedAddr, moneyVars, lockVars>>

\* The funds of a swap leave, or come back to, a pool: the amount in the out
\* token and, when the swap asks for it, some of the chain's core token.
LockFunds(c, s, p) ==
  Debit(Debit(balance[c], <<s.outToken, p>>, AmountToLock(s)),
        <<CoreIndex(c), p>>, CoreTokenAmount(s))

UnlockFunds(c, s, p) ==
  Credit(Credit(balance[c], <<s.outToken, p>>, AmountToLock(s)),
         <<CoreIndex(c), p>>, CoreTokenAmount(s))

LockUntil(c) == Timestamp(c) + LOCK_TIME_PERIOD

\* Mutated: no margin for the clock of the other chain.
LocksBeforeExpiry(c, s) == LockUntil(c) < s.expireTs

\* A lock ends well before the swap expires on its initial chain.
LocksInTime(c, s) == LockUntil(c) < s.expireTs - LockMargin

LockSwap(c, caller, s, i) ==
  LET p == poolOfAuthorizedAddr[c][caller]
  IN  /\ s.outChain = c
      /\ locked[c][<<s, i>>] = NotLocked
      /\ p # 0
      /\ LocksInTime(c, s)
      /\ Computable(s)
      /\ balance' = [balance EXCEPT ![c] = LockFunds(c, s, p)]
      /\ \A k \in {s.outToken, CoreIndex(c)} : balance'[c][<<k, p>>] >= 0
      /\ locked' = [locked EXCEPT ![c][<<s, i>>] = Locked(LockUntil(c), p)]
      /\ UNCHANGED <<held, registryVars, releases>>

\* Mutated: only a swap that has not expired can be unlocked.
LockEndedEarly(c, s, i) ==
  locked[c][<<s, i>>].until < Timestamp(c) /\ s.expireTs > Timestamp(c)

LockEnded(c, s, i) == locked[c][<<s, i>>].until < Timestamp(c)

Unlock(c, s, i) ==
  /\ IsLocked(c, <<s, i>>)
  /\ LockEnded(c, s, i)
  /\ balance' = [balance EXCEPT ![c] = UnlockFunds(c, s, locked[c][<<s, i>>].pool)]
  /\ locked' = [locked EXCEPT ![c][<<s, i>>] = NotLocked]
  /\ UNCHANGED <<held, registryVars, releases>>

\* Mutated: the partner's share is not taken off.
ReleaseAmountUnshared(s) == AmountToLock(s) - FeePaid(s)

\* What the recipient gets of a released swap in the out token.
ReleaseAmount(s) == AmountToLock(s) - FeePaid(s) - AmountToShare(s)

\* _release and _transferCoreToken: the recipient is paid from what the
\* contract holds.  A swap for a contract goes through depositWithBeneficiary;
\* nothing is transferred when there is nothing to transfer.
PayRecipient(c, s, amount, coreAmount) ==
  LET paid == AssetOf(s.outToken)
  IN  /\ s.toContract \/ amount > 0 =>
            IsCoreToken(s.outToken) \/ s.outToken \in supported[c]
      /\ held' = [held EXCEPT ![c] =
           Debit(Debit(@, 0, coreAmount), paid, amount)]
      /\ held'[c][0] >= 0 /\ held'[c][paid] >= 0

\* The service fee goes to pool 0 and the partner's share to its pool.
SettleFees(b, s) ==
  Credit(Credit(b, <<s.outToken, 0>>, FeePaid(s)),
         <<s.outToken, s.sharePool>>, AmountToShare(s))

ReleaseSigned(s, i, recipient) ==
  [swap |-> s, signer |-> i, recipient |-> recipient] \in releaseSigs

\* Mutated: the slot is freed.
ForgetRelease(c, x) ==
  /\ locked' = [locked EXCEPT ![c][x] = NotLocked]
  /\ releases' = [releases EXCEPT ![c][x] = @ + 1]

RecordRelease(c, x) ==
  /\ locked' = [locked EXCEPT ![c][x] = Released]
  /\ releases' = [releases EXCEPT ![c][x] = @ + 1]

\* byPremium: the caller is the premium manager.
Release(c, byPremium, s, i, recipient) ==
  /\ s.expireTs > Timestamp(c)
  /\ recipient # NoAddr
  /\ s.feeWaived => byPremium
  /\ IsLocked(c, <<s, i>>)
  /\ ReleaseSigned(s, i, recipient)
  /\ RecordRelease(c, <<s, i>>)
  /\ ReleaseAmount(s) >= 0
  /\ balance' = [balance EXCEPT ![c] = SettleFees(@, s)]
  /\ PayRecipient(c, s, ReleaseAmount(s), CoreTokenAmount(s))
  /\ UNCHANGED registryVars

\* signed: the call carries a release signature; without one it takes the
\* premium manager.
DirectRelease(c, caller, byPremium, s, i, recipient, signed) ==
  LET p == poolOfAuthorizedAddr[c][caller]
  IN  /\ s.outChain = c
      /\ recipient # NoAddr
      /\ s.feeWaived => byPremium
      /\ locked[c][<<s, i>>] = NotLocked
      /\ p # 0
      /\ IF signed
         THEN s.expireTs > Timestamp(c) /\ ReleaseSigned(s, i, recipient)
         ELSE byPremium
      /\ RecordRelease(c, <<s, i>>)
      /\ Computable(s)
      /\ ReleaseAmount(s) >= 0
      /\ Affords(c, <<s.outToken, p>>, AmountToLock(s))
      /\ balance' = [balance EXCEPT ![c] =
           Debit(SettleFees(Debit(@, <<s.outToken, p>>, AmountToLock(s)), s),
                 <<CoreIndex(c), p>>, CoreTokenAmount(s))]
      /\ balance'[c][<<CoreIndex(c), p>>] >= 0
      /\ PayRecipient(c, s, ReleaseAmount(s), CoreTokenAmount(s))
      /\ UNCHANGED registryVars
=============================================================================
