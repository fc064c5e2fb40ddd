---------------------------- MODULE MesonManager ----------------------------
(***************************************************************************)
(* The whole Meson contract, as it is deployed on every chain, with its    *)
(* management functions: the two sides of a swap, and what its owner and   *)
(* its premium manager may do.  Any call with any arguments may come at    *)
(* any time; the clock and the release signatures are the environment.     *)
(***************************************************************************)
EXTENDS MesonSwap, MesonPools

VARIABLES
  owner,                  \* chain -> _owner
  premiumManager          \* chain -> _premiumManager

adminVars == <<supported, owner, premiumManager>>
vars == <<envVars, adminVars, registryVars, moneyVars, swapVars, lockVars>>

Init ==
  /\ now = 0
  /\ releaseSigs = {}
  /\ supported = [c \in Chain |-> Listed]
  /\ poolOfAuthorizedAddr = [c \in Chain |-> [a \in Addr |-> 0]]
  /\ ownerOfPool = [c \in Chain |-> [p \in Pool |-> NoAddr]]
  /\ balance = [c \in Chain |-> [k \in Key |-> 0]]
  /\ held = [c \in Chain |-> [a \in Asset |-> 0]]
  /\ SwapInit
  /\ PoolsInit
  /\ owner = [c \in Chain |-> Admin]
  /\ premiumManager = [c \in Chain |-> Admin]

\* _addSupportToken for each of a list: a token can be listed once, and only
\* one index can be the chain's core token.
AddSupportTokens(c, caller, ts) ==
  /\ caller = owner[c]
  /\ ts # {} /\ ts \cap supported[c] = {}
  /\ \A t, u \in ts \cup supported[c] :
       t # u => ~(IsCoreToken(t) /\ IsCoreToken(u))
  /\ supported' = [supported EXCEPT ![c] = @ \cup ts]
  /\ UNCHANGED <<owner, premiumManager>>

RemoveSupportToken(c, caller, t) ==
  /\ caller = owner[c]
  /\ t \in supported[c]
  /\ supported' = [supported EXCEPT ![c] = @ \ {t}]
  /\ UNCHANGED <<owner, premiumManager>>

TransferOwnership(c, caller, newOwner) ==
  /\ caller = owner[c]
  /\ owner' = [owner EXCEPT ![c] = newOwner]
  /\ UNCHANGED <<supported, premiumManager>>

TransferPremiumManager(c, caller, newManager) ==
  /\ caller = premiumManager[c]
  /\ premiumManager' = [premiumManager EXCEPT ![c] = newManager]
  /\ UNCHANGED <<supported, owner>>

WithdrawServiceFee(c, caller, t, amount, toPool) ==
  /\ caller = owner[c]
  /\ ownerOfPool[c][toPool] # NoAddr
  /\ Affords(c, <<t, 0>>, amount)
  /\ balance' = [balance EXCEPT ![c] =
       Credit(Debit(@, <<t, 0>>, amount), <<t, toPool>>, amount)]
  /\ UNCHANGED held

\* A swap within one chain, against pool 1.  The premium manager's signature
\* is assumed given; the swap is not marked as posted.
DirectSwap(c, s, recipient) ==
  LET paid == AssetOf(s.outToken)
      out == s.amount - s.fee
  IN  /\ VerifyEncodedSwap(c, s)
      /\ s.outChain = c
      /\ recipient # NoAddr
      /\ out >= 0
      /\ balance' = [balance EXCEPT ![c] =
           Debit(Credit(@, <<s.inToken, 1>>, s.amount), <<s.outToken, 1>>, out)]
      /\ balance'[c][<<s.outToken, 1>>] >= 0
      /\ s.amount > 0 /\ s.inToken \in supported[c] /\ ~IsCoreToken(s.inToken)
      /\ held[c][s.inToken] + s.amount <= Supply
      /\ s.toContract \/ out > 0 => CanTransfer(c, s.outToken, recipient)
      /\ held' = [held EXCEPT ![c] =
           Debit(Credit(@, s.inToken, s.amount), paid, out)]
      /\ held'[c][paid] >= 0
-----------------------------------------------------------------------------
(* The steps of the environment. *)

Tick ==
  /\ now < MaxTime
  /\ now' = now + 1
  /\ UNCHANGED <<releaseSigs, adminVars, registryVars, moneyVars, swapVars, lockVars>>

SignRelease(s, i, recipient) ==
  /\ releaseSigs' =
       releaseSigs \cup {[swap |-> s, signer |-> i, recipient |-> recipient]}
  /\ UNCHANGED <<now, adminVars, registryVars, moneyVars, swapVars, lockVars>>
-----------------------------------------------------------------------------
(* The calls. *)

SwapCall(c) ==
  /\ \E s \in Swap :
       \/ \E caller \in Addr, i \in Initiator, p \in Pool : PostSwap(c, caller, s, i, p)
       \/ \E i \in Initiator, p \in Pool, v \in MsgValues :
            PostSwapFromInitiator(c, i, s, p, v)
       \/ \E contract \in Addr, i \in Initiator, p \in Pool, v \in MsgValues :
            PostSwapFromContract(c, contract, s, i, p, v)
       \/ \E caller \in Addr, p \in Pool : BondSwap(c, caller, s, p)
       \/ CancelSwap(c, s)
       \/ \E recipient \in Recipient : CancelSwapTo(c, s, recipient)
       \/ \E recipient \in Recipient, d \in BOOLEAN : ExecuteSwap(c, s, recipient, d)
       \/ \E i \in Initiator, recipient \in Recipient, v \in MsgValues :
            DirectExecuteSwap(c, s, i, recipient, v)
       \/ \E v \in MsgValues : SimpleExecuteSwap(c, s, v)
  /\ UNCHANGED <<envVars, adminVars, registryVars, lockVars>>

PoolCall(c) ==
  /\ \E caller \in Addr :
       \/ \E t \in Token, p \in Pool, n \in Amounts, v \in MsgValues :
            \/ DepositAndRegister(c, caller, t, p, n, v)
            \/ Deposit(c, caller, t, p, n, v)
       \/ \E t \in Token, p \in Pool, n \in Amounts : Withdraw(c, caller, t, p, n)
       \/ \E a \in Addr :
            \/ AddAuthorizedAddr(c, caller, a)
            \/ RemoveAuthorizedAddr(c, caller, a)
            \/ TransferPoolOwner(c, caller, a)
       \/ \E s \in Swap, i \in Initiator :
            \/ LockSwap(c, caller, s, i)
            \/ Unlock(c, s, i)
            \/ \E recipient \in Recipient :
                 \/ Release(c, caller = premiumManager[c], s, i, recipient)
                 \/ \E signed \in BOOLEAN :
                      DirectRelease(c, caller, caller = premiumManager[c],
                                    s, i, recipient, signed)
  /\ UNCHANGED <<envVars, adminVars, swapVars>>

ManagerCall(c) ==
  \E caller \in Addr :
    \/ /\ \/ \E ts \in SUBSET Token : AddSupportTokens(c, caller, ts)
          \/ \E t \in Token : RemoveSupportToken(c, caller, t)
          \/ \E a \in Addr : TransferOwnership(c, caller, a)
          \/ \E a \in Addr : TransferPremiumManager(c, caller, a)
       /\ UNCHANGED <<envVars, registryVars, moneyVars, swapVars, lockVars>>
    \/ /\ \/ \E t \in Token, n \in Amounts, p \in Pool :
               WithdrawServiceFee(c, caller, t, n, p)
          \/ \E s \in Swap, recipient \in Recipient : DirectSwap(c, s, recipient)
       /\ UNCHANGED <<envVars, adminVars, registryVars, swapVars, lockVars>>

Next ==
  \/ \E c \in Chain : SwapCall(c) \/ PoolCall(c) \/ ManagerCall(c)
  \/ \E s \in Swap, i \in Initiator, recipient \in Recipient : SignRelease(s, i, recipient)
  \/ Tick

Spec == Init /\ [][Next]_vars
=============================================================================
