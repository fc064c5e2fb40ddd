----------------------------- MODULE MesonSwap -----------------------------
(***************************************************************************)
(* The initial-chain side of a Meson swap: the initiator's funds are taken *)
(* when the swap is posted, bonded to one liquidity pool, and leave either *)
(* to that pool, against the initiator's release signature, or back to the *)
(* initiator after the swap expired.                                       *)
(***************************************************************************)
EXTENDS MesonStates

VARIABLES
  posted,                 \* chain -> swap -> _postedSwaps
  swapLog                 \* history: chain -> swap -> events emitted

swapVars == <<posted, swapLog>>

\* The values of _postedSwaps: 0, 1, and initiator|poolIndex.
NotPosted == [st |-> "none", initiator |-> NoAddr, pool |-> 0]
Finished == [st |-> "finished", initiator |-> NoAddr, pool |-> 0]
Posted(i, p) == [st |-> "posted", initiator |-> i, pool |-> p]

Event == {"post", "execute", "cancel"}
NoEvents == [e \in Event |-> 0]
Count(log, event) == [log EXCEPT ![event] = @ + 1]

SwapInit ==
  /\ posted = [c \in Chain |-> [s \in Swap |-> NotPosted]]
  /\ swapLog = [c \in Chain |-> [s \in Swap |-> NoEvents]]

IsPosted(c, s) == posted[c][s].st = "posted"

VerifyEncodedSwap(c, s) ==
  /\ s.inChain = c
  /\ TokenType(s.inToken) = TokenType(s.outToken)
  /\ posted[c][s] = NotPosted
  /\ s.amount <= MAX_SWAP_AMOUNT
  /\ s.expireTs - Timestamp(c) > MIN_BOND_TIME_PERIOD
  /\ s.expireTs - Timestamp(c) < MAX_BOND_TIME_PERIOD

RecordPost(c, s, i, p) ==
  /\ posted' = [posted EXCEPT ![c][s] = Posted(i, p)]
  /\ swapLog' = [swapLog EXCEPT ![c][s] = Count(@, "post")]

\* The initiator's request signature lets anyone post; naming a pool takes an
\* authorized caller.  The call is not payable.
PostSwap(c, caller, s, i, p) ==
  /\ VerifyEncodedSwap(c, s)
  /\ p > 0 /\ caller # i => poolOfAuthorizedAddr[c][caller] = p
  /\ DepositToken(c, s.inToken, s.amount, 0)
  /\ RecordPost(c, s, i, p)
  /\ UNCHANGED balance

PostSwapFromInitiator(c, i, s, p, msgValue) ==
  /\ VerifyEncodedSwap(c, s)
  /\ DepositToken(c, s.inToken, s.amount, msgValue)
  /\ RecordPost(c, s, i, p)
  /\ UNCHANGED balance

\* The calling contract pays, for any initiator it names.
PostSwapFromContract(c, contract, s, i, p, msgValue) ==
  /\ VerifyEncodedSwap(c, s)
  /\ DepositToken(c, s.inToken, s.amount, msgValue)
  /\ RecordPost(c, s, i, p)
  /\ UNCHANGED balance

\* Mutated: a bonded swap can be bonded again.
RebondSwap(c, caller, s, p) ==
  /\ IsPosted(c, s)
  /\ poolOfAuthorizedAddr[c][caller] = p
  /\ posted' = [posted EXCEPT ![c][s].pool = p]
  /\ UNCHANGED <<swapLog, moneyVars>>

BondSwap(c, caller, s, p) ==
  /\ IsPosted(c, s)
  /\ posted[c][s].pool = 0
  /\ poolOfAuthorizedAddr[c][caller] = p
  /\ posted' = [posted EXCEPT ![c][s].pool = p]
  /\ UNCHANGED <<swapLog, moneyVars>>

\* Mutated: the last instant already counts as expired.
ExpiredInclusive(c, s) == s.expireTs <= Timestamp(c)

Expired(c, s) == s.expireTs < Timestamp(c)

RefundTo(c, s, recipient) ==
  /\ IsPosted(c, s)
  /\ Expired(c, s)
  /\ posted' = [posted EXCEPT ![c][s] = NotPosted]
  /\ swapLog' = [swapLog EXCEPT ![c][s] = Count(@, "cancel")]
  /\ SafeTransfer(c, s.inToken, recipient, s.amount)
  /\ UNCHANGED balance

CancelSwap(c, s) == RefundTo(c, s, posted[c][s].initiator)

\* The recipient is one the initiator signed for.
CancelSwapTo(c, s, recipient) == RefundTo(c, s, recipient)

\* Mutated: the slot is always freed.
AfterExecutionFree(c, s) == NotPosted

\* Once the swap could not be posted again its slot is freed.
AfterExecution(c, s) ==
  IF s.expireTs < Timestamp(c) + MIN_BOND_TIME_PERIOD THEN NotPosted ELSE Finished

\* Anyone who has the release signature, at any time.
ExecuteSwap(c, s, recipient, depositToPool) ==
  LET i == posted[c][s].initiator
      p == posted[c][s].pool
  IN  /\ IsPosted(c, s)
      /\ [swap |-> s, signer |-> i, recipient |-> recipient] \in releaseSigs
      /\ posted' = [posted EXCEPT ![c][s] = AfterExecution(c, s)]
      /\ swapLog' = [swapLog EXCEPT ![c][s] = Count(@, "execute")]
      /\ IF depositToPool
         THEN /\ balance' = [balance EXCEPT
                   ![c] = Credit(@, <<s.inToken, p>>, s.amount)]
              /\ UNCHANGED held
         ELSE /\ SafeTransfer(c, s.inToken, ownerOfPool[c][p], s.amount)
              /\ UNCHANGED balance

\* Posting and executing at once, in favour of pool 1: directExecuteSwap takes
\* a release signature and the signer's funds, simpleExecuteSwap the caller's.
ExecuteAtOnce(c, s, msgValue) ==
  /\ VerifyEncodedSwap(c, s)
  /\ posted' = [posted EXCEPT ![c][s] = Finished]
  /\ swapLog' = [swapLog EXCEPT ![c][s] = Count(Count(@, "post"), "execute")]
  /\ balance' = [balance EXCEPT ![c] = Credit(@, <<s.inToken, 1>>, s.amount)]
  /\ DepositToken(c, s.inToken, s.amount, msgValue)

DirectExecuteSwap(c, s, initiator, recipient, msgValue) ==
  /\ [swap |-> s, signer |-> initiator, recipient |-> recipient] \in releaseSigs
  /\ ExecuteAtOnce(c, s, msgValue)

SimpleExecuteSwap(c, s, msgValue) == ExecuteAtOnce(c, s, msgValue)
=============================================================================
