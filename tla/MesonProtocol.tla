--------------------------- MODULE MesonProtocol ---------------------------
(***************************************************************************)
(* Swaps between chains, step by step: the Meson contracts of all chains   *)
(* and the parties that call them.  Step 1 posts a swap on its initial     *)
(* chain (and bonds it to a pool), step 2 locks the provider's funds on    *)
(* the target chain, step 3 releases them and step 4 executes the swap on  *)
(* the initial chain.  The contracts never see each other; what ties the   *)
(* two chains together is the release signature and the clocks.            *)
(*                                                                         *)
(* The parties follow the steps the comments of MesonSwap.sol and          *)
(* MesonPools.sol give them:                                               *)
(*   - the provider locks only a swap that is bonded to its own pool;      *)
(*   - the initiator gives out the release signature only when it sees the *)
(*     provider's lock, in time before the lock ends;                      *)
(*   - whoever holds the signature releases before the lock ends, and      *)
(*     executes before the swap expires (the clocks wait for them).        *)
(***************************************************************************)
EXTENDS MesonProperties

CONSTANTS
  Provider,               \* liquidity providers, owners of one pool each
  PoolOf,                 \* provider -> its pool, on every chain
  InitiatorOf,            \* swap -> the address that requests it
  Liquidity               \* what each pool holds at first of each token

\* A clock may be ahead of another by at most the margin that lockSwap keeps.
ASSUME ProtocolAssumption ==
  /\ Provider \subseteq Addr \ Initiator
  /\ PoolOf \in [Provider -> Pool \ {0}]
  /\ \A a, b \in Provider : PoolOf[a] = PoolOf[b] => a = b
  /\ InitiatorOf \in [Swap -> Initiator]
  /\ \A c, d \in Chain : Skew[c] <= Skew[d] + LockMargin
  /\ \A s \in Swap : s.inChain # s.outChain
  /\ Liquidity \in Nat

IdOf(s) == <<s, InitiatorOf[s]>>

\* The pools are registered and funded, and nothing else has happened.
ProtocolInit ==
  /\ now = 0
  /\ releaseSigs = {}
  /\ supported = [c \in Chain |-> Listed]
  /\ poolOfAuthorizedAddr =
       [c \in Chain |-> [a \in Addr |-> IF a \in Provider THEN PoolOf[a] ELSE 0]]
  /\ ownerOfPool =
       [c \in Chain |-> [p \in Pool |->
          IF \E a \in Provider : PoolOf[a] = p
          THEN CHOOSE a \in Provider : PoolOf[a] = p ELSE NoAddr]]
  /\ balance =
       [c \in Chain |-> [k \in Key |->
          IF k[1] \in Listed /\ \E a \in Provider : PoolOf[a] = k[2]
          THEN Liquidity ELSE 0]]
  /\ held =
       [c \in Chain |-> [a \in Asset |->
          Liquidity * Cardinality({t \in Listed : AssetOf(t) = a} \X Provider)]]
  /\ SwapInit
  /\ PoolsInit
  /\ owner = [c \in Chain |-> Admin]
  /\ premiumManager = [c \in Chain |-> Admin]

OnInChain == UNCHANGED <<envVars, adminVars, registryVars, lockVars>>
OnOutChain == UNCHANGED <<envVars, adminVars, swapVars>>

\* Step 1: by the initiator, for any provider to bond, or by a provider that
\* received the signed request and bonds at once.
Post(s) ==
  /\ \/ PostSwapFromInitiator(s.inChain, InitiatorOf[s], s, 0, 0)
     \/ \E a \in Provider :
          PostSwap(s.inChain, a, s, InitiatorOf[s], PoolOf[a])
  /\ OnInChain

Bond(s) ==
  /\ \E a \in Provider : BondSwap(s.inChain, a, s, PoolOf[a])
  /\ OnInChain

BondedTo(s, p) == posted[s.inChain][s] = Posted(InitiatorOf[s], p)

\* Step 2.
Lock(s) ==
  /\ \E a \in Provider :
       /\ BondedTo(s, PoolOf[a])
       /\ LockSwap(s.outChain, a, s, InitiatorOf[s])
  /\ OnOutChain

SignedRelease(s) == \E sig \in releaseSigs : sig.swap = s

\* The initiator checks the lock against the bond before it signs.
Sign(s) ==
  LET lock == locked[s.outChain][IdOf(s)]
  IN  /\ ~SignedRelease(s)
      /\ lock.st = "locked"
      /\ BondedTo(s, lock.pool)
      /\ Timestamp(s.outChain) <= lock.until
      /\ ReleaseAmount(s) >= 0
      /\ \E recipient \in Recipient : SignRelease(s, InitiatorOf[s], recipient)

\* Step 3.
ReleaseToUser(s) ==
  /\ \E recipient \in Recipient :
       Release(s.outChain, TRUE, s, InitiatorOf[s], recipient)
  /\ OnOutChain

\* Step 4.
ExecuteForProvider(s) ==
  /\ \E recipient \in Recipient, d \in BOOLEAN :
       ExecuteSwap(s.inChain, s, recipient, d)
  /\ OnInChain

Cancel(s) ==
  /\ CancelSwap(s.inChain, s)
  /\ OnInChain

UnlockForProvider(s) ==
  /\ Unlock(s.outChain, s, InitiatorOf[s])
  /\ OnOutChain

\* The holders of a release signature meet their deadlines.
MeetsDeadlines ==
  \A s \in Swap : SignedRelease(s) =>
    /\ IsLocked(s.outChain, IdOf(s)) =>
         Timestamp(s.outChain) < locked[s.outChain][IdOf(s)].until
    /\ IsPosted(s.inChain, s) => Timestamp(s.inChain) < s.expireTs

ProtocolTick == MeetsDeadlines /\ Tick

ProtocolNext ==
  \/ ProtocolTick
  \/ \E s \in Swap :
       \/ Post(s) \/ Bond(s) \/ Lock(s) \/ Sign(s)
       \/ ReleaseToUser(s) \/ ExecuteForProvider(s)
       \/ Cancel(s) \/ UnlockForProvider(s)

SafeSpec == ProtocolInit /\ [][ProtocolNext]_vars

\* Anyone may send the calls that pay out, and each of them pays someone.
ProtocolSpec ==
  /\ SafeSpec
  /\ WF_vars(ProtocolTick)
  /\ \A s \in Swap :
       /\ WF_vars(ReleaseToUser(s))
       /\ WF_vars(ExecuteForProvider(s))
       /\ WF_vars(Cancel(s))
       /\ WF_vars(UnlockForProvider(s))
-----------------------------------------------------------------------------
(* The two legs of a swap, as AtomicSwap sees them. *)

UserLeg(s) ==
  LET log == swapLog[s.inChain][s]
  IN  IF log.execute > 0 THEN "paid"
      ELSE IF log.cancel > 0 THEN "refunded"
      ELSE IF log.post > 0 THEN "funded" ELSE "idle"

LpLeg(s) ==
  IF releases[s.outChain][IdOf(s)] > 0 THEN "paid"
  ELSE IF IsLocked(s.outChain, IdOf(s)) THEN "reserved" ELSE "idle"

Legs ==
  INSTANCE AtomicSwap WITH
    userLeg <- [s \in Swap |-> UserLeg(s)],
    lpLeg <- [s \in Swap |-> LpLeg(s)],
    committed <- {s \in Swap : SignedRelease(s)}

\* The four steps on two chains implement an atomic swap: the provider is paid
\* only against a commitment for which the user's payout is locked, and a
\* committed swap is paid on both chains, neither cancelled nor unlocked.
ImplementsAtomicSwap == Legs!Spec

\* A release and a refund of the same swap never both happen: the provider
\* does not lose its funds.  Nor is the initiator's payout lost: when the
\* provider has been paid the user has been, or still can be.
NobodyLoses ==
  \A s \in Swap :
    /\ ~(UserLeg(s) = "refunded" /\ LpLeg(s) = "paid")
    /\ UserLeg(s) = "paid" /\ LpLeg(s) # "paid" =>
         /\ LpLeg(s) = "reserved"
         /\ Timestamp(s.outChain) <= locked[s.outChain][IdOf(s)].until
         /\ Timestamp(s.outChain) < s.expireTs

\* No funds stay in a swap: what was posted is executed or cancelled, and what
\* was locked is released or unlocked.
NothingStaysLocked ==
  \A s \in Swap :
    /\ []<>(~IsPosted(s.inChain, s))
    /\ []<>(~IsLocked(s.outChain, IdOf(s)))
=============================================================================
