-------------------------- MODULE MesonProperties --------------------------
(***************************************************************************)
(* What the Meson contract promises on one chain, whatever calls come.     *)
(***************************************************************************)
EXTENDS MesonManager

SwapStatus ==
  [st : {"none", "finished", "posted"}, initiator : Initiator \cup {NoAddr}, pool : Pool]

LockStatus == [st : {"none", "released", "locked"}, until : Nat, pool : Pool]

EventCounts == [Event -> Nat]

Signature == [swap : Swap, signer : Initiator, recipient : Recipient]

\* Every variable has the type its mapping declares; no balance is negative.
TypeOK ==
  /\ now \in Nat
  /\ releaseSigs \subseteq Signature
  /\ supported \in [Chain -> SUBSET Token]
  /\ poolOfAuthorizedAddr \in [Chain -> [Addr -> Pool]]
  /\ ownerOfPool \in [Chain -> [Pool -> Addr \cup {NoAddr}]]
  /\ balance \in [Chain -> [Key -> Nat]]
  /\ held \in [Chain -> [Asset -> Nat]]
  /\ posted \in [Chain -> [Swap -> SwapStatus]]
  /\ swapLog \in [Chain -> [Swap -> EventCounts]]
  /\ locked \in [Chain -> [SwapId -> LockStatus]]
  /\ releases \in [Chain -> [SwapId -> Nat]]
  /\ owner \in [Chain -> Addr]
  /\ premiumManager \in [Chain -> Addr]
-----------------------------------------------------------------------------
(* Solvency: what the contract owes of an asset, to the pools, to the      *)
(* initiators of posted swaps and to the recipients of locked ones, never  *)
(* exceeds what it holds of it.                                            *)

PoolClaim(c, a) ==
  [k \in Key |-> IF AssetOf(k[1]) = a THEN balance[c][k] ELSE 0]

PostClaim(c, a) ==
  [s \in Swap |->
     IF IsPosted(c, s) /\ AssetOf(s.inToken) = a THEN s.amount ELSE 0]

LockClaim(c, a) ==
  [x \in SwapId |->
     IF IsLocked(c, x)
     THEN (IF AssetOf(x[1].outToken) = a THEN AmountToLock(x[1]) ELSE 0)
          + (IF a = 0 THEN CoreTokenAmount(x[1]) ELSE 0)
     ELSE 0]

Owed(c, a) == Total(PoolClaim(c, a)) + Total(PostClaim(c, a)) + Total(LockClaim(c, a))

\* The calls that pay out (cancelSwap, executeSwap, release, withdraw) never
\* find the contract short of the tokens they send.
Solvent == \A c \in Chain, a \in Asset : Owed(c, a) <= held[c][a]
-----------------------------------------------------------------------------
(* A swap's funds are taken once and paid out once. *)

\* Freeing a slot of _postedSwaps ("Swap expired so the same one cannot be
\* posted again", "The swap cannot be posted again and therefore safe to
\* remove it") never lets the same encoded swap collect funds twice, and its
\* funds leave once: to the pool or to the initiator, never to both.
SettledOnce ==
  \A c \in Chain, s \in Swap :
    LET log == swapLog[c][s]
    IN  /\ log.post <= 1
        /\ log.execute + log.cancel <= log.post
        /\ IsPosted(c, s) <=> log.post > log.execute + log.cancel

\* However often a swap is locked, unlocked and locked again, it is released
\* to its recipient at most once, and never locked again afterwards.
ReleasedOnce ==
  \A c \in Chain, x \in SwapId :
    /\ releases[c][x] <= 1
    /\ IsLocked(c, x) => releases[c][x] = 0

\* "At most one LP pool can bond to" a swap: the pool a posted swap is bonded
\* to stays its pool until the swap is executed or cancelled.
BondIsFinal ==
  [][\A c \in Chain, s \in Swap :
       IsPosted(c, s) /\ IsPosted(c, s)' /\ posted[c][s].pool # 0
         => posted'[c][s] = posted[c][s]]_vars

\* The balances are those of "supported tokens given by tokenForIndex", whose
\* index 0 means unsupported: no pool has a balance under token index 0.
NothingUnderIndexZero == \A c \in Chain, p \in Pool : balance[c][<<0, p>>] = 0
=============================================================================
