---------------------------- MODULE MesonStatus ----------------------------
(***************************************************************************)
(* Meson, packages/sdk and packages/presets: checkSwapStatus tells how far *)
(* a swap is from what the two chains store about it.  Every family of     *)
(* chains stores it differently and forgets differently; MesonClient turns *)
(* all of them into one status.  The two chains are read one after the     *)
(* other, from nodes that may lag behind.                                  *)
(* One encoded swap is followed.  Outside EVM chains it names its pool     *)
(* when it is posted.                                                      *)
(***************************************************************************)
EXTENDS Naturals, Sequences, SequencesExt

CONSTANTS
  InFamilies, OutFamilies,  \* families of the two chains: "evm", "solana", ...
  MaxLag,                   \* bound on the steps a node lags behind its chain
  MaxLocks                  \* bound on the locks of the swap

ASSUME StatusAssumption ==
  /\ MaxLag \in Nat /\ MaxLocks \in Nat
  /\ InFamilies \cup OutFamilies \subseteq {"evm", "solana", "sui", "aptos", "starknet", "ckb"}

VARIABLES
  families,         \* families of the chains the swap goes between
  posted,           \* what the first chain stored, oldest first
  locked,           \* what the second chain stored, oldest first
  expired,          \* the swap's expireTs has passed
  lockLate,         \* the lock ended more than two minutes ago
  happened,         \* events on the chains
  locks,            \* number of locks
  check             \* the call of checkSwapStatus

statusVars == <<families, posted, locked, expired, lockLate, happened, locks, check>>

NoCheck == [at |-> "idle", initiator |-> "any", since |-> {}, fresh |-> TRUE, posted |-> "none",
            locked |-> "none"]

------------------------------------------------------------------------------
\* The chains

Stored(state, by) == [state |-> state, by |-> by]
NothingStored == Stored("none", "nobody")
IsPosted(state) == Last(posted).state = state
IsLocked(state) == Last(locked) = state

Between(in, out) ==
  /\ families.in = "none"
  /\ families' = [in |-> in, out |-> out]
  /\ UNCHANGED <<posted, locked, expired, lockLate, happened, locks, check>>

PostSwap(by, bonded) ==
  /\ families.in # "none" /\ ~expired
  /\ IsPosted("none") /\ happened \cap {"posted", "posted by other"} = {}
  /\ families.in = "evm" \/ bonded
  /\ posted' = Append(posted, Stored(IF bonded THEN "bonded" ELSE "requested", by))
  /\ happened' = happened \cup {IF by = "initiator" THEN "posted" ELSE "posted by other"}
                          \cup (IF bonded THEN {"bonded"} ELSE {})
  /\ UNCHANGED <<families, locked, expired, lockLate, locks, check>>

BondSwap ==
  /\ ~expired /\ IsPosted("requested")
  /\ posted' = Append(posted, [Last(posted) EXCEPT !.state = "bonded"])
  /\ happened' = happened \cup {"bonded"}
  /\ UNCHANGED <<families, locked, expired, lockLate, locks, check>>

\* close to its expiry, and on CKB always, an executed swap leaves no trace
ExecuteSwap ==
  /\ IsPosted("bonded")
  /\ \E trace \in BOOLEAN :
       /\ trace => ~expired /\ families.in # "ckb"
       /\ families.in = "ckb" => ~trace
       /\ posted' = Append(posted, IF trace THEN Stored("executed", "nobody") ELSE NothingStored)
  /\ happened' = happened \cup {"executed"}
  /\ UNCHANGED <<families, locked, expired, lockLate, locks, check>>

CancelSwap ==
  /\ expired /\ (IsPosted("requested") \/ IsPosted("bonded"))
  /\ posted' = Append(posted, NothingStored)
  /\ happened' = happened \cup {"cancelled"}
  /\ UNCHANGED <<families, locked, expired, lockLate, locks, check>>

LockSwap ==
  /\ families.out # "none" /\ ~expired /\ IsLocked("none")
  /\ locks < MaxLocks
  /\ locked' = Append(locked, "locked")
  /\ happened' = happened \cup {"locked"}
  /\ lockLate' = FALSE /\ locks' = locks + 1
  /\ UNCHANGED <<families, posted, expired, check>>

Unlock ==
  /\ IsLocked("locked") /\ (lockLate \/ expired)
  /\ locked' = Append(locked, IF families.out = "ckb" THEN "unlocked" ELSE "none")
  /\ UNCHANGED <<families, posted, expired, lockLate, happened, locks, check>>

\* CKB: another lock drops the item that is over from the reference cell
ForgetItem ==
  /\ families.out = "ckb" /\ expired /\ (IsLocked("released") \/ IsLocked("unlocked"))
  /\ locked' = Append(locked, "none")
  /\ UNCHANGED <<families, posted, expired, lockLate, happened, locks, check>>

Release ==
  /\ IsLocked("locked") /\ ~expired
  /\ locked' = Append(locked, "released")
  /\ happened' = happened \cup {"released"}
  /\ UNCHANGED <<families, posted, expired, lockLate, locks, check>>

TimePasses ==
  /\ \/ ~expired /\ expired' = TRUE /\ UNCHANGED lockLate
     \/ IsLocked("locked") /\ ~lockLate /\ lockLate' = TRUE /\ UNCHANGED expired
  /\ UNCHANGED <<families, posted, locked, happened, locks, check>>

------------------------------------------------------------------------------
\* What the contract objects of the families read

PostedView(exist, initiator, poolOwner) ==
  [exist |-> exist, initiator |-> initiator, poolOwner |-> poolOwner]
Pending(p) == p.state \in {"requested", "bonded"}
Owner(p)   == IF p.state = "bonded" THEN "pool" ELSE "zero"

EvmPosted(p) == PostedView(p.state # "none", IF Pending(p) THEN p.by ELSE "zero", Owner(p))
\* an account, object or table entry that is absent, or shows whether it is pending
SolanaPosted(p)   == IF p.state = "none" THEN PostedView(FALSE, "absent", "absent")
                     ELSE PostedView(TRUE, IF Pending(p) THEN p.by ELSE "absent",
                                           IF Pending(p) THEN Owner(p) ELSE "absent")
SuiPosted(p)      == SolanaPosted(p)
AptosPosted(p)    == SolanaPosted(p)
StarknetPosted(p) == PostedView(p.state # "none", IF Pending(p) THEN p.by ELSE "absent",
                                IF Pending(p) THEN Owner(p) ELSE "absent")
CkbPosted(p)      == IF Pending(p) THEN PostedView(TRUE, p.by, "pool")
                     ELSE PostedView(FALSE, "absent", "absent")

PostedOn(family, p) ==
  CASE family = "evm"      -> EvmPosted(p)
    [] family = "solana"   -> SolanaPosted(p)
    [] family = "sui"      -> SuiPosted(p)
    [] family = "aptos"    -> AptosPosted(p)
    [] family = "starknet" -> StarknetPosted(p)
    [] family = "ckb"      -> CkbPosted(p)

LockedView(until, poolOwner) == [until |-> until, poolOwner |-> poolOwner]

EvmLocked(l) ==
  CASE l = "none"     -> LockedView(FALSE, "zero")
    [] l = "locked"   -> LockedView(TRUE, "pool")
    [] l = "released" -> LockedView(FALSE, "one")
SolanaLocked(l) ==
  CASE l = "none"     -> LockedView(FALSE, "absent")
    [] l = "locked"   -> LockedView(TRUE, "pool")
    [] l = "released" -> LockedView(FALSE, "one")
SuiLocked(l)      == SolanaLocked(l)
AptosLocked(l)    == SolanaLocked(l)
StarknetLocked(l) == IF l = "released" THEN LockedView(FALSE, "pool") ELSE SolanaLocked(l)
\* the item of the reference cell tells that the swap was locked, not how that ended
CkbLocked(l)      == SolanaLocked(IF l = "unlocked" THEN "released" ELSE l)

LockedOn(family, l) ==
  CASE family = "evm"      -> EvmLocked(l)
    [] family = "solana"   -> SolanaLocked(l)
    [] family = "sui"      -> SuiLocked(l)
    [] family = "aptos"    -> AptosLocked(l)
    [] family = "starknet" -> StarknetLocked(l)
    [] family = "ckb"      -> CkbLocked(l)

------------------------------------------------------------------------------
\* MesonClient: zero addresses count as absent, then the status follows

Present(x) == x \notin {"absent", "zero"}

PostedStatus(v, initiatorToCheck, isExpired) ==
  IF ~Present(v.initiator) THEN IF v.exist THEN "Executed" ELSE "NoneOrAfterRunning"
  ELSE IF initiatorToCheck \notin {"any", v.initiator} THEN "ErrorMadeByOtherInitiator"
  ELSE IF ~Present(v.poolOwner) THEN IF isExpired THEN "ErrorExpired" ELSE "Requested"
  ELSE IF isExpired THEN "ErrorExpiredButBonded" ELSE "Bonded"

\* mutant: a lock without an end is taken for a release, whoever owns it
LockedStatusByEnd(v, late) ==
  IF v.until THEN IF late THEN "ErrorExpired" ELSE "Locked" ELSE "Released"

LockedStatus(v, late) ==
  IF v.until THEN IF late THEN "ErrorExpired" ELSE "Locked"
  ELSE IF Present(v.poolOwner) THEN "Released" ELSE "None"

------------------------------------------------------------------------------
\* presets.checkSwapStatus

StartCheck(initiator) ==
  /\ families.in # "none" /\ check.at = "idle"
  /\ check' = [NoCheck EXCEPT !.at = "posted", !.initiator = initiator, !.since = happened]
  /\ UNCHANGED <<families, posted, locked, expired, lockLate, happened, locks>>

\* a node's view of a history, and whether it is the latest
Seen(history) == {n \in 1..Len(history) : n + MaxLag >= Len(history)}

ReadPosted ==
  /\ check.at = "posted"
  /\ \E n \in Seen(posted) :
       LET status == PostedStatus(PostedOn(families.in, posted[n]), check.initiator, expired)
       IN  check' = [check EXCEPT
             !.posted = status,
             !.fresh  = n = Len(posted),
             !.at     = IF status \in {"NoneOrAfterRunning", "Bonded", "Executed",
                                       "ErrorExpiredButBonded"} THEN "locked" ELSE "told"]
  /\ UNCHANGED <<families, posted, locked, expired, lockLate, happened, locks>>

\* a read of the second chain that fails is left out of the answer
ReadLocked ==
  /\ check.at = "locked"
  /\ \/ check' = [check EXCEPT !.at = "told"]
     \/ \E n \in Seen(locked) :
          check' = [check EXCEPT !.locked = LockedStatus(LockedOn(families.out, locked[n]), lockLate),
                                 !.fresh  = @ /\ n = Len(locked),
                                 !.at     = "told"]
  /\ UNCHANGED <<families, posted, locked, expired, lockLate, happened, locks>>

\* the read of the first chain fails, or the answer is used up
EndCheck ==
  /\ check.at \in {"posted", "told"}
  /\ check' = NoCheck
  /\ UNCHANGED <<families, posted, locked, expired, lockLate, happened, locks>>

------------------------------------------------------------------------------
StatusInit ==
  /\ families = [in |-> "none", out |-> "none"]
  /\ posted = <<NothingStored>> /\ locked = <<"none">>
  /\ expired = FALSE /\ lockLate = FALSE
  /\ happened = {} /\ locks = 0 /\ check = NoCheck

StatusNext ==
  \/ \E in \in InFamilies, out \in OutFamilies : Between(in, out)
  \/ \E by \in {"initiator", "other"}, bonded \in BOOLEAN : PostSwap(by, bonded)
  \/ BondSwap \/ ExecuteSwap \/ CancelSwap \/ LockSwap \/ Unlock \/ ForgetItem \/ Release \/ TimePasses
  \/ \E initiator \in {"any", "initiator"} : StartCheck(initiator)
  \/ ReadPosted \/ ReadLocked \/ EndCheck

------------------------------------------------------------------------------
\* A status that a user acts upon is true: a swap said to be executed, bonded
\* or released was so on its chain, and once released, a swap that has not
\* expired is never again said to be locked, or not to be.  Nodes that lag
\* behind may tell less, never something that did not happen.  On CKB, though,
\* "Released" only says that the swap was locked and no longer is.
Witness(status) ==
  CASE status \in {"Bonded", "ErrorExpiredButBonded"} -> {"bonded"}
    [] status = "Executed"                            -> {"executed"}
    [] status = "ErrorMadeByOtherInitiator"           -> {"posted by other"}
    [] status \in {"Requested", "ErrorExpired"}       -> {"posted", "posted by other"}
    [] OTHER                                          -> {"nothing"}
LockWitness(status) ==
  CASE status \in {"Locked", "ErrorExpired"} -> {"locked"}
    [] status = "Released"                   -> {"released"} \cup
                                                IF families.out = "ckb" THEN {"locked"} ELSE {}
    [] OTHER                                 -> {"nothing"}
StatusTellsTheSwap ==
  check.at = "told" =>
    /\ Witness(check.posted) \cap (happened \cup {"nothing"}) # {}
    /\ LockWitness(check.locked) \cap (happened \cup {"nothing"}) # {}
    /\ check.fresh /\ "released" \in check.since /\ ~expired /\ check.locked # "none" =>
         check.locked = "Released"
=============================================================================
