--------------------------- MODULE MesonSdkProofs ---------------------------
(***************************************************************************)
(* Proofs about Meson's SDK: whatever is signed at the same time passes    *)
(* the checks, the status it tells of a swap was true on its chain, what a *)
(* program sends is what parsers and contracts read, and a lock on CKB is  *)
(* remembered; for any swaps, signers, families of chains, lags and        *)
(* processes.                                                              *)
(***************************************************************************)
EXTENDS MesonEncoding, MesonSigning, MesonCalls, MesonStatus, MesonCkb,
        SequenceTheorems, TLAPS

-----------------------------------------------------------------------------
(* Signing several swaps at once. *)

SigningSpec == SigningInit /\ [][SigningNext]_signingVars

\* The three ways to build what is hashed come to the same: the SDK's, that of
\* a wallet in the browser, and the contract's.
LEMMA SameDigests ==
  ASSUME NEW s \in SignedSwaps, NEW kind \in Kind
  PROVE  /\ RemoteDigest(s, kind) = Prehash(s, kind)
         /\ ContractDigest(s, kind) = Prehash(s, kind)
<1>1. {s.fromTron, s.toTron, s.nonTyped, s.testnet} \subseteq BOOLEAN
  BY SigningAssumption
<1>2. kind = "request" \/ kind = "release"
  BY DEF Kind
<1>3. CASE s.fromTron /\ s.nonTyped
  BY <1>2, <1>3 DEF RemoteDigest, ContractDigest, Prehash
<1>4. CASE s.fromTron /\ ~s.nonTyped
  BY <1>4 DEF RemoteDigest, ContractDigest, Prehash
<1>5. CASE ~s.fromTron /\ s.nonTyped
  BY <1>5 DEF RemoteDigest, ContractDigest, Prehash
<1>6. CASE ~s.fromTron /\ ~s.nonTyped
  <2>1. RemoteDigest(s, kind) = Prehash(s, kind)
    BY <1>6 DEF RemoteDigest, Prehash
  <2>2. ContractDigest(s, kind) =
          <<"typed", Notice(kind, s.testnet), RecipientType(s, kind), s, kind>>
    <3>1. CASE kind = "request" /\ s.toTron = TRUE
      BY <1>6, <3>1 DEF ContractDigest, Notice, RecipientType
    <3>4. CASE kind = "request" /\ s.toTron = FALSE
      BY <1>6, <3>4 DEF ContractDigest, Notice, RecipientType
    <3>2. CASE kind = "release" /\ s.toTron = TRUE
      BY <1>6, <3>2 DEF ContractDigest, Notice, RecipientType
    <3>3. CASE kind = "release" /\ s.toTron = FALSE
      BY <1>6, <3>3 DEF ContractDigest, Notice, RecipientType
    <3> QED BY <1>1, <1>2, <3>1, <3>2, <3>3, <3>4
  <2> QED BY <1>6, <2>1, <2>2 DEF Prehash
<1> QED BY <1>1, <1>3, <1>4, <1>5, <1>6

\* The key that stands for a swap, whichever job needs it: that of the wallet, or
\* the one that comes from the seed.
InitiatorOf(s) == IF swapSigner = "nonEcdsa" THEN KeyFromSeed(s) ELSE Wallet

\* The wallet is asked only for seeds; a key that is kept or that signs is the
\* swap's own, and is on record by the time its address is asked for.
SigningInv ==
  /\ asked \subseteq Job
  /\ asked # {} => swapSigner = "nonEcdsa"
  /\ DOMAIN initiatorSwapSigners = SignedSwaps
  /\ \A s \in SignedSwaps : initiatorSwapSigners[s] \in {NoKey, KeyFromSeed(s)}
  /\ \A x \in signing :
       /\ x.job \in Job /\ x.key = InitiatorOf(x.job.swap)
       /\ GetAddress(x.job.swap) = InitiatorOf(x.job.swap)
  /\ \A d \in signedData :
       /\ d.swap \in SignedSwaps /\ d.kind \in Kind
       /\ d.digest = Prehash(d.swap, d.kind)
       /\ d.signer = InitiatorOf(d.swap) /\ d.initiator = InitiatorOf(d.swap)

\* A job has a swap and a kind.
LEMMA JobParts ==
  ASSUME NEW j \in Job
  PROVE  j.swap \in SignedSwaps /\ j.kind \in Kind
BY DEF Job

\* The invariant survives the start of a signature, with a key at hand or not.
LEMMA StartKeepsSigning ==
  ASSUME SigningInv, NEW j \in Job, StartSigning(j)
  PROVE  SigningInv'
<1>1. CASE KeyAtHand(j) = NoKey
  <2>1. swapSigner = "nonEcdsa"
    BY <1>1 DEF KeyAtHand, NoKey, Wallet
  <2> QED BY <1>1, <2>1 DEF SigningInv, StartSigning, InitiatorOf, GetAddress
<1>2. CASE KeyAtHand(j) # NoKey
  <2> DEFINE x == [job |-> j, key |-> KeyAtHand(j)]
  <2>1. x.job = j /\ x.key = KeyAtHand(j)
    OBVIOUS
  <2>2. KeyAtHand(j) = InitiatorOf(j.swap) /\ GetAddress(j.swap) = InitiatorOf(j.swap)
    BY <1>2, JobParts DEF SigningInv, KeyAtHand, InitiatorOf, GetAddress
  <2>3. signing' = signing \cup {x}
    BY <1>2 DEF StartSigning
  <2>4. /\ UNCHANGED <<asked, swapSigner, initiatorSwapSigners, signedData>>
        /\ \A s : InitiatorOf(s)' = InitiatorOf(s) /\ GetAddress(s)' = GetAddress(s)
    BY <1>2 DEF StartSigning, InitiatorOf, GetAddress
  <2> HIDE DEF x
  <2>5. \A y \in signing' : /\ y.job \in Job /\ y.key = InitiatorOf(y.job.swap)
                            /\ GetAddress(y.job.swap) = InitiatorOf(y.job.swap)
    BY <2>1, <2>2, <2>3 DEF SigningInv
  <2> QED BY <2>4, <2>5 DEF SigningInv
<1> QED BY <1>1, <1>2

\* The invariant survives an answer of the wallet: the key it gives is the one of
\* that swap, whatever was signed for other swaps meanwhile.
LEMMA WalletKeepsSigning ==
  ASSUME SigningInv, NEW j \in Job, WalletSigns(j)
  PROVE  SigningInv'
<1>1. j.swap \in SignedSwaps /\ swapSigner = "nonEcdsa" /\ swapSigner' = swapSigner
  BY JobParts DEF SigningInv, WalletSigns
<1> DEFINE x == [job |-> j, key |-> KeyFromSeed(j.swap)]
<1>2. x.job = j /\ x.key = KeyFromSeed(j.swap)
  OBVIOUS
<1>3. signing' = signing \cup {x} /\ asked' = asked \ {j} /\ signedData' = signedData
  BY DEF WalletSigns
<1>4. /\ DOMAIN initiatorSwapSigners' = SignedSwaps
      /\ initiatorSwapSigners'[j.swap] = KeyFromSeed(j.swap)
      /\ \A s \in SignedSwaps : s # j.swap => initiatorSwapSigners'[s] = initiatorSwapSigners[s]
  BY <1>1 DEF SigningInv, WalletSigns
<1>5. \A s : InitiatorOf(s)' = KeyFromSeed(s) /\ InitiatorOf(s) = KeyFromSeed(s)
             /\ GetAddress(s)' = initiatorSwapSigners'[s] /\ GetAddress(s) = initiatorSwapSigners[s]
  BY <1>1 DEF InitiatorOf, GetAddress
<1> HIDE DEF x
<1>6. \A y \in signing' : /\ y.job \in Job /\ y.key = InitiatorOf(y.job.swap)'
                          /\ GetAddress(y.job.swap)' = InitiatorOf(y.job.swap)'
  <2> SUFFICES ASSUME NEW y \in signing'
               PROVE  /\ y.job \in Job /\ y.key = KeyFromSeed(y.job.swap)
                      /\ initiatorSwapSigners'[y.job.swap] = KeyFromSeed(y.job.swap)
    BY <1>5
  <2>1. CASE y = x
    BY <1>2, <1>4, <2>1
  <2>2. CASE y \in signing
    <3>1. /\ y.job \in Job /\ y.key = KeyFromSeed(y.job.swap)
          /\ initiatorSwapSigners[y.job.swap] = KeyFromSeed(y.job.swap)
      BY <1>5, <2>2 DEF SigningInv
    <3> QED BY <3>1, <1>4, JobParts
  <2> QED BY <1>3, <2>1, <2>2
<1>7. \A s \in SignedSwaps : initiatorSwapSigners'[s] \in {NoKey, KeyFromSeed(s)}
  BY <1>4 DEF SigningInv
<1>8. \A d \in signedData : d.signer = InitiatorOf(d.swap)' /\ d.initiator = InitiatorOf(d.swap)'
  BY <1>5 DEF SigningInv
<1> QED BY <1>1, <1>3, <1>4, <1>6, <1>7, <1>8 DEF SigningInv

\* The invariant survives the return of a signature.
LEMMA ReturnKeepsSigning ==
  ASSUME SigningInv, NEW x \in signing, SignatureReturned(x)
  PROVE  SigningInv'
<1> DEFINE digest == IF swapSigner = "remote" THEN RemoteDigest(x.job.swap, x.job.kind)
                     ELSE Prehash(x.job.swap, x.job.kind)
           data == [swap |-> x.job.swap, kind |-> x.job.kind, signer |-> x.key,
                    initiator |-> GetAddress(x.job.swap), digest |-> digest]
<1>1. x.job.swap \in SignedSwaps /\ x.job.kind \in Kind
  BY JobParts DEF SigningInv
<1>2. digest = Prehash(x.job.swap, x.job.kind)
  BY <1>1, SameDigests
<1>3. signedData' = signedData \cup {data} /\ signing' = signing \ {x}
  BY DEF SignatureReturned
<1>4. /\ data.swap \in SignedSwaps /\ data.kind \in Kind
      /\ data.digest = Prehash(data.swap, data.kind)
      /\ data.signer = InitiatorOf(data.swap) /\ data.initiator = InitiatorOf(data.swap)
  BY <1>1, <1>2 DEF SigningInv
<1>5. /\ UNCHANGED <<asked, swapSigner, initiatorSwapSigners>>
      /\ \A s : InitiatorOf(s)' = InitiatorOf(s) /\ GetAddress(s)' = GetAddress(s)
  BY DEF SignatureReturned, InitiatorOf, GetAddress
<1> HIDE DEF data
<1> QED BY <1>3, <1>4, <1>5 DEF SigningInv

\* For any swaps and any of the three signers, with any of their requests and
\* releases signed at the same time, all that is returned for a swap passes the
\* checks of SDK and contract, and always names the same initiator.
THEOREM SignaturesAlwaysVerify == SigningSpec => []SignaturesVerify
<1>1. SigningInit => SigningInv
  BY DEF SigningInit, SigningInv
<1>2. SigningInv /\ [SigningNext]_signingVars => SigningInv'
  <2> SUFFICES ASSUME SigningInv, [SigningNext]_signingVars PROVE SigningInv'
    OBVIOUS
  <2>1. CASE UNCHANGED signingVars
    BY <2>1 DEF signingVars, SigningInv, InitiatorOf, GetAddress
  <2>2. ASSUME NEW j \in Job, WalletRejects(j) PROVE SigningInv'
    BY <2>2 DEF WalletRejects, SigningInv, InitiatorOf, GetAddress
  <2> QED BY <2>1, <2>2, StartKeepsSigning, WalletKeepsSigning, ReturnKeepsSigning DEF SigningNext
<1>3. SigningInv => SignaturesVerify
  BY SameDigests DEF SigningInv, SignaturesVerify, Recovers
<1> QED BY <1>1, <1>2, <1>3, PTL DEF SigningSpec

-----------------------------------------------------------------------------
(* The status of a swap. *)

StatusSpec == StatusInit /\ [][StatusNext]_statusVars

Family == {"evm", "solana", "sui", "aptos", "starknet", "ckb"}
StoredType == [state : {"none", "requested", "bonded", "executed"},
               by : {"initiator", "other", "nobody"}]

\* What a chain of family f may have stored, now or at any time before: it tells
\* of events that happened.  Only on EVM chains a swap is posted without a pool.
TruePosted(p, f, events) ==
  /\ p \in StoredType
  /\ p.state = "requested" => f = "evm"
  /\ p.state = "bonded" => "bonded" \in events
  /\ p.state = "executed" => "executed" \in events
  /\ p.state \in {"requested", "bonded"} =>
       \/ p.by = "initiator" /\ "posted" \in events
       \/ p.by = "other" /\ "posted by other" \in events

TrueLocked(l, f, events) ==
  /\ l \in {"none", "locked", "released", "unlocked"}
  /\ l # "none" => "locked" \in events
  /\ l = "released" => "released" \in events
  /\ l = "unlocked" => f = "ckb"

\* A status and what must have happened for it, as StatusTellsTheSwap says.
TruePostedStatus(status, events) == Witness(status) \cap (events \cup {"nothing"}) # {}
TrueLockStatus(status, f, events) ==
  (CASE status \in {"Locked", "ErrorExpired"} -> {"locked"}
     [] status = "Released" -> {"released"} \cup IF f = "ckb" THEN {"locked"} ELSE {}
     [] OTHER -> {"nothing"}) \cap (events \cup {"nothing"}) # {}

\* Whatever one node says of the first chain, in any of the families, the status
\* that follows has its witness.
LEMMA PostedStatusTrue ==
  ASSUME NEW f \in Family, NEW p, NEW events, TruePosted(p, f, events),
         NEW initiator \in {"any", "initiator"}, NEW late \in BOOLEAN
  PROVE  TruePostedStatus(PostedStatus(PostedOn(f, p), initiator, late), events)
<1> DEFINE v == PostedOn(f, p)
           status == PostedStatus(v, initiator, late)
<1>1. p \in StoredType
  BY DEF TruePosted
<1>2. CASE Pending(p)
  <2>1. /\ v.exist = TRUE /\ v.initiator = p.by
        /\ Present(v.poolOwner) => p.state = "bonded"
    <3>1. CASE f = "evm"
      BY <1>1, <1>2, <3>1 DEF Pending, PostedOn, EvmPosted, PostedView, Present, Owner, StoredType
    <3>2. CASE f \in {"solana", "sui", "aptos"}
      BY <1>1, <1>2, <3>2
      DEF Pending, PostedOn, SolanaPosted, SuiPosted, AptosPosted, PostedView, Present, Owner, StoredType
    <3>3. CASE f = "starknet"
      BY <1>1, <1>2, <3>3
      DEF Pending, PostedOn, StarknetPosted, PostedView, Present, Owner, StoredType
    <3>4. CASE f = "ckb"
      BY <1>1, <1>2, <3>4
      DEF TruePosted, Pending, PostedOn, CkbPosted, PostedView, StoredType
    <3> QED BY <3>1, <3>2, <3>3, <3>4 DEF Family
  <2>2. \/ p.by = "initiator" /\ "posted" \in events
        \/ p.by = "other" /\ "posted by other" \in events
    BY <1>2 DEF Pending, TruePosted
  <2>3. Present(v.initiator)
    BY <2>1, <2>2 DEF Present
  <2>4. CASE status = "ErrorMadeByOtherInitiator"
    <3>1. p.by = "other"
      BY <2>1, <2>2, <2>3, <2>4 DEF PostedStatus
    <3> QED BY <2>2, <2>4, <3>1 DEF TruePostedStatus, Witness
  <2>5. CASE status \in {"Bonded", "ErrorExpiredButBonded"}
    <3>1. Present(v.poolOwner)
      BY <2>3, <2>5 DEF PostedStatus
    <3>2. "bonded" \in events
      BY <2>1, <3>1 DEF TruePosted
    <3> QED BY <2>5, <3>2 DEF TruePostedStatus, Witness
  <2>6. CASE status \in {"Requested", "ErrorExpired"}
    BY <2>2, <2>6 DEF TruePostedStatus, Witness
  <2> QED BY <2>3, <2>4, <2>5, <2>6 DEF PostedStatus
<1>3. CASE ~Pending(p)
  <2>1. /\ ~Present(v.initiator)
        /\ v.exist => p.state = "executed"
    <3>1. CASE f = "evm"
      BY <1>1, <1>3, <3>1 DEF Pending, PostedOn, EvmPosted, PostedView, Present, StoredType
    <3>2. CASE f \in {"solana", "sui", "aptos"}
      BY <1>1, <1>3, <3>2
      DEF Pending, PostedOn, SolanaPosted, SuiPosted, AptosPosted, PostedView, Present, StoredType
    <3>3. CASE f = "starknet"
      BY <1>1, <1>3, <3>3 DEF Pending, PostedOn, StarknetPosted, PostedView, Present, StoredType
    <3>4. CASE f = "ckb"
      BY <1>3, <3>4 DEF PostedOn, CkbPosted, PostedView, Present
    <3> QED BY <3>1, <3>2, <3>3, <3>4 DEF Family
  <2>2. CASE v.exist
    <3>1. "executed" \in events /\ status = "Executed"
      BY <2>1, <2>2 DEF TruePosted, PostedStatus
    <3> QED BY <3>1 DEF TruePostedStatus, Witness
  <2>3. CASE ~v.exist
    <3>1. status = "NoneOrAfterRunning"
      BY <2>1, <2>3 DEF PostedStatus
    <3> QED BY <3>1 DEF TruePostedStatus, Witness
  <2> QED BY <2>2, <2>3
<1> QED BY <1>2, <1>3

\* The same of the second chain; and a lock that was released reads as "Released".
LEMMA LockStatusTrue ==
  ASSUME NEW f \in Family, NEW l, NEW events, TrueLocked(l, f, events), NEW late \in BOOLEAN
  PROVE  /\ TrueLockStatus(LockedStatus(LockedOn(f, l), late), f, events)
         /\ l = "released" => LockedStatus(LockedOn(f, l), late) = "Released"
<1> DEFINE v == LockedOn(f, l)
           status == LockedStatus(v, late)
<1>1. /\ l = "locked" => v.until = TRUE
      /\ l # "locked" => v.until = FALSE
      /\ l = "none" => ~Present(v.poolOwner)
      /\ l = "released" => Present(v.poolOwner)
  <2>1. l \in {"none", "locked", "released"} \/ (f = "ckb" /\ l = "unlocked")
    BY DEF TrueLocked
  <2>2. CASE f = "evm"
    BY <2>1, <2>2 DEF LockedOn, EvmLocked, LockedView, Present
  <2>3. CASE f \in {"solana", "sui", "aptos"}
    BY <2>1, <2>3 DEF LockedOn, SolanaLocked, SuiLocked, AptosLocked, LockedView, Present
  <2>4. CASE f = "starknet"
    BY <2>1, <2>4 DEF LockedOn, StarknetLocked, SolanaLocked, LockedView, Present
  <2>5. CASE f = "ckb"
    BY <2>1, <2>5 DEF LockedOn, CkbLocked, SolanaLocked, LockedView, Present
  <2> QED BY <2>2, <2>3, <2>4, <2>5 DEF Family
<1>2. CASE l = "locked"
  <2>1. status \in {"ErrorExpired", "Locked"} /\ "locked" \in events
    BY <1>1, <1>2 DEF LockedStatus, TrueLocked
  <2> QED BY <1>2, <2>1 DEF TrueLockStatus
<1>3. CASE l = "none"
  <2>1. status = "None"
    BY <1>1, <1>3 DEF LockedStatus
  <2> QED BY <1>3, <2>1 DEF TrueLockStatus
<1>4. CASE l = "released"
  <2>1. status = "Released" /\ "released" \in events
    BY <1>1, <1>4 DEF LockedStatus, TrueLocked
  <2> QED BY <2>1 DEF TrueLockStatus
<1>5. CASE l = "unlocked"
  <2>1. status \in {"Released", "None"} /\ "locked" \in events /\ f = "ckb"
    BY <1>1, <1>5 DEF LockedStatus, TrueLocked
  <2> QED BY <1>5, <2>1 DEF TrueLockStatus
<1> QED BY <1>2, <1>3, <1>4, <1>5 DEF TrueLocked

\* What is known stays known.
LEMMA KnownStays ==
  ASSUME NEW f \in Family \cup {"none"}, NEW events, NEW later, events \subseteq later
  PROVE  /\ \A p : TruePosted(p, f, events) => TruePosted(p, f, later)
         /\ \A l : TrueLocked(l, f, events) => TrueLocked(l, f, later)
         /\ \A s : TruePostedStatus(s, events) => TruePostedStatus(s, later)
         /\ \A s : TrueLockStatus(s, f, events) => TrueLockStatus(s, f, later)
<1>1. \A p : TruePosted(p, f, events) => TruePosted(p, f, later)
  BY DEF TruePosted
<1>2. \A l : TrueLocked(l, f, events) => TrueLocked(l, f, later)
  BY DEF TrueLocked
<1>3. \A W : W \cap (events \cup {"nothing"}) # {} => W \cap (later \cup {"nothing"}) # {}
  OBVIOUS
<1>4. \A s : TruePostedStatus(s, events) => TruePostedStatus(s, later)
  BY <1>3 DEF TruePostedStatus
<1>5. \A s : TrueLockStatus(s, f, events) => TrueLockStatus(s, f, later)
  BY <1>3 DEF TrueLockStatus
<1> QED BY <1>1, <1>2, <1>4, <1>5

Happening == {"posted", "posted by other", "bonded", "executed", "cancelled", "locked", "released"}

\* All a chain stored is true of what happened; and a swap that was released and
\* has not expired still is, since nothing but its expiry lets a lock be
\* forgotten.
ChainsInv ==
  /\ families \in [in : Family \cup {"none"}, out : Family \cup {"none"}]
  /\ families.in = "none" <=> families.out = "none"
  /\ happened \subseteq Happening /\ expired \in BOOLEAN /\ lockLate \in BOOLEAN
  /\ posted \in Seq(StoredType) /\ Len(posted) > 0
  /\ \A n \in 1..Len(posted) : TruePosted(posted[n], families.in, happened)
  /\ locked \in Seq({"none", "locked", "released", "unlocked"}) /\ Len(locked) > 0
  /\ \A n \in 1..Len(locked) : TrueLocked(locked[n], families.out, happened)
  /\ "released" \in happened /\ ~expired => locked[Len(locked)] = "released"

PostedWords == {"none", "Executed", "NoneOrAfterRunning", "ErrorMadeByOtherInitiator",
                "ErrorExpired", "Requested", "ErrorExpiredButBonded", "Bonded"}
LockedWords == {"none", "ErrorExpired", "Locked", "Released", "None"}
Checks ==
  [at : {"idle", "posted", "locked", "told"}, initiator : {"any", "initiator"},
   since : SUBSET Happening, fresh : BOOLEAN, posted : PostedWords, locked : LockedWords]

\* What the call knows so far, and what it tells in the end.
CheckInv ==
  /\ check \in Checks
  /\ check.since \subseteq happened
  /\ check.at # "idle" => families.in # "none"
  /\ check.at # "told" => check.locked = "none"
  /\ TruePostedStatus(check.posted, happened)
  /\ TrueLockStatus(check.locked, families.out, happened)
  /\ check.at = "told" /\ check.fresh /\ "released" \in check.since /\ ~expired
       /\ check.locked # "none" => check.locked = "Released"

StatusInv == ChainsInv /\ CheckInv

-----------------------------------------------------------------------------
\* The first chain stores something else that is true.
LEMMA PostingKeeps ==
  ASSUME ChainsInv, UNCHANGED <<families, locked, expired, lockLate>>,
         NEW p, posted' = Append(posted, p), TruePosted(p, families.in, happened'),
         happened \subseteq happened', happened' \subseteq Happening,
         "released" \in happened' => "released" \in happened
  PROVE  ChainsInv'
<1>1. p \in StoredType /\ families.in \in Family \cup {"none"}
      /\ families.out \in Family \cup {"none"}
  BY DEF TruePosted, ChainsInv
<1>2. posted' \in Seq(StoredType) /\ Len(posted') = Len(posted) + 1 /\ Len(posted) \in Nat
      /\ posted'[Len(posted) + 1] = p
      /\ \A n \in 1..Len(posted) : posted'[n] = posted[n]
  BY <1>1 DEF ChainsInv
<1>3. \A n \in 1..Len(posted') : TruePosted(posted'[n], families.in, happened')
  <2> SUFFICES ASSUME NEW n \in 1..(Len(posted) + 1)
               PROVE  TruePosted(posted'[n], families.in, happened')
    BY <1>2
  <2>1. CASE n \in 1..Len(posted)
    BY <1>1, <1>2, <2>1, KnownStays DEF ChainsInv
  <2>2. CASE n = Len(posted) + 1
    BY <1>2, <2>2
  <2> QED BY <1>2, <2>1, <2>2
<1>4. \A n \in 1..Len(locked) : TrueLocked(locked[n], families.out, happened')
  BY <1>1, KnownStays DEF ChainsInv
<1> QED BY <1>2, <1>3, <1>4 DEF ChainsInv

\* The second chain stores something else that is true.
LEMMA LockingKeeps ==
  ASSUME ChainsInv, UNCHANGED <<families, posted, expired>>, lockLate' \in BOOLEAN,
         NEW l, locked' = Append(locked, l), TrueLocked(l, families.out, happened'),
         happened \subseteq happened', happened' \subseteq Happening,
         "released" \in happened' /\ ~expired => l = "released"
  PROVE  ChainsInv'
<1>1. l \in {"none", "locked", "released", "unlocked"} /\ families.in \in Family \cup {"none"}
      /\ families.out \in Family \cup {"none"}
  BY DEF TrueLocked, ChainsInv
<1>2. locked' \in Seq({"none", "locked", "released", "unlocked"})
      /\ Len(locked') = Len(locked) + 1 /\ Len(locked) \in Nat
      /\ locked'[Len(locked) + 1] = l
      /\ \A n \in 1..Len(locked) : locked'[n] = locked[n]
  BY <1>1 DEF ChainsInv
<1>3. \A n \in 1..Len(locked') : TrueLocked(locked'[n], families.out, happened')
  <2> SUFFICES ASSUME NEW n \in 1..(Len(locked) + 1)
               PROVE  TrueLocked(locked'[n], families.out, happened')
    BY <1>2
  <2>1. CASE n \in 1..Len(locked)
    BY <1>1, <1>2, <2>1, KnownStays DEF ChainsInv
  <2>2. CASE n = Len(locked) + 1
    BY <1>2, <2>2
  <2> QED BY <1>2, <2>1, <2>2
<1>4. \A n \in 1..Len(posted) : TruePosted(posted[n], families.in, happened')
  BY <1>1, KnownStays DEF ChainsInv
<1> QED BY <1>2, <1>3, <1>4 DEF ChainsInv

\* What the call knows stays true while the chains go on.
LEMMA CheckStays ==
  ASSUME CheckInv, ChainsInv, ChainsInv', check' = check, happened \subseteq happened',
         ~expired' => ~expired, families' = families \/ families.in = "none"
  PROVE  CheckInv'
<1>1. families.out \in Family \cup {"none"}
  BY DEF ChainsInv
<1>2. TruePostedStatus(check.posted, happened')
  BY <1>1, KnownStays DEF CheckInv
<1>3. TrueLockStatus(check.locked, families'.out, happened')
  <2>1. CASE families' = families
    BY <1>1, <2>1, KnownStays DEF CheckInv
  <2>2. CASE families.in = "none"
    <3>1. check.locked = "none"
      BY <2>2 DEF CheckInv
    <3> QED BY <3>1 DEF TrueLockStatus
  <2> QED BY <2>1, <2>2
<1>4. check.at # "idle" => families'.in # "none"
  BY DEF CheckInv
<1> QED BY <1>2, <1>3, <1>4 DEF CheckInv

\* The last thing a chain stored is true.
LEMMA LastTrue ==
  ASSUME ChainsInv
  PROVE  /\ Last(posted) = posted[Len(posted)] /\ TruePosted(Last(posted), families.in, happened)
         /\ Last(locked) = locked[Len(locked)] /\ TrueLocked(Last(locked), families.out, happened)
<1>1. Len(posted) \in 1..Len(posted) /\ Len(locked) \in 1..Len(locked)
  BY DEF ChainsInv
<1> QED BY <1>1 DEF ChainsInv, Last

\* Calls on the first chain.
LEMMA FirstChainKeeps ==
  ASSUME ChainsInv,
         \/ \E by \in {"initiator", "other"}, bonded \in BOOLEAN : PostSwap(by, bonded)
         \/ BondSwap \/ ExecuteSwap \/ CancelSwap
  PROVE  ChainsInv' /\ happened \subseteq happened' /\ UNCHANGED <<check, families, expired>>
<1>1. ASSUME NEW by \in {"initiator", "other"}, NEW bonded \in BOOLEAN, PostSwap(by, bonded)
      PROVE  ChainsInv' /\ happened \subseteq happened' /\ UNCHANGED <<check, families, expired>>
  <2> DEFINE p == Stored(IF bonded THEN "bonded" ELSE "requested", by)
  <2>1. p \in StoredType /\ p.by = by /\ p.state = IF bonded THEN "bonded" ELSE "requested"
    BY DEF Stored, StoredType
  <2>2. /\ posted' = Append(posted, p)
        /\ happened' = happened \cup {IF by = "initiator" THEN "posted" ELSE "posted by other"}
                                \cup (IF bonded THEN {"bonded"} ELSE {})
        /\ families.in = "evm" \/ bonded
        /\ UNCHANGED <<families, locked, expired, lockLate, check>>
    BY <1>1 DEF PostSwap
  <2>3. /\ happened \subseteq happened' /\ happened' \subseteq Happening
        /\ "released" \in happened' => "released" \in happened
        /\ bonded => "bonded" \in happened'
        /\ by = "initiator" => "posted" \in happened'
        /\ by = "other" => "posted by other" \in happened'
    BY <2>2 DEF ChainsInv, Happening
  <2> HIDE DEF p
  <2>4. TruePosted(p, families.in, happened')
    BY <2>1, <2>2, <2>3 DEF TruePosted
  <2> QED BY <2>2, <2>3, <2>4, PostingKeeps
<1>2. CASE BondSwap
  <2> DEFINE p == [Last(posted) EXCEPT !.state = "bonded"]
  <2>1. TruePosted(Last(posted), families.in, happened) /\ Last(posted).state = "requested"
    BY <1>2, LastTrue DEF BondSwap, IsPosted
  <2>2. p \in StoredType /\ p.by = Last(posted).by /\ p.state = "bonded"
    BY <2>1 DEF TruePosted, StoredType
  <2>3. /\ posted' = Append(posted, p) /\ happened' = happened \cup {"bonded"}
        /\ UNCHANGED <<families, locked, expired, lockLate, check>>
    BY <1>2 DEF BondSwap
  <2> HIDE DEF p
  <2>4. TruePosted(p, families.in, happened')
    BY <2>1, <2>2, <2>3 DEF TruePosted
  <2>5. /\ happened \subseteq happened' /\ happened' \subseteq Happening
        /\ "released" \in happened' => "released" \in happened
    BY <2>3 DEF ChainsInv, Happening
  <2> QED BY <2>3, <2>4, <2>5, PostingKeeps
<1>3. CASE ExecuteSwap \/ CancelSwap
  <2>1. PICK p : /\ p \in {Stored("executed", "nobody"), NothingStored}
                 /\ posted' = Append(posted, p)
                 /\ p = NothingStored \/ "executed" \in happened'
    BY <1>3 DEF ExecuteSwap, CancelSwap
  <2>2. /\ happened \subseteq happened' /\ happened' \subseteq happened \cup {"executed", "cancelled"}
        /\ UNCHANGED <<families, locked, expired, lockLate, check>>
    BY <1>3 DEF ExecuteSwap, CancelSwap
  <2>3. TruePosted(p, families.in, happened')
    <3>1. CASE p = NothingStored
      BY <3>1 DEF TruePosted, Stored, NothingStored, StoredType
    <3>2. CASE p = Stored("executed", "nobody") /\ "executed" \in happened'
      BY <3>2 DEF TruePosted, Stored, StoredType
    <3> QED BY <2>1, <3>1, <3>2
  <2>4. happened' \subseteq Happening /\ ("released" \in happened' => "released" \in happened)
    BY <2>2 DEF ChainsInv, Happening
  <2> QED BY <2>1, <2>2, <2>3, <2>4, PostingKeeps
<1> QED BY <1>1, <1>2, <1>3

\* Calls on the second chain: a released swap stays so until it expires.
LEMMA SecondChainKeeps ==
  ASSUME ChainsInv, LockSwap \/ Unlock \/ ForgetItem \/ Release
  PROVE  ChainsInv' /\ happened \subseteq happened' /\ UNCHANGED <<check, families, expired>>
<1>1. /\ TrueLocked(Last(locked), families.out, happened)
      /\ "released" \in happened /\ ~expired => Last(locked) = "released"
      /\ happened \subseteq Happening /\ lockLate \in BOOLEAN
  BY LastTrue DEF ChainsInv
<1>2. CASE LockSwap
  <2>1. /\ locked' = Append(locked, "locked") /\ happened' = happened \cup {"locked"}
        /\ lockLate' = FALSE /\ UNCHANGED <<families, posted, expired, check>>
        /\ Last(locked) = "none" /\ ~expired
    BY <1>2 DEF LockSwap, IsLocked
  <2>2. TrueLocked("locked", families.out, happened')
    BY <2>1 DEF TrueLocked
  <2>3. happened \subseteq happened' /\ happened' \subseteq Happening /\ "released" \notin happened'
    BY <1>1, <2>1 DEF Happening
  <2> QED BY <2>1, <2>2, <2>3, LockingKeeps
<1>3. CASE Unlock
  <2> DEFINE l == IF families.out = "ckb" THEN "unlocked" ELSE "none"
  <2>1. /\ locked' = Append(locked, l) /\ happened' = happened
        /\ UNCHANGED <<families, posted, expired, lockLate, check>> /\ Last(locked) = "locked"
    BY <1>3 DEF Unlock, IsLocked
  <2>2. TrueLocked(l, families.out, happened')
    BY <1>1, <2>1 DEF TrueLocked
  <2> HIDE DEF l
  <2>3. "released" \in happened' /\ ~expired => l = "released"
    BY <1>1, <2>1
  <2> QED BY <1>1, <2>1, <2>2, <2>3, LockingKeeps
<1>4. CASE ForgetItem
  <2>1. /\ locked' = Append(locked, "none") /\ happened' = happened /\ expired
        /\ UNCHANGED <<families, posted, expired, lockLate, check>>
    BY <1>4 DEF ForgetItem
  <2>2. TrueLocked("none", families.out, happened')
    BY DEF TrueLocked
  <2> QED BY <1>1, <2>1, <2>2, LockingKeeps
<1>5. CASE Release
  <2>1. /\ locked' = Append(locked, "released") /\ happened' = happened \cup {"released"}
        /\ UNCHANGED <<families, posted, expired, lockLate, check>> /\ Last(locked) = "locked"
    BY <1>5 DEF Release, IsLocked
  <2>2. TrueLocked("released", families.out, happened')
    BY <1>1, <2>1 DEF TrueLocked
  <2>3. happened \subseteq happened' /\ happened' \subseteq Happening
    BY <1>1, <2>1 DEF Happening
  <2> QED BY <1>1, <2>1, <2>2, <2>3, LockingKeeps
<1> QED BY <1>2, <1>3, <1>4, <1>5

\* The swap gets its chains, and time passes.
LEMMA WorldKeeps ==
  ASSUME ChainsInv,
         TimePasses \/ \E in \in InFamilies, out \in OutFamilies : Between(in, out)
  PROVE  /\ ChainsInv' /\ UNCHANGED <<check, happened>> /\ (~expired' => ~expired)
         /\ families' = families \/ families.in = "none"
<1>1. CASE TimePasses
  BY <1>1 DEF TimePasses, ChainsInv
<1>2. ASSUME NEW in \in InFamilies, NEW out \in OutFamilies, Between(in, out)
      PROVE  /\ ChainsInv' /\ UNCHANGED <<check, happened>> /\ (~expired' => ~expired)
             /\ families' = families \/ families.in = "none"
  <2>1. in \in Family /\ out \in Family
    BY StatusAssumption DEF Family
  <2>2. /\ families' = [in |-> in, out |-> out] /\ families.in = "none"
        /\ UNCHANGED <<posted, locked, expired, lockLate, happened, check>>
    BY <1>2 DEF Between
  <2>3. families' \in [in : Family \cup {"none"}, out : Family \cup {"none"}]
        /\ families'.in = in /\ families'.out = out /\ in # "none" /\ out # "none"
    BY <2>1, <2>2 DEF Family
  <2>4. \A n \in 1..Len(posted) : TruePosted(posted[n], in, happened)
    BY <2>2 DEF ChainsInv, TruePosted
  <2>5. \A n \in 1..Len(locked) : TrueLocked(locked[n], out, happened)
    BY <2>2 DEF ChainsInv, TrueLocked
  <2> QED BY <2>2, <2>3, <2>4, <2>5 DEF ChainsInv
<1> QED BY <1>1, <1>2

-----------------------------------------------------------------------------
\* Whatever a chain answers, the call tells a word.
LEMMA StatusIsAWord ==
  ASSUME NEW v, NEW initiator, NEW late
  PROVE  PostedStatus(v, initiator, late) \in PostedWords /\ LockedStatus(v, late) \in LockedWords
<1>1. PostedStatus(v, initiator, late) \in PostedWords
  <2>1. CASE ~Present(v.initiator)
    <3>1. CASE v.exist
      BY <2>1, <3>1 DEF PostedStatus, PostedWords
    <3>2. CASE ~v.exist
      BY <2>1, <3>2 DEF PostedStatus, PostedWords
    <3> QED BY <3>1, <3>2
  <2>2. CASE Present(v.initiator) /\ initiator \notin {"any", v.initiator}
    BY <2>2 DEF PostedStatus, PostedWords
  <2>3. CASE Present(v.initiator) /\ initiator \in {"any", v.initiator}
    <3>1. CASE Present(v.poolOwner) /\ late
      BY <2>3, <3>1 DEF PostedStatus, PostedWords
    <3>2. CASE Present(v.poolOwner) /\ ~late
      BY <2>3, <3>2 DEF PostedStatus, PostedWords
    <3>3. CASE ~Present(v.poolOwner) /\ late
      BY <2>3, <3>3 DEF PostedStatus, PostedWords
    <3>4. CASE ~Present(v.poolOwner) /\ ~late
      BY <2>3, <3>4 DEF PostedStatus, PostedWords
    <3> QED BY <3>1, <3>2, <3>3, <3>4
  <2> QED BY <2>1, <2>2, <2>3
<1>2. LockedStatus(v, late) \in LockedWords
  <2>1. CASE v.until /\ late
    BY <2>1 DEF LockedStatus, LockedWords
  <2>2. CASE v.until /\ ~late
    BY <2>2 DEF LockedStatus, LockedWords
  <2>3. CASE ~v.until /\ Present(v.poolOwner)
    BY <2>3 DEF LockedStatus, LockedWords
  <2>4. CASE ~v.until /\ ~Present(v.poolOwner)
    BY <2>4 DEF LockedStatus, LockedWords
  <2> QED BY <2>1, <2>2, <2>3, <2>4
<1> QED BY <1>1, <1>2

\* The call of checkSwapStatus starts and ends.
LEMMA StartEndKeep ==
  ASSUME StatusInv,
         EndCheck \/ \E initiator \in {"any", "initiator"} : StartCheck(initiator)
  PROVE  StatusInv'
<1>1. ChainsInv'
  BY DEF StatusInv, ChainsInv, EndCheck, StartCheck
<1>2. PICK i \in {"any", "initiator"} :
        \/ check' = NoCheck
        \/ /\ families.in # "none"
           /\ check' = [NoCheck EXCEPT !.at = "posted", !.initiator = i, !.since = happened]
  BY DEF EndCheck, StartCheck
<1>3. /\ check'.since \subseteq happened /\ check'.posted = "none" /\ check'.locked = "none"
      /\ check'.at \in {"idle", "posted"}
      /\ check'.at = "posted" => families.in # "none"
      /\ check' \in Checks
  <2>1. happened \in SUBSET Happening
    BY DEF StatusInv, ChainsInv
  <2>2. NoCheck \in Checks /\ NoCheck.since = {} /\ NoCheck.posted = "none"
        /\ NoCheck.locked = "none" /\ NoCheck.at = "idle"
    BY DEF NoCheck, Checks, PostedWords, LockedWords
  <2>3. CASE check' = NoCheck
    BY <2>2, <2>3
  <2>4. CASE /\ families.in # "none"
             /\ check' = [NoCheck EXCEPT !.at = "posted", !.initiator = i, !.since = happened]
    BY <2>1, <2>2, <2>4 DEF Checks
  <2> QED BY <1>2, <2>3, <2>4
<1>4. TruePostedStatus("none", happened) /\ TrueLockStatus("none", families.out, happened)
  BY DEF TruePostedStatus, Witness, TrueLockStatus
<1>5. UNCHANGED <<families, happened, expired>>
  BY DEF EndCheck, StartCheck
<1> QED BY <1>1, <1>3, <1>4, <1>5 DEF StatusInv, CheckInv

\* The first chain is read, from a node that may lag.
LEMMA ReadPostedKeeps ==
  ASSUME StatusInv, ReadPosted
  PROVE  StatusInv'
<1>1. ChainsInv' /\ UNCHANGED <<families, happened, expired>>
  BY DEF StatusInv, ChainsInv, ReadPosted
<1>2. PICK n \in 1..Len(posted), status \in PostedWords :
        /\ status = PostedStatus(PostedOn(families.in, posted[n]), check.initiator, expired)
        /\ check' = [check EXCEPT
             !.posted = status, !.fresh = n = Len(posted),
             !.at = IF status \in {"NoneOrAfterRunning", "Bonded", "Executed",
                                   "ErrorExpiredButBonded"} THEN "locked" ELSE "told"]
  BY StatusIsAWord, ZenonT(30) DEF ReadPosted, Seen
<1>3. /\ families.in \in Family /\ TruePosted(posted[n], families.in, happened)
      /\ check.initiator \in {"any", "initiator"} /\ expired \in BOOLEAN
      /\ check.locked = "none"
  <2>1. check.at = "posted"
    BY DEF ReadPosted
  <2>2. families.in # "none" /\ check \in Checks /\ check.locked = "none"
    BY <2>1 DEF StatusInv, CheckInv
  <2> QED BY <1>2, <2>2 DEF StatusInv, ChainsInv, Checks
<1>4. TruePostedStatus(status, happened)
  BY <1>2, <1>3, PostedStatusTrue
<1>6. /\ check'.posted = status /\ check'.since = check.since /\ check'.locked = check.locked
      /\ check'.at \in {"locked", "told"} /\ check'.initiator = check.initiator
      /\ check'.fresh \in BOOLEAN
      /\ check' \in Checks
  <2>1. (n = Len(posted)) \in BOOLEAN
    OBVIOUS
  <2> QED BY <1>2, <2>1 DEF StatusInv, CheckInv, Checks
<1>7. families'.in # "none" /\ check'.locked = "none" /\ check.since \subseteq happened
  BY <1>1, <1>3, <1>6 DEF Family, StatusInv, CheckInv
<1>8. TrueLockStatus("none", families'.out, happened')
  BY DEF TrueLockStatus
<1>9. CheckInv'
  BY <1>1, <1>4, <1>6, <1>7, <1>8 DEF CheckInv
<1> QED BY <1>1, <1>9 DEF StatusInv

\* The second chain is read, or that fails.
LEMMA ReadLockedKeeps ==
  ASSUME StatusInv, ReadLocked
  PROVE  StatusInv'
<1>1. ChainsInv' /\ UNCHANGED <<families, happened, expired>>
  BY DEF StatusInv, ChainsInv, ReadLocked
<1>2. CASE check' = [check EXCEPT !.at = "told"]
  <2>1. /\ check'.posted = check.posted /\ check'.since = check.since /\ check'.locked = "none"
        /\ check'.at = "told" /\ families.in # "none"
        /\ check' \in Checks
    BY <1>2 DEF StatusInv, CheckInv, ReadLocked, Checks
  <2> QED BY <1>1, <2>1 DEF StatusInv, CheckInv, TrueLockStatus
<1>3. ASSUME NEW n \in 1..Len(locked), NEW status,
             status = LockedStatus(LockedOn(families.out, locked[n]), lockLate),
             check' = [check EXCEPT !.locked = status, !.fresh = @ /\ n = Len(locked), !.at = "told"]
      PROVE  StatusInv'
  <2>1. /\ families.out \in Family /\ TrueLocked(locked[n], families.out, happened)
        /\ lockLate \in BOOLEAN /\ families.in # "none"
    BY DEF StatusInv, ChainsInv, CheckInv, ReadLocked
  <2>2. /\ TrueLockStatus(status, families.out, happened)
        /\ locked[n] = "released" => status = "Released"
    BY <1>3, <2>1, LockStatusTrue
  <2>3. status \in LockedWords
    BY <1>3, StatusIsAWord
  <2>4. /\ check'.posted = check.posted /\ check'.since = check.since
        /\ check'.locked = status /\ check'.at = "told"
        /\ check'.fresh => n = Len(locked)
        /\ check' \in Checks
    BY <1>3, <2>3 DEF StatusInv, CheckInv, Checks
  <2>5. check'.fresh /\ "released" \in check'.since /\ ~expired => status = "Released"
    BY <2>2, <2>4 DEF StatusInv, ChainsInv, CheckInv
  <2> QED BY <1>1, <2>1, <2>2, <2>4, <2>5 DEF StatusInv, CheckInv
<1> QED BY <1>2, <1>3 DEF ReadLocked, Seen

\* For any families of the two chains and nodes that lag by any number of steps,
\* a status that is told was true on its chain, and a swap that was released and
\* has not expired is not said to be locked, or not to be, by nodes that do not.
THEOREM StatusIsTrue == StatusSpec => []StatusTellsTheSwap
<1>1. StatusInit => StatusInv
  <2> SUFFICES ASSUME StatusInit PROVE StatusInv
    OBVIOUS
  <2>1. ChainsInv
    <3>1. NothingStored \in StoredType /\ TruePosted(NothingStored, "none", {})
          /\ TrueLocked("none", "none", {})
      BY DEF TruePosted, TrueLocked, NothingStored, Stored, StoredType
    <3> HIDE DEF NothingStored
    <3>2. /\ posted \in Seq(StoredType) /\ Len(posted) = 1 /\ posted[1] = NothingStored
          /\ locked \in Seq({"none", "locked", "released", "unlocked"})
          /\ Len(locked) = 1 /\ locked[1] = "none"
      BY <3>1 DEF StatusInit
    <3>3. /\ families \in [in : Family \cup {"none"}, out : Family \cup {"none"}]
          /\ families.in = "none" /\ families.out = "none" /\ happened = {}
          /\ expired = FALSE /\ lockLate = FALSE
      BY DEF StatusInit
    <3>4. \A n \in 1..1 : n = 1
      OBVIOUS
    <3>5. \A n \in 1..Len(posted) : TruePosted(posted[n], families.in, happened)
      BY <3>1, <3>2, <3>3, <3>4
    <3>6. \A n \in 1..Len(locked) : TrueLocked(locked[n], families.out, happened)
      BY <3>1, <3>2, <3>3, <3>4
    <3>7. families.in = "none" <=> families.out = "none"
      BY <3>3
    <3>8. /\ happened \subseteq Happening /\ expired \in BOOLEAN /\ lockLate \in BOOLEAN
          /\ Len(posted) > 0 /\ Len(locked) > 0
          /\ "released" \in happened /\ ~expired => locked[Len(locked)] = "released"
      <4>1. Len(posted) > 0 /\ Len(locked) > 0
        BY <3>2
      <4>2. happened \subseteq Happening /\ "released" \notin happened
        BY <3>3
      <4>3. expired \in BOOLEAN /\ lockLate \in BOOLEAN
        BY <3>3
      <4> QED BY <4>1, <4>2, <4>3
    <3>9. /\ families \in [in : Family \cup {"none"}, out : Family \cup {"none"}]
          /\ posted \in Seq(StoredType)
          /\ locked \in Seq({"none", "locked", "released", "unlocked"})
      BY <3>2, <3>3
    <3> QED BY <3>5, <3>6, <3>7, <3>8, <3>9, Zenon DEF ChainsInv
  <2>2. CheckInv
    <3>1. NoCheck \in Checks /\ NoCheck.since = {} /\ NoCheck.posted = "none"
          /\ NoCheck.locked = "none" /\ NoCheck.at = "idle"
      BY DEF NoCheck, Checks, PostedWords, LockedWords
    <3>2. TruePostedStatus("none", happened) /\ TrueLockStatus("none", families.out, happened)
      BY DEF TruePostedStatus, Witness, TrueLockStatus
    <3> QED BY <3>1, <3>2 DEF StatusInit, CheckInv
  <2> QED BY <2>1, <2>2 DEF StatusInv
<1>2. StatusInv /\ [StatusNext]_statusVars => StatusInv'
  <2> SUFFICES ASSUME StatusInv, [StatusNext]_statusVars PROVE StatusInv'
    OBVIOUS
  <2>1. CASE UNCHANGED statusVars
    BY <2>1 DEF statusVars, StatusInv, ChainsInv, CheckInv
  <2>2. ASSUME ChainsInv', check' = check, happened \subseteq happened',
               ~expired' => ~expired, families' = families \/ families.in = "none"
        PROVE  StatusInv'
    BY <2>2, CheckStays DEF StatusInv
  <2>3. ChainsInv
    BY DEF StatusInv
  <2> QED BY <2>1, <2>2, <2>3, WorldKeeps, FirstChainKeeps, SecondChainKeeps, StartEndKeep,
             ReadPostedKeeps, ReadLockedKeeps
      DEF StatusNext
<1>3. StatusInv => StatusTellsTheSwap
  BY DEF StatusInv, CheckInv, StatusTellsTheSwap, TruePostedStatus, TrueLockStatus, LockWitness
<1> QED BY <1>1, <1>2, <1>3, PTL DEF StatusSpec

-----------------------------------------------------------------------------
(* Locks on CKB are remembered. *)

CkbSpec == CkbInit /\ [][CkbNext]_ckbVars

\* The fields of a cell, and those of a call.
IsCell(cell) ==
  cell = [point |-> cell.point, lock |-> cell.lock, udt |-> cell.udt,
          capacity |-> cell.capacity, ref |-> cell.ref]
IsCall(task) ==
  task = [at |-> task.at, prop |-> task.prop, swap |-> task.swap, start |-> task.start,
          inputs |-> task.inputs, outputs |-> task.outputs, delta |-> task.delta, ref |-> task.ref]

\* At most one of the cells is a reference cell.
AtMostOneRef(cells) == \A old, new \in cells : IsRef(old) /\ IsRef(new) => old = new

\* Cells are numbered as they are made, and a reference cell has no tokens, is
\* no swap's and has a number of its own.
SoundCells(cells, n) ==
  /\ n \in Nat
  /\ \A cell \in cells :
       /\ cell.point \in Int /\ cell.point <= n
       /\ IsRef(cell) => cell.udt = 0 /\ cell.lock.swap = "none"
  /\ \A old, new \in cells : IsRef(old) /\ IsRef(new) /\ old.point = new.point => old = new

\* A lock leaves a reference cell behind, and what was locked is a past lock.
SoundLocks(cells, now, past) ==
  /\ now \in Int
  /\ \A s \in past : s \in Incoming /\ Expiry[s] <= now + MaxAhead
  /\ past # {} => \E cell \in cells : IsRef(cell)
  /\ \A cell \in cells : cell.lock.swap \in Incoming => cell.lock.swap \in past

\* What the only reference cell of the shard tells of the locks so far.
Remembers(cell, cells, now, past) ==
  /\ cell.ref.start \in Int /\ cell.ref.start <= now - 10
  /\ \A s \in past :
       /\ Expiry[s] - cell.ref.start <= 255
       /\ now - 10 <= Expiry[s] =>
            /\ Item(s, cell.ref.start) \in cell.ref.items
            /\ \A old, new \in cells : old.lock.swap = s /\ new.lock.swap = s => old = new
OneRemembers(cells, now, past) ==
  AtMostOneRef(cells) => \A cell \in cells : IsRef(cell) => Remembers(cell, cells, now, past)

\* What a call makes: at most one of the cells is locked for an incoming swap.
SoundOutputs(outputs) ==
  \A cell \in outputs : IsCell(cell) /\ cell.point \in 1..4

\* A call that locks: the reference cell that it spends is the one that it
\* found, and the one that it makes tells what that one told.
Locking(task, cells, now, n, past) ==
  /\ task.at \in {"ref", "cells", "send"}
  /\ task.swap \in Incoming /\ Expiry[task.swap] <= now + MaxAhead
  /\ task.start \in Int /\ task.start <= now - 10
  /\ task.at = "ref" => /\ now - 10 <= task.start + MaxQuery
                        /\ task.inputs = {} /\ task.outputs = {} /\ task.ref = {}
  /\ task.at # "ref" =>
       /\ Fits(Item(task.swap, task.start)) /\ ~Duplicated(task.ref, task.swap, task.start)
       /\ BuildRefCell(task.ref, task.swap, task.start) \in task.outputs
       /\ \A cell \in task.outputs :
            IsRef(cell) => cell = BuildRefCell(task.ref, task.swap, task.start)
       /\ \A cell \in task.ref : IsRef(cell) /\ cell.point \in Int /\ cell.point <= n
       /\ \A old, new \in task.ref : old = new
       /\ AtMostOneRef(cells) /\ task.ref \cap cells # {} =>
            \A s \in past : Expiry[s] - task.start <= 255
  /\ \A cell \in task.inputs : IsRef(cell) => cell \in task.ref
  /\ task.at = "cells" => /\ task.inputs = {}
                          /\ \A cell \in task.outputs : cell.lock.swap \notin Incoming
  /\ task.at = "send" => /\ task.ref \subseteq task.inputs
                         /\ \A cell \in task.outputs :
                              cell.lock.swap \in Incoming => cell = Target(task)

\* Any other call leaves the reference cells and the incoming swaps' cells alone.
Bystanding(task) ==
  /\ task.at \in {"idle", "cells", "send"}
  /\ task.ref = {}
  /\ \A cell \in task.inputs : ~IsRef(cell)
  /\ \A cell \in task.outputs : ~IsRef(cell) /\ cell.lock.swap \notin Incoming
  /\ task.at = "cells" =>
       /\ task.inputs = {} /\ task.outputs = {}
       /\ \/ task.prop = "transfer"
          \/ task.prop = "postSwapFromInitiator" /\ task.swap \in Outgoing

SoundCall(task, cells, now, n, past) ==
  /\ IsCall(task) /\ SoundOutputs(task.outputs)
  /\ \/ task.prop = "lockSwap" /\ Locking(task, cells, now, n, past)
     \/ task.prop # "lockSwap" /\ Bystanding(task)

ChainSound(cells, now, n, past) ==
  /\ SoundCells(cells, n) /\ SoundLocks(cells, now, past) /\ OneRemembers(cells, now, past)

CkbInv ==
  /\ ChainSound(live, period, point, wasLocked)
  /\ DOMAIN calls = Callers
  /\ \A c \in Callers : SoundCall(calls[c], live, period, point, wasLocked)

-----------------------------------------------------------------------------
\* The fields of a cell that is about to be made.
LEMMA CellFields ==
  ASSUME NEW n, NEW lock, NEW udt, NEW capacity
  PROVE  /\ IsCell(Cell(n, lock, udt, capacity)) /\ ~IsRef(Cell(n, lock, udt, capacity))
         /\ Cell(n, lock, udt, capacity).point = n /\ Cell(n, lock, udt, capacity).lock = lock
         /\ Cell(n, lock, udt, capacity).udt = udt
BY DEF IsCell, IsRef, Cell

\* The locks of owners are no swap's, and those of swaps are theirs.
LEMMA LockFields ==
  ASSUME NEW owner, NEW s, NEW receive, NEW refund
  PROVE  /\ Own(owner).swap = "none" /\ Own(owner).swap \notin Incoming \cup Outgoing
         /\ Siglock(s, receive, refund).swap = s
BY CkbAssumption DEF Own, Siglock

\* The reference cell that a lock makes.
LEMMA RefCellFields ==
  ASSUME NEW found, NEW s, NEW start
  PROVE  LET new == BuildRefCell(found, s, start)
         IN  /\ IsCell(new) /\ IsRef(new) /\ new.point = 4 /\ new.udt = 0
             /\ new.lock = Own("lp") /\ new.ref.start = start
             /\ new.ref.items =
                  (UNION {UpdateRefCell(cell.ref, start) : cell \in found}) \cup {Item(s, start)}
<1> DEFINE kept == (UNION {UpdateRefCell(cell.ref, start) : cell \in found})
           items == kept \cup {Item(s, start)}
           ref == [start |-> start, items |-> items]
           base == Cell(4, Own("lp"), 0, RefCapacity(ref))
<1> HIDE DEF kept
<1>1. Item(s, start) \in items
  OBVIOUS
<1>2. BuildRefCell(found, s, start) = [base EXCEPT !.ref = ref]
  BY DEF BuildRefCell, RefCell, kept
<1>3. ref.start = start /\ ref.items = items
  OBVIOUS
<1> HIDE DEF items
<1>4. ref # NoRef
  BY <1>1, <1>3 DEF NoRef
<1> HIDE DEF ref
<1>5. base = [point |-> 4, lock |-> Own("lp"), udt |-> 0, capacity |-> RefCapacity(ref), ref |-> NoRef]
  BY DEF Cell
<1> HIDE DEF base
<1>6. [base EXCEPT !.ref = ref] =
        [point |-> 4, lock |-> Own("lp"), udt |-> 0, capacity |-> RefCapacity(ref), ref |-> ref]
  BY <1>5
<1> QED BY <1>2, <1>3, <1>4, <1>6 DEF IsCell, IsRef, items, kept

\* What is made gets its number, and keeps the rest.
LEMMA MadeFields ==
  ASSUME NEW outputs, SoundOutputs(outputs), point \in Nat, NEW cell \in Made(outputs)
  PROVE  \E old \in outputs : /\ cell = Numbered(old)
                              /\ cell.point = point + old.point /\ cell.lock = old.lock
                              /\ cell.udt = old.udt /\ cell.ref = old.ref
                              /\ cell.point \in Int /\ point < cell.point /\ cell.point <= point + 4
<1>1. PICK old \in outputs : cell = Numbered(old)
  BY DEF Made
<1>2. IsCell(old) /\ old.point \in 1..4
  BY DEF SoundOutputs
<1>3. /\ cell.point = point + old.point /\ cell.lock = old.lock
      /\ cell.udt = old.udt /\ cell.ref = old.ref
  BY <1>1, <1>2 DEF IsCell, Numbered
<1> QED BY <1>1, <1>2, <1>3


\* A transaction that leaves the reference cells and the incoming swaps alone
\* leaves the chain sound, and the reference cells as they were.
LEMMA NeutralSpend ==
  ASSUME CkbInv, NEW inputs, NEW outputs, Spend(inputs, outputs), SoundOutputs(outputs),
         \A cell \in inputs : ~IsRef(cell),
         \A cell \in outputs : ~IsRef(cell) /\ cell.lock.swap \notin Incoming
  PROVE  /\ ChainSound(live', period, point', wasLocked)
         /\ point' \in Nat /\ point <= point'
         /\ \A cell : IsRef(cell) => (cell \in live <=> cell \in live')
<1>1. SoundCells(live, point) /\ SoundLocks(live, period, wasLocked)
      /\ OneRemembers(live, period, wasLocked) /\ point \in Nat
  BY DEF CkbInv, ChainSound, SoundCells
<1>2. live' = (live \ inputs) \cup Made(outputs) /\ point' = point + 4
  BY DEF Spend
<1>3. \A cell \in Made(outputs) : /\ ~IsRef(cell) /\ cell.lock.swap \notin Incoming
                                  /\ cell.point \in Int /\ cell.point <= point'
  <2> SUFFICES ASSUME NEW cell \in Made(outputs)
               PROVE  /\ ~IsRef(cell) /\ cell.lock.swap \notin Incoming
                      /\ cell.point \in Int /\ cell.point <= point'
    OBVIOUS
  <2>1. PICK old \in outputs : /\ cell.lock = old.lock /\ cell.ref = old.ref
                               /\ cell.point \in Int /\ cell.point <= point + 4
    BY <1>1, MadeFields
  <2> QED BY <1>2, <2>1 DEF IsRef
<1>4. \A cell : IsRef(cell) => (cell \in live <=> cell \in live')
  BY <1>2, <1>3
<1>5. SoundCells(live', point')
  BY <1>1, <1>2, <1>3, <1>4 DEF SoundCells
<1>6. SoundLocks(live', period, wasLocked)
  BY <1>1, <1>2, <1>3, <1>4 DEF SoundLocks
<1>7. OneRemembers(live', period, wasLocked)
  <2> SUFFICES ASSUME AtMostOneRef(live'), NEW cell \in live', IsRef(cell)
               PROVE  Remembers(cell, live', period, wasLocked)
    BY DEF OneRemembers
  <2>1. cell \in live /\ AtMostOneRef(live)
    BY <1>4 DEF AtMostOneRef
  <2>2. Remembers(cell, live, period, wasLocked)
    BY <1>1, <2>1 DEF OneRemembers
  <2>3. \A s \in wasLocked : \A x \in live' : x.lock.swap = s => x \in live
    BY <1>1, <1>2, <1>3 DEF SoundLocks
  <2> QED BY <2>2, <2>3 DEF Remembers
<1> QED BY <1>1, <1>2, <1>4, <1>5, <1>6, <1>7 DEF ChainSound

\* A call stays sound as long as the reference cells and the locks do, and the
\* cells it starts from are older than those that are made.
LEMMA CallStays ==
  ASSUME NEW task, NEW cells, NEW new, NEW now, NEW later, NEW n, NEW m, NEW past,
         SoundCall(task, cells, now, n, past),
         now \in Int, later \in Int, now <= later, n \in Nat, m \in Nat, n <= m,
         \A s \in Incoming : Expiry[s] \in Int, MaxAhead \in Nat,
         task.at = "ref" => later = now \/ later - 10 <= task.start + MaxQuery,
         \A cell : IsRef(cell) => (cell \in cells <=> cell \in new)
  PROVE  SoundCall(task, new, later, m, past)
<1>1. CASE task.prop = "lockSwap" /\ Locking(task, cells, now, n, past)
  <2>1. AtMostOneRef(new) => AtMostOneRef(cells)
    BY DEF AtMostOneRef
  <2>2. task.at # "ref" => (task.ref \cap new # {} => task.ref \cap cells # {})
    BY <1>1 DEF Locking
  <2>3. /\ Expiry[task.swap] <= later + MaxAhead /\ task.start <= later - 10
        /\ task.at = "ref" => later - 10 <= task.start + MaxQuery
    BY <1>1 DEF Locking
  <2>4. task.at # "ref" => \A cell \in task.ref : cell.point <= m
    BY <1>1 DEF Locking
  <2> QED BY <1>1, <2>1, <2>2, <2>3, <2>4 DEF SoundCall, Locking
<1>2. CASE task.prop # "lockSwap" /\ Bystanding(task)
  BY <1>2 DEF SoundCall
<1> QED BY <1>1, <1>2 DEF SoundCall

\* The constants: every expiry is a number, and so are the bounds.
LEMMA CkbNumbers ==
  /\ \A s \in Incoming \cup Outgoing : Expiry[s] \in Nat
  /\ MaxAhead \in Nat /\ MaxQuery \in Nat /\ 10 + MaxAhead + MaxQuery <= 255
  /\ "none" \notin Incoming \cup Outgoing /\ Incoming \cap Outgoing = {}
BY CkbAssumption

\* An item that is not over yet is moved to the new start.
LEMMA ItemMoves ==
  ASSUME NEW ref, NEW s \in Incoming, NEW start \in Int, ref.start \in Int,
         Item(s, ref.start) \in ref.items, Expiry[s] - start >= 0
  PROVE  Item(s, start) \in UpdateRefCell(ref, start)
<1> DEFINE old == Item(s, ref.start)
           new == [old EXCEPT !.dt = @ - (start - ref.start)]
<1>1. old = [dt |-> Expiry[s] - ref.start, byte |-> ItemByte[s]]
  BY DEF Item
<1>2. new = [dt |-> (Expiry[s] - ref.start) - (start - ref.start), byte |-> ItemByte[s]]
  BY <1>1
<1>3. (Expiry[s] - ref.start) - (start - ref.start) = Expiry[s] - start
  BY CkbNumbers
<1>4. new = Item(s, start) /\ new.dt >= 0
  BY <1>2, <1>3 DEF Item
<1> QED BY <1>4 DEF UpdateRefCell


\* What a lock makes: the swap's cell, and the reference cell in the place of
\* the one that it found.
LEMMA LockMakes ==
  ASSUME CkbInv, NEW task, task.prop = "lockSwap", task.at = "send",
         SoundCall(task, live, period, point, wasLocked), Spend(task.inputs, task.outputs),
         NEW made, made = Numbered(BuildRefCell(task.ref, task.swap, task.start))
  PROVE  /\ made \in live' /\ IsRef(made) /\ made.point = point + 4 /\ point \in Nat
         /\ made.ref.start = task.start
         /\ made.ref.items = (UNION {UpdateRefCell(cell.ref, task.start) : cell \in task.ref})
                               \cup {Item(task.swap, task.start)}
         /\ \A cell \in Made(task.outputs) :
              /\ cell.point \in Int /\ cell.point <= point + 4
              /\ IsRef(cell) => cell = made /\ cell.udt = 0 /\ cell.lock.swap = "none"
              /\ cell.lock.swap \in Incoming =>
                   cell.lock.swap = task.swap /\ cell = Numbered(Target(task))
<1> DEFINE base == BuildRefCell(task.ref, task.swap, task.start)
<1>1. Locking(task, live, period, point, wasLocked) /\ SoundOutputs(task.outputs) /\ point \in Nat
  BY DEF SoundCall, CkbInv, ChainSound, SoundCells
<1>2. /\ IsCell(base) /\ IsRef(base) /\ base.point = 4 /\ base.udt = 0 /\ base.lock = Own("lp")
      /\ base.ref.start = task.start
      /\ base.ref.items = (UNION {UpdateRefCell(cell.ref, task.start) : cell \in task.ref})
                            \cup {Item(task.swap, task.start)}
      /\ base \in task.outputs
      /\ \A cell \in task.outputs : IsRef(cell) => cell = base
  <2>1. base \in task.outputs /\ \A cell \in task.outputs : IsRef(cell) => cell = base
    BY <1>1 DEF Locking
  <2> HIDE DEF base
  <2>2. base = BuildRefCell(task.ref, task.swap, task.start)
    BY DEF base
  <2> QED BY <2>1, <2>2, RefCellFields
<1>3. made = Numbered(base)
  OBVIOUS
<1> HIDE DEF base
<1>4. made.point = point + 4 /\ made.ref = base.ref
  BY <1>1, <1>2, <1>3 DEF IsCell, Numbered
<1>5. made \in Made(task.outputs)
  BY <1>2, <1>3 DEF Made
<1>6. ASSUME NEW cell \in Made(task.outputs)
      PROVE  /\ cell.point \in Int /\ cell.point <= point + 4
             /\ IsRef(cell) => cell = made /\ cell.udt = 0 /\ cell.lock.swap = "none"
             /\ cell.lock.swap \in Incoming =>
                  cell.lock.swap = task.swap /\ cell = Numbered(Target(task))
  <2>1. PICK old \in task.outputs :
          /\ cell = Numbered(old) /\ cell.lock = old.lock
          /\ cell.udt = old.udt /\ cell.ref = old.ref
          /\ cell.point \in Int /\ cell.point <= point + 4
    BY <1>1, MadeFields
  <2>2. IsRef(cell) => cell = made /\ cell.udt = 0 /\ cell.lock.swap = "none"
    BY <1>2, <1>3, <2>1, LockFields DEF IsRef
  <2>3. Target(task).lock.swap = task.swap
    BY LockFields, CellFields DEF Target
  <2>4. cell.lock.swap \in Incoming => old = Target(task)
    BY <1>1, <2>1 DEF Locking
  <2> QED BY <2>1, <2>2, <2>3, <2>4
<1> QED BY <1>1, <1>2, <1>4, <1>5, <1>6 DEF IsRef, Spend

\* A lock that is accepted keeps the promises: when its reference cell is the
\* only one, it took the place of the one before, and remembers what that one did.
LEMMA LockSpend ==
  ASSUME CkbInv, NEW task, task.prop = "lockSwap", task.at = "send",
         SoundCall(task, live, period, point, wasLocked),
         task.inputs \subseteq live, Spend(task.inputs, task.outputs)
  PROVE  /\ ChainSound(live', period, point', wasLocked \cup {task.swap})
         /\ \A x : SoundCall(x, live, period, point, wasLocked) =>
                     SoundCall(x, live', period, point', wasLocked \cup {task.swap})
<1>0. PICK made : made = Numbered(BuildRefCell(task.ref, task.swap, task.start))
  OBVIOUS
<1> DEFINE Kept(r) == UpdateRefCell(r.ref, task.start)
           past == wasLocked \cup {task.swap}
<1>1. /\ made \in live' /\ IsRef(made) /\ made.point = point + 4 /\ point \in Nat
      /\ made.ref.start = task.start
      /\ \A r \in task.ref : Kept(r) \subseteq made.ref.items
      /\ Item(task.swap, task.start) \in made.ref.items
  <2>1. made.ref.items = (UNION {Kept(r) : r \in task.ref}) \cup {Item(task.swap, task.start)}
    BY <1>0, LockMakes
  <2>2. made \in live' /\ IsRef(made) /\ made.point = point + 4 /\ point \in Nat
        /\ made.ref.start = task.start
    BY <1>0, LockMakes
  <2> HIDE DEF Kept
  <2> QED BY <2>1, <2>2
<1>2. \A cell \in Made(task.outputs) :
        /\ cell.point \in Int /\ cell.point <= point + 4
        /\ IsRef(cell) => cell = made /\ cell.udt = 0 /\ cell.lock.swap = "none"
        /\ cell.lock.swap \in Incoming =>
             cell.lock.swap = task.swap /\ cell = Numbered(Target(task))
  BY <1>0, LockMakes
<1>3. /\ Locking(task, live, period, point, wasLocked)
      /\ SoundCells(live, point) /\ SoundLocks(live, period, wasLocked)
      /\ OneRemembers(live, period, wasLocked)
  BY DEF SoundCall, CkbInv, ChainSound
<1>4. live' = (live \ task.inputs) \cup Made(task.outputs) /\ point' = point + 4
  BY DEF Spend
<1>5. \A r \in task.ref : Kept(r) = UpdateRefCell(r.ref, task.start)
  OBVIOUS
<1> HIDE DEF Kept
<1>6. SoundCells(live', point')
  BY <1>1, <1>2, <1>3, <1>4 DEF SoundCells
<1>7. SoundLocks(live', period, past)
  <2>1. \A s \in past : s \in Incoming /\ Expiry[s] <= period + MaxAhead
    BY <1>3 DEF SoundLocks, Locking
  <2>2. \A cell \in live' : cell.lock.swap \in Incoming => cell.lock.swap \in past
    BY <1>2, <1>3, <1>4 DEF SoundLocks
  <2> QED BY <1>1, <1>3, <2>1, <2>2 DEF SoundLocks
\* the only reference cell is the one just made, and the one before was spent
<1>8. ASSUME AtMostOneRef(live')
      PROVE  /\ \A r \in live' : IsRef(r) => r = made
             /\ \A r \in live : IsRef(r) => r \in task.ref
             /\ AtMostOneRef(live)
  <2>1. \A r \in live' : IsRef(r) => r = made
    BY <1>1, <1>8 DEF AtMostOneRef
  <2>2. \A r \in live : r # made
    BY <1>1, <1>3 DEF SoundCells
  <2>3. \A r \in live : IsRef(r) => r \in task.ref
    BY <1>3, <1>4, <2>1, <2>2 DEF Locking
  <2>4. \A old, new \in task.ref : old = new
    BY <1>3 DEF Locking
  <2> QED BY <2>1, <2>3, <2>4 DEF AtMostOneRef
<1>9. OneRemembers(live', period, past)
  <2> SUFFICES ASSUME AtMostOneRef(live') PROVE Remembers(made, live', period, past)
    BY <1>8 DEF OneRemembers
  <2>1. task.start \in Int /\ task.start <= period - 10
    BY <1>3 DEF Locking
  <2>2. period \in Int /\ \A s \in past : s \in Incoming /\ Expiry[s] \in Int
    BY <1>7, CkbNumbers DEF SoundLocks
  \* the reference cell before, when there was a lock
  <2>3. ASSUME NEW s \in wasLocked
        PROVE  /\ Expiry[s] - task.start <= 255
               /\ period - 10 <= Expiry[s] =>
                    /\ \E r \in task.ref : Item(s, task.start) \in Kept(r)
                    /\ \A old, new \in live : old.lock.swap = s /\ new.lock.swap = s => old = new
    <3>1. PICK r \in live : IsRef(r)
      BY <1>3 DEF SoundLocks
    <3>2. r \in task.ref /\ Remembers(r, live, period, wasLocked)
      BY <1>3, <1>8, <3>1 DEF OneRemembers
    <3>3. Expiry[s] - task.start <= 255
      BY <1>3, <1>8, <3>1, <3>2 DEF Locking
    <3>4. ASSUME period - 10 <= Expiry[s]
          PROVE  Item(s, task.start) \in Kept(r)
      <4>1. Item(s, r.ref.start) \in r.ref.items /\ r.ref.start \in Int
        BY <3>2, <3>4 DEF Remembers
      <4>2. Expiry[s] - task.start >= 0 /\ s \in Incoming
        BY <2>1, <2>2, <3>4
      <4> QED BY <1>5, <2>1, <3>2, <4>1, <4>2, ItemMoves
    <3> QED BY <3>2, <3>3, <3>4 DEF Remembers
  <2>4. ASSUME NEW s \in wasLocked, s # task.swap
        PROVE  /\ Expiry[s] - task.start <= 255
               /\ period - 10 <= Expiry[s] =>
                    /\ Item(s, task.start) \in made.ref.items
                    /\ \A old, new \in live' : old.lock.swap = s /\ new.lock.swap = s => old = new
    <3>1. \A cell \in live' : cell.lock.swap = s => cell \in live
      BY <1>2, <1>4, <2>2, <2>4
    <3> QED BY <1>1, <2>3, <3>1
  <2>5. /\ Expiry[task.swap] - task.start <= 255
        /\ period - 10 <= Expiry[task.swap] =>
             \A old, new \in live' : old.lock.swap = task.swap /\ new.lock.swap = task.swap => old = new
    <3>1. Expiry[task.swap] - task.start <= 255
      BY <1>3, <2>1, <2>2 DEF Locking, Fits, Item
    <3>2. ASSUME period - 10 <= Expiry[task.swap] PROVE task.swap \notin wasLocked
      <4>1. ~Duplicated(task.ref, task.swap, task.start)
        BY <1>3 DEF Locking
      <4> QED BY <1>5, <2>3, <3>2, <4>1 DEF Duplicated
    <3>3. task.swap \notin wasLocked => \A cell \in live : cell.lock.swap # task.swap
      BY <1>3, <2>2 DEF SoundLocks
    <3> QED BY <1>2, <1>4, <2>2, <3>1, <3>2, <3>3
  <2> QED BY <1>1, <2>1, <2>4, <2>5 DEF Remembers
<1>10. ASSUME NEW x, SoundCall(x, live, period, point, wasLocked)
       PROVE  SoundCall(x, live', period, point', past)
  <2>1. CASE x.prop = "lockSwap" /\ Locking(x, live, period, point, wasLocked)
    <3>1. \A cell \in x.ref : x.at # "ref" => IsRef(cell) /\ cell.point \in Int /\ cell.point <= point
      BY <2>1 DEF Locking
    <3>2. x.at # "ref" => (AtMostOneRef(live') => x.ref \cap live' = {})
      <4> SUFFICES ASSUME x.at # "ref", AtMostOneRef(live'), NEW r \in x.ref, r \in live' PROVE FALSE
        OBVIOUS
      <4> QED BY <1>1, <1>8, <3>1
    <3>3. x.at # "ref" => \A cell \in x.ref : cell.point <= point'
      BY <1>1, <1>4, <3>1
    <3> QED BY <1>10, <2>1, <3>2, <3>3 DEF SoundCall, Locking
  <2>2. CASE x.prop # "lockSwap" /\ Bystanding(x)
    BY <1>10, <2>2 DEF SoundCall
  <2> QED BY <1>10, <2>1, <2>2 DEF SoundCall
<1> QED BY <1>6, <1>7, <1>9, <1>10 DEF ChainSound


\* A step of one call leaves the others as they are.
LEMMA OneSteps ==
  ASSUME DOMAIN calls = Callers, NEW c \in Callers, NEW task, Step(c, task)
  PROVE  /\ DOMAIN calls' = Callers /\ calls'[c] = task
         /\ \A d \in Callers : d # c => calls'[d] = calls[d]
BY DEF Step

\* The invariant survives a call that only asks, if it stays sound itself.
LEMMA AskKeeps ==
  ASSUME CkbInv, NEW c \in Callers, NEW task, Step(c, task), Asks,
         SoundCall(task, live, period, point, wasLocked)
  PROVE  CkbInv'
<1>1. /\ DOMAIN calls' = Callers /\ calls'[c] = task
      /\ \A d \in Callers : d # c => calls'[d] = calls[d]
  BY OneSteps DEF CkbInv
<1>2. live' = live /\ period' = period /\ point' = point /\ wasLocked' = wasLocked
  BY DEF Asks
<1>3. \A d \in Callers : SoundCall(calls'[d], live', period', point', wasLocked')
  BY <1>1, <1>2 DEF CkbInv
<1> QED BY <1>1, <1>2, <1>3 DEF CkbInv

\* The fields of a call that starts.
LEMMA CallFields ==
  ASSUME NEW at, NEW prop, NEW s, NEW start, NEW inputs, NEW outputs
  PROVE  LET task == Call(at, prop, s, start, inputs, outputs)
         IN  /\ IsCall(task) /\ task.at = at /\ task.prop = prop /\ task.swap = s
             /\ task.start = start /\ task.inputs = inputs /\ task.outputs = outputs
             /\ task.ref = {}
BY DEF Call, IsCall

\* No call is sound, whatever the chain.
LEMMA NoCallSound ==
  ASSUME NEW cells, NEW now, NEW n, NEW past
  PROVE  SoundCall(NoCall, cells, now, n, past)
<1>1. /\ IsCall(NoCall) /\ NoCall.at = "idle" /\ NoCall.prop = "none" /\ NoCall.inputs = {}
      /\ NoCall.outputs = {} /\ NoCall.ref = {}
  BY CallFields DEF NoCall
<1> QED BY <1>1 DEF SoundCall, SoundOutputs, Bystanding

\* The invariant survives the start of a call.
LEMMA StartKeepsCkb ==
  ASSUME CkbInv, NEW c \in Callers, NEW prop, NEW s, StartCkbCall(c, prop, s),
         \/ prop = "lockSwap" /\ s \in Incoming
         \/ prop = "postSwapFromInitiator" /\ s \in Outgoing
         \/ prop = "transfer"
  PROVE  CkbInv'
<1> DEFINE at == IF prop = "lockSwap" THEN "ref" ELSE "cells"
           task == Call(at, prop, s, StartOf(period), {}, {})
<1>1. Step(c, task) /\ Asks /\ (prop = "lockSwap" => Expiry[s] <= period + MaxAhead)
  BY DEF StartCkbCall
<1>2. /\ IsCall(task) /\ task.prop = prop /\ task.swap = s /\ task.start = StartOf(period)
      /\ task.inputs = {} /\ task.outputs = {} /\ task.ref = {}
      /\ task.at = at
  BY CallFields
<1>6. (prop = "lockSwap" => at = "ref") /\ (prop # "lockSwap" => at = "cells")
  OBVIOUS
<1> HIDE DEF task, at
<1>3. period \in Int
  BY DEF CkbInv, ChainSound, SoundLocks
<1>4. CASE prop = "lockSwap" /\ s \in Incoming
  <2>1. Locking(task, live, period, point, wasLocked)
    BY <1>1, <1>2, <1>3, <1>4, <1>6, CkbNumbers DEF Locking, StartOf
  <2>2. SoundCall(task, live, period, point, wasLocked)
    BY <1>2, <1>4, <2>1 DEF SoundCall, SoundOutputs
  <2> QED BY <1>1, <2>2, AskKeeps
<1>5. CASE prop # "lockSwap"
  <2>1. Bystanding(task)
    BY <1>2, <1>5, <1>6 DEF Bystanding
  <2>2. SoundCall(task, live, period, point, wasLocked)
    BY <1>2, <1>5, <2>1 DEF SoundCall, SoundOutputs
  <2> QED BY <1>1, <2>2, AskKeeps
<1> QED BY <1>4, <1>5

\* The invariant survives the search for the reference cell: what it finds is
\* as new as any, and its items still fit when they are counted from the start.
LEMMA BuildKeepsCkb ==
  ASSUME CkbInv, NEW c \in Callers, BuildRefCells(c)
  PROVE  CkbInv'
<1> DEFINE task == calls[c]
           new == BuildRefCell(FindRefCell, task.swap, task.start)
           delta == new.capacity - CellTotal(FindRefCell, "capacity")
           next == [Call("cells", "lockSwap", task.swap, task.start, {}, {new}) EXCEPT
                      !.ref = FindRefCell, !.delta = delta]
<1>1. /\ IsCall(task) /\ task.at = "ref" /\ task.prop = "lockSwap"
      /\ Locking(task, live, period, point, wasLocked)
      /\ SoundCells(live, point) /\ SoundLocks(live, period, wasLocked)
  BY DEF CkbInv, ChainSound, SoundCall, BuildRefCells, At, Bystanding
<1>2. CASE Step(c, NoCall) /\ Asks
  BY <1>2, NoCallSound, AskKeeps
<1>3. CASE /\ Fits(Item(task.swap, task.start)) /\ ~Duplicated(FindRefCell, task.swap, task.start)
           /\ Step(c, next) /\ Asks
  <2>1. /\ IsCell(new) /\ IsRef(new) /\ new.point = 4 /\ new.lock = Own("lp")
    BY RefCellFields
  <2> HIDE DEF new, task, delta
  <2>2. /\ IsCall(next) /\ next.at = "cells" /\ next.prop = task.prop /\ next.swap = task.swap
        /\ next.start = task.start /\ next.inputs = {} /\ next.outputs = {new}
        /\ next.ref = FindRefCell
    <3> DEFINE base == Call("cells", "lockSwap", task.swap, task.start, {}, {new})
    <3>1. /\ IsCall(base) /\ base.at = "cells" /\ base.prop = task.prop /\ base.swap = task.swap
          /\ base.start = task.start /\ base.inputs = {} /\ base.outputs = {new}
      BY <1>1, CallFields
    <3> HIDE DEF base
    <3>2. next = [base EXCEPT !.ref = FindRefCell, !.delta = delta]
      BY DEF base
    <3> HIDE DEF next
    <3> QED BY <3>1, <3>2 DEF IsCall
  <2> HIDE DEF next
  <2>3. /\ \A cell \in FindRefCell : IsRef(cell) /\ cell.point \in Int /\ cell.point <= point
        /\ \A old, young \in FindRefCell : old = young
    <3>1. \A cell \in FindRefCell :
            cell \in live /\ IsRef(cell) /\ \A other \in live : IsRef(other) => other.point <= cell.point
      BY DEF FindRefCell, Newest, RefCells
    <3> QED BY <1>1, <3>1 DEF SoundCells
  <2>4. \A s \in wasLocked : Expiry[s] - task.start <= 255
    <3>1. period \in Int /\ task.start \in Int /\ period - 10 <= task.start + MaxQuery
          /\ \A s \in wasLocked : Expiry[s] \in Int /\ Expiry[s] <= period + MaxAhead
      BY <1>1, CkbNumbers DEF SoundLocks, Locking
    <3> QED BY <3>1, CkbNumbers
  <2>5. new.lock.swap \notin Incoming
    BY <2>1, LockFields
  <2>6. Locking(next, live, period, point, wasLocked)
    <3>1. new = BuildRefCell(next.ref, next.swap, next.start)
      BY <2>2 DEF new
    <3>2. /\ next.swap \in Incoming /\ Expiry[next.swap] <= period + MaxAhead
          /\ next.start \in Int /\ next.start <= period - 10 /\ next.inputs = {}
      BY <1>1, <2>2 DEF Locking
    <3> QED BY <1>3, <2>2, <2>3, <2>4, <2>5, <3>1, <3>2 DEF Locking
  <2>7. SoundCall(next, live, period, point, wasLocked)
    BY <1>1, <2>1, <2>2, <2>6 DEF SoundCall, SoundOutputs
  <2> QED BY <1>3, <2>7, AskKeeps
<1> QED BY <1>2, <1>3, Zenon DEF BuildRefCells, ThrowsOff

\* What is collected is among the cells it is collected from.
LEMMA CollectedAmong ==
  ASSUME NEW cells, NEW amount, NEW field, NEW some \in Collect(cells, amount, field)
  PROVE  some \subseteq cells
BY DEF Collect, Enough

\* The fields of a transaction.
LEMMA TransactionFields ==
  ASSUME NEW task, IsCall(task), NEW udt, NEW paying
  PROVE  LET next == Transaction(Holding(task, udt), paying)
         IN  /\ IsCall(next) /\ next.at = "send" /\ next.prop = task.prop /\ next.swap = task.swap
             /\ next.start = task.start /\ next.ref = task.ref
             /\ next.inputs = udt \cup paying \cup task.ref
             /\ Target(next) = Target(task)
             /\ \E left, capacity :
                  next.outputs \subseteq
                    {Target(task), Cell(2, Own(Signer(task)), left, CapacityXudt),
                     Cell(3, Own(Signer(task)), 0, capacity)} \cup task.outputs
             /\ task.outputs \subseteq next.outputs
<1> DEFINE with == Holding(task, udt)
<1>1. /\ IsCall(with) /\ with.prop = task.prop /\ with.swap = task.swap /\ with.start = task.start
      /\ with.ref = task.ref /\ with.inputs = udt /\ with.outputs = task.outputs
  BY DEF IsCall, Holding
<1> HIDE DEF with
<1>2. \A x : x.prop = task.prop /\ x.swap = task.swap =>
               Target(x) = Target(task) /\ Signer(x) = Signer(task)
  BY DEF Target, Signer
<1> DEFINE capacity == CellTotal(with.inputs \cup paying, "capacity") - Required(with)
           change == Cell(3, Own(Signer(with)), 0, capacity)
           outputs == UdtOutputs(with) \cup {change}
           next == Transaction(with, paying)
<1>3. next = [with EXCEPT !.at = "send", !.inputs = with.inputs \cup paying \cup with.ref,
                          !.outputs = outputs \cup @]
  BY DEF Transaction
<1>4. outputs \subseteq {Target(task), Cell(2, Own(Signer(task)), Leftover(with), CapacityXudt),
                         Cell(3, Own(Signer(task)), 0, capacity)}
  <2>1. Target(with) = Target(task) /\ Signer(with) = Signer(task)
    BY <1>1, <1>2
  <2> HIDE DEF capacity
  <2> QED BY <2>1 DEF UdtOutputs
<1> HIDE DEF outputs, next, capacity
<1>5. /\ IsCall(next) /\ next.at = "send" /\ next.prop = with.prop /\ next.swap = with.swap
      /\ next.start = with.start /\ next.ref = with.ref
      /\ next.inputs = with.inputs \cup paying \cup with.ref
      /\ next.outputs = outputs \cup with.outputs
  BY <1>1, <1>3 DEF IsCall
<1>6. Target(next) = Target(task)
  BY <1>1, <1>2, <1>5
<1> QED BY <1>1, <1>4, <1>5, <1>6 DEF next, with


\* The invariant survives the choice of the cells that pay: none of them is a
\* reference cell, and the only cell of an incoming swap that is made is its own.
LEMMA CollectKeepsCkb ==
  ASSUME CkbInv, NEW c \in Callers, CollectCells(c)
  PROVE  CkbInv'
<1> DEFINE task == calls[c]
<1>1. /\ IsCall(task) /\ SoundOutputs(task.outputs) /\ task.at = "cells"
      /\ SoundCall(task, live, period, point, wasLocked) /\ SoundCells(live, point)
      /\ \/ task.prop = "lockSwap" /\ Locking(task, live, period, point, wasLocked)
         \/ task.prop # "lockSwap" /\ Bystanding(task)
  BY DEF CkbInv, ChainSound, SoundCall, CollectCells, At
<1>2. CASE Step(c, NoCall) /\ Asks
  BY <1>2, NoCallSound, AskKeeps
<1>3. ASSUME NEW udt, NEW paying, udt \subseteq UdtCells(Signer(task)),
             paying \subseteq PlainCells(Signer(task)),
             Step(c, Transaction(Holding(task, udt), paying)), Asks
      PROVE  CkbInv'
  <2> DEFINE next == Transaction(Holding(task, udt), paying)
  <2> HIDE DEF task
  <2>1. /\ IsCall(next) /\ next.at = "send" /\ next.prop = task.prop /\ next.swap = task.swap
        /\ next.start = task.start /\ next.ref = task.ref
        /\ next.inputs = udt \cup paying \cup task.ref
        /\ Target(next) = Target(task) /\ task.outputs \subseteq next.outputs
    BY <1>1, TransactionFields
  <2>2. PICK left, capacity :
          next.outputs \subseteq {Target(task), Cell(2, Own(Signer(task)), left, CapacityXudt),
                                  Cell(3, Own(Signer(task)), 0, capacity)} \cup task.outputs
    BY <1>1, TransactionFields
  <2> HIDE DEF next
  <2>3. \A cell \in udt \cup paying : ~IsRef(cell)
    BY <1>1, <1>3 DEF UdtCells, PlainCells, SoundCells
  <2> DEFINE target == Target(task)
             leftover == Cell(2, Own(Signer(task)), left, CapacityXudt)
             change == Cell(3, Own(Signer(task)), 0, capacity)
  <2>4. /\ IsCell(leftover) /\ ~IsRef(leftover) /\ leftover.point = 2
        /\ leftover.lock.swap \notin Incoming
        /\ IsCell(change) /\ ~IsRef(change) /\ change.point = 3 /\ change.lock.swap \notin Incoming
    BY CellFields, LockFields
  <2>5. IsCell(target) /\ ~IsRef(target) /\ target.point = 1
    BY CellFields DEF Target
  <2>6. task.prop # "lockSwap" => target.lock.swap \notin Incoming
    <3>1. task.prop = "transfer" => target.lock.swap \notin Incoming
      BY CellFields, LockFields DEF Target
    <3>2. task.prop = "postSwapFromInitiator" /\ task.swap \in Outgoing =>
            target.lock.swap \notin Incoming
      <4> SUFFICES ASSUME task.prop = "postSwapFromInitiator", task.swap \in Outgoing
                   PROVE  target.lock.swap \notin Incoming
        OBVIOUS
      <4>1. target.lock.swap = task.swap
        BY CellFields, LockFields DEF Target
      <4> QED BY <4>1, CkbNumbers
    <3> HIDE DEF target
    <3> QED BY <1>1, <3>1, <3>2 DEF Bystanding
  <2>7. next.outputs \subseteq {target, leftover, change} \cup task.outputs
    BY <2>2
  <2>8. target = Target(next)
    BY <2>1
  <2> HIDE DEF target, leftover, change
  <2>9. SoundOutputs(next.outputs)
    BY <1>1, <2>4, <2>5, <2>7 DEF SoundOutputs
  <2>10. CASE task.prop = "lockSwap" /\ Locking(task, live, period, point, wasLocked)
    <3>1. /\ \A cell \in next.outputs : cell.lock.swap \in Incoming => cell = Target(next)
          /\ \A cell \in next.outputs : IsRef(cell) => cell \in task.outputs
      BY <1>1, <2>4, <2>5, <2>7, <2>8, <2>10 DEF Locking
    <3>2. /\ \A cell \in next.inputs : IsRef(cell) => cell \in next.ref
          /\ next.ref \subseteq next.inputs
      BY <2>1, <2>3
    <3>3. Locking(next, live, period, point, wasLocked)
      BY <1>1, <2>1, <2>10, <3>1, <3>2 DEF Locking
    <3>4. SoundCall(next, live, period, point, wasLocked)
      BY <2>1, <2>9, <2>10, <3>3 DEF SoundCall
    <3> QED BY <1>3, <3>4, AskKeeps DEF next
  <2>11. CASE task.prop # "lockSwap" /\ Bystanding(task)
    <3>1. Bystanding(next)
      BY <2>1, <2>3, <2>4, <2>5, <2>6, <2>7, <2>11 DEF Bystanding
    <3>2. SoundCall(next, live, period, point, wasLocked)
      BY <2>1, <2>9, <2>11, <3>1 DEF SoundCall
    <3> QED BY <1>3, <3>2, AskKeeps DEF next
  <2> QED BY <1>1, <2>10, <2>11
<1>4. \/ Step(c, NoCall) /\ Asks
      \/ \E udt, paying : /\ udt \subseteq UdtCells(Signer(task))
                          /\ paying \subseteq PlainCells(Signer(task))
                          /\ Step(c, Transaction(Holding(task, udt), paying)) /\ Asks
  <2> DEFINE tokens == Collect(UdtCells(Signer(task)), Target(task).udt, "udt")
             Payers(with) ==
               Collect(PlainCells(Signer(task)),
                       Required(with) + Spare(with) - CellTotal(with.inputs, "capacity"), "capacity")
  <2>1. \/ Step(c, NoCall) /\ Asks
        \/ /\ Asks
           /\ \E udt \in tokens : \E paying \in Payers(Holding(task, udt)) :
                Step(c, Transaction(Holding(task, udt), paying))
    BY DEF CollectCells, ThrowsOff
  <2>2. \A udt \in tokens : udt \subseteq UdtCells(Signer(task))
    BY CollectedAmong
  <2>3. \A with : \A paying \in Payers(with) : paying \subseteq PlainCells(Signer(task))
    BY CollectedAmong
  <2> HIDE DEF task, tokens, Payers
  <2> QED BY <2>1, <2>2, <2>3
<1> QED BY <1>2, <1>3, <1>4

\* The invariant survives a call that settles a swap.
LEMMA SettleKeepsCkb ==
  ASSUME CkbInv, NEW c \in Callers, NEW s \in Incoming \cup Outgoing, Settle(c, s)
  PROVE  CkbInv'
<1>1. PICK cell \in Oldest(SiglockCells(s)) :
        LET owner == IF s \in Outgoing THEN "lp" ELSE "user"
        IN  Step(c, Call("send", "settle", s, 0, {cell},
                         {Cell(1, Own(owner), cell.udt, CapacityXudt),
                          Cell(2, Own("lp"), 0, CapacitySiglock - CapacityXudt - Fee)}))
  BY DEF Settle
<1> DEFINE owner == IF s \in Outgoing THEN "lp" ELSE "user"
           first == Cell(1, Own(owner), cell.udt, CapacityXudt)
           second == Cell(2, Own("lp"), 0, CapacitySiglock - CapacityXudt - Fee)
           task == Call("send", "settle", s, 0, {cell}, {first, second})
<1>2. ~IsRef(cell)
  <2>1. cell \in live /\ cell.lock.swap = s /\ s # "none"
    BY CkbNumbers DEF Oldest, SiglockCells
  <2> QED BY <2>1 DEF CkbInv, ChainSound, SoundCells
<1>3. /\ IsCell(first) /\ ~IsRef(first) /\ first.point = 1 /\ first.lock.swap \notin Incoming
      /\ IsCell(second) /\ ~IsRef(second) /\ second.point = 2 /\ second.lock.swap \notin Incoming
  <2> HIDE DEF owner
  <2> QED BY CellFields, LockFields
<1>4. Step(c, task) /\ Asks
  BY <1>1 DEF Settle
<1> HIDE DEF first, second
<1>5. /\ IsCall(task) /\ task.at = "send" /\ task.prop = "settle" /\ task.inputs = {cell}
      /\ task.outputs = {first, second} /\ task.ref = {}
  BY CallFields
<1> HIDE DEF task
<1>6. SoundCall(task, live, period, point, wasLocked)
  BY <1>2, <1>3, <1>5 DEF SoundCall, SoundOutputs, Bystanding
<1> QED BY <1>4, <1>6, AskKeeps

\* The invariant survives a transaction that is sent, accepted or refused.
LEMMA SendKeepsCkb ==
  ASSUME CkbInv, NEW c \in Callers, Send(c)
  PROVE  CkbInv'
<1> DEFINE task == calls[c]
<1>1. /\ SoundCall(task, live, period, point, wasLocked) /\ task.at = "send"
      /\ Step(c, NoCall) /\ period' = period
      /\ \/ UNCHANGED <<live, point, wasLocked>>
         \/ /\ task.inputs \subseteq live /\ Spend(task.inputs, task.outputs)
            /\ \/ task.prop = "lockSwap" /\ wasLocked' = wasLocked \cup {task.swap}
               \/ task.prop # "lockSwap" /\ wasLocked' = wasLocked
  BY DEF CkbInv, Send, At, ThrowsOff
<1>2. /\ DOMAIN calls' = Callers /\ calls'[c] = NoCall
      /\ \A d \in Callers : d # c => calls'[d] = calls[d]
  BY <1>1, OneSteps DEF CkbInv
<1> HIDE DEF task
<1>3. CASE UNCHANGED <<live, point, wasLocked>>
  BY <1>1, <1>3, NoCallSound, AskKeeps DEF Asks
<1>4. CASE /\ task.prop = "lockSwap" /\ wasLocked' = wasLocked \cup {task.swap}
           /\ task.inputs \subseteq live /\ Spend(task.inputs, task.outputs)
  <2>1. /\ ChainSound(live', period, point', wasLocked \cup {task.swap})
        /\ \A x : SoundCall(x, live, period, point, wasLocked) =>
                    SoundCall(x, live', period, point', wasLocked \cup {task.swap})
    BY <1>1, <1>4, LockSpend
  <2>2. \A d \in Callers : SoundCall(calls'[d], live', period', point', wasLocked')
    BY <1>1, <1>2, <1>4, <2>1, NoCallSound DEF CkbInv
  <2> QED BY <1>1, <1>2, <1>4, <2>1, <2>2 DEF CkbInv
<1>5. CASE /\ task.prop # "lockSwap" /\ wasLocked' = wasLocked
           /\ Spend(task.inputs, task.outputs)
  <2>1. Bystanding(task) /\ SoundOutputs(task.outputs)
    BY <1>1, <1>5 DEF SoundCall
  <2>2. /\ ChainSound(live', period, point', wasLocked)
        /\ point' \in Nat /\ point <= point'
        /\ \A cell : IsRef(cell) => (cell \in live <=> cell \in live')
    BY <1>5, <2>1, NeutralSpend DEF Bystanding
  <2>3. point \in Nat /\ period \in Int /\ \A s \in Incoming : Expiry[s] \in Int
    BY CkbNumbers DEF CkbInv, ChainSound, SoundCells, SoundLocks
  <2>4. \A d \in Callers : d # c => SoundCall(calls[d], live', period, point', wasLocked)
    BY <2>2, <2>3, CkbNumbers, CallStays DEF CkbInv
  <2>5. \A d \in Callers : SoundCall(calls'[d], live', period', point', wasLocked')
    BY <1>1, <1>2, <1>5, <2>4, NoCallSound
  <2> QED BY <1>1, <1>2, <1>5, <2>2, <2>5 DEF CkbInv
<1> QED BY <1>1, <1>3, <1>4, <1>5

\* The invariant survives a cell that is taken back after the expiry.
LEMMA ReclaimKeepsCkb ==
  ASSUME CkbInv, NEW s \in Incoming \cup Outgoing, Reclaim(s)
  PROVE  CkbInv'
<1>1. PICK cell \in Oldest(SiglockCells(s)) :
        Spend({cell}, {Cell(1, Own(cell.lock.refund), cell.udt, cell.capacity - Fee)})
  BY DEF Reclaim
<1> DEFINE back == Cell(1, Own(cell.lock.refund), cell.udt, cell.capacity - Fee)
<1>2. ~IsRef(cell)
  <2>1. cell \in live /\ cell.lock.swap = s /\ s # "none"
    BY CkbNumbers DEF Oldest, SiglockCells
  <2> QED BY <2>1 DEF CkbInv, ChainSound, SoundCells
<1>3. IsCell(back) /\ ~IsRef(back) /\ back.point = 1 /\ back.lock.swap \notin Incoming
  BY CellFields, LockFields
<1>4. Spend({cell}, {back})
  BY <1>1
<1> HIDE DEF back
<1>5. SoundOutputs({back})
  BY <1>3 DEF SoundOutputs
<1>6. /\ ChainSound(live', period, point', wasLocked)
      /\ point' \in Nat /\ point <= point'
      /\ \A x : IsRef(x) => (x \in live <=> x \in live')
  BY <1>2, <1>3, <1>4, <1>5, NeutralSpend
<1>7. point \in Nat /\ period \in Int /\ \A x \in Incoming : Expiry[x] \in Int
  BY CkbNumbers DEF CkbInv, ChainSound, SoundCells, SoundLocks
<1>8. \A d \in Callers : SoundCall(calls[d], live', period, point', wasLocked)
  BY <1>6, <1>7, CkbNumbers, CallStays DEF CkbInv
<1> QED BY <1>6, <1>8 DEF CkbInv, Reclaim

\* The invariant survives the time that passes.
LEMMA PeriodKeepsCkb ==
  ASSUME CkbInv, PeriodPasses
  PROVE  CkbInv'
<1>1. /\ SoundCells(live, point) /\ SoundLocks(live, period, wasLocked)
      /\ OneRemembers(live, period, wasLocked) /\ point \in Nat /\ period \in Int
      /\ MaxQuery \in Nat /\ MaxAhead \in Nat /\ \A s \in Incoming : Expiry[s] \in Int
  BY CkbNumbers DEF CkbInv, ChainSound, SoundCells, SoundLocks
<1>2. /\ period' = period + 1 /\ live' = live /\ point' = point /\ wasLocked' = wasLocked
      /\ calls' = calls
      /\ \A c \in Callers : calls[c].at = "ref" => period - 10 < calls[c].start + MaxQuery
  BY DEF PeriodPasses, At, StartOf
<1>3. \A s \in wasLocked : s \in Incoming /\ Expiry[s] \in Int
  BY <1>1 DEF SoundLocks
<1>4. SoundLocks(live, period + 1, wasLocked)
  BY <1>1, <1>3 DEF SoundLocks
<1>5. OneRemembers(live, period + 1, wasLocked)
  BY <1>1, <1>3 DEF OneRemembers, Remembers
<1>6. ASSUME NEW c \in Callers
      PROVE  SoundCall(calls[c], live, period + 1, point, wasLocked)
  <2>1. SoundCall(calls[c], live, period, point, wasLocked)
    BY DEF CkbInv
  <2>2. calls[c].at = "ref" => (period + 1) - 10 <= calls[c].start + MaxQuery
    <3> SUFFICES ASSUME calls[c].at = "ref" PROVE (period + 1) - 10 <= calls[c].start + MaxQuery
      OBVIOUS
    <3>1. calls[c].start \in Int
      BY <2>1 DEF SoundCall, Locking, Bystanding
    <3> QED BY <1>1, <1>2, <3>1
  <2> QED BY <1>1, <2>1, <2>2, CallStays
<1> QED BY <1>1, <1>2, <1>4, <1>5, <1>6 DEF CkbInv, ChainSound

\* While a swap can be told from the others, its lock is known, and it has at
\* most one cell; for any swaps and expiries, any number of processes and cells.
THEOREM CkbRefCells == CkbSpec => []RefCellsRemember
<1>1. CkbInit => CkbInv
  <2> SUFFICES ASSUME CkbInit PROVE CkbInv
    OBVIOUS
  <2>1. \A cell \in live : /\ cell.point \in Int /\ cell.point <= 0 /\ ~IsRef(cell)
                           /\ cell.lock.swap \notin Incoming
    <3> SUFFICES ASSUME NEW cell \in FirstCells
                 PROVE  /\ cell.point \in Int /\ cell.point <= 0 /\ ~IsRef(cell)
                        /\ cell.lock.swap \notin Incoming
      BY DEF CkbInit
    <3>1. PICK owner \in {"lp", "user"} : cell = Cell(cell.point, Own(owner), cell.udt, cell.capacity)
      BY CkbAssumption
    <3>2. ~IsRef(cell) /\ cell.lock = Own(owner)
      BY <3>1, CellFields
    <3> QED BY <3>2, CkbAssumption, LockFields
  <2>2. ChainSound(live, period, point, wasLocked)
    BY <2>1 DEF CkbInit, ChainSound, SoundCells, SoundLocks, OneRemembers
  <2>3. DOMAIN calls = Callers /\ \A c \in Callers : calls[c] = NoCall
    BY DEF CkbInit
  <2> QED BY <2>2, <2>3, NoCallSound DEF CkbInv
<1>2. CkbInv /\ [CkbNext]_ckbVars => CkbInv'
  <2> SUFFICES ASSUME CkbInv, [CkbNext]_ckbVars PROVE CkbInv'
    OBVIOUS
  <2>1. CASE UNCHANGED ckbVars
    BY <2>1 DEF ckbVars, CkbInv
  <2> QED BY <2>1, StartKeepsCkb, BuildKeepsCkb, CollectKeepsCkb, SettleKeepsCkb, SendKeepsCkb,
             ReclaimKeepsCkb, PeriodKeepsCkb
      DEF CkbNext
<1>3. CkbInv => RefCellsRemember
  <2> SUFFICES ASSUME CkbInv, OneRefCell, NEW s \in Incoming, StartOf(period) <= Expiry[s],
                      s \in wasLocked \/ \E cell \in live : cell.lock.swap = s
               PROVE  /\ \A old, new \in SiglockCells(s) : old = new
                      /\ GetLockedSwap(s) # "none"
    BY DEF RefCellsRemember, SiglockCells
  <2>1. /\ SoundLocks(live, period, wasLocked) /\ OneRemembers(live, period, wasLocked)
        /\ SoundCells(live, point)
    BY DEF CkbInv, ChainSound
  <2>2. s \in wasLocked
    BY <2>1 DEF SoundLocks
  <2>3. PICK r \in live : IsRef(r)
    BY <2>1, <2>2 DEF SoundLocks
  <2>4. AtMostOneRef(live)
    BY DEF OneRefCell, AtMostOneRef, RefCells
  <2>5. Remembers(r, live, period, wasLocked)
    BY <2>1, <2>3, <2>4 DEF OneRemembers
  <2>6. r \in FindRefCell
    BY <2>1, <2>3, <2>4 DEF FindRefCell, Newest, RefCells, AtMostOneRef, SoundCells
  <2>7. Fits(Item(s, r.ref.start)) /\ Item(s, r.ref.start) \in r.ref.items
    <3>1. period \in Int /\ Expiry[s] \in Int
      BY <2>1, CkbNumbers DEF SoundLocks
    <3> QED BY <2>2, <2>5, <3>1 DEF Remembers, Fits, Item, StartOf
  <2>8. \A old, new \in SiglockCells(s) : old = new
    BY <2>2, <2>5 DEF Remembers, SiglockCells, StartOf
  <2> QED BY <2>6, <2>7, <2>8 DEF GetLockedSwap
<1> QED BY <1>1, <1>2, <1>3, PTL DEF CkbSpec

-----------------------------------------------------------------------------
(* A swap in 32 bytes. *)

EncodingSpec == EncodingInit /\ [][EncodingNext]_encodingVars

\* One for an option that is set.
One(o, options) == IF o \in options THEN 1 ELSE 0

\* The bits of a hex digit.
LEMMA BitsOfDigit ==
  ASSUME NEW b0 \in 0..1, NEW b1 \in 0..1, NEW b2 \in 0..1, NEW b3 \in 0..1,
         NEW d, d = b0 + 2 * b1 + 4 * b2 + 8 * b3
  PROVE  /\ Bit(d, 8) <=> b3 = 1
         /\ Bit(d, 4) <=> b2 = 1
         /\ Bit(d, 1) <=> b0 = 1
         /\ (d \div 2) % 4 = 1 <=> (b1 = 1 /\ b2 = 0)
         /\ d >= 8 <=> b3 = 1
<1>1. /\ d \div 8 = b3 /\ d \div 4 = b2 + 2 * b3 /\ d \div 2 = b1 + 2 * b2 + 4 * b3
      /\ d \div 1 = d /\ d % 2 = b0
  OBVIOUS
<1>2. (d \div 4) % 2 = b2 /\ (d \div 2) % 4 = b1 + 2 * b2 /\ (d \div 8) % 2 = b3
  BY <1>1
<1>3. d >= 8 <=> b3 = 1
  OBVIOUS
<1> QED BY <1>1, <1>2, <1>3 DEF Bit

\* The salt header says which options are set, to the SDK that reads its hex
\* digits and to the contract that reads its bits.
LEMMA HeaderTells ==
  ASSUME NEW options, options \subseteq DOMAIN Header, NEW trackId \in 0..15,
         NEW s, s.header = FormatSaltHeader(options, trackId)
  PROVE  /\ s.header \in Nat /\ s.header <= 65535 /\ s.header % 16 = trackId
         /\ \A o \in DOMAIN Header : Bit(s.header, Header[o]) <=> o \in options
         /\ WillTransferToContract(s) <=> "notToContract" \notin options
         /\ WillWaiveFee(s) <=> "waiveServiceFee" \in options
         /\ ForCoreToken(s) <=> {"notToContract", "amountForCoreToken"} \subseteq options
         /\ NewFormat(s) <=> "newFormatCoreToken" \in options
         /\ ShareWithPartner(s) <=>
              /\ {"notToContract", "amountToShare"} \subseteq options
              /\ "amountForCoreToken" \notin options
         /\ NonTyped(s) <=> "useNonTypedSigning" \in options
<1> DEFINE h == s.header
           b4 == One("newFormatCoreToken", options)   b7 == One("withReward", options)
           b8 == One("usePointsToWaiveServiceFee", options)
           b9 == One("amountToShare", options)        b10 == One("amountForCoreToken", options)
           b11 == One("useNonTypedSigning", options)  b12 == One("isApi", options)
           b13 == One("isMesonTo", options)           b14 == One("waiveServiceFee", options)
           b15 == One("notToContract", options)
<1>1. \A o : One(o, options) \in 0..1 /\ (One(o, options) = 1 <=> o \in options)
  BY DEF One
<1>2. /\ b4 \in 0..1 /\ b7 \in 0..1 /\ b8 \in 0..1 /\ b9 \in 0..1 /\ b10 \in 0..1
      /\ b11 \in 0..1 /\ b12 \in 0..1 /\ b13 \in 0..1 /\ b14 \in 0..1 /\ b15 \in 0..1
  BY ONLY <1>1
<1>3. /\ b4 = 1 <=> "newFormatCoreToken" \in options
      /\ b7 = 1 <=> "withReward" \in options
      /\ b8 = 1 <=> "usePointsToWaiveServiceFee" \in options
      /\ b9 = 1 <=> "amountToShare" \in options
      /\ b10 = 1 <=> "amountForCoreToken" \in options
      /\ b11 = 1 <=> "useNonTypedSigning" \in options
      /\ b12 = 1 <=> "isApi" \in options
      /\ b13 = 1 <=> "isMesonTo" \in options
      /\ b14 = 1 <=> "waiveServiceFee" \in options
      /\ b15 = 1 <=> "notToContract" \in options
  BY ONLY <1>1
<1>4. h = trackId + 16 * b4 + 128 * b7 + 256 * b8 + 512 * b9 + 1024 * b10 + 2048 * b11
            + 4096 * b12 + 8192 * b13 + 16384 * b14 + 32768 * b15
  <2>1. /\ OptionBit("newFormatCoreToken", options) = 16 * b4
        /\ OptionBit("withReward", options) = 128 * b7
        /\ OptionBit("usePointsToWaiveServiceFee", options) = 256 * b8
    BY DEF OptionBit, One, Header
  <2>2. /\ OptionBit("amountToShare", options) = 512 * b9
        /\ OptionBit("amountForCoreToken", options) = 1024 * b10
        /\ OptionBit("useNonTypedSigning", options) = 2048 * b11
        /\ OptionBit("isApi", options) = 4096 * b12
    BY DEF OptionBit, One, Header
  <2>3. /\ OptionBit("isMesonTo", options) = 8192 * b13
        /\ OptionBit("waiveServiceFee", options) = 16384 * b14
        /\ OptionBit("notToContract", options) = 32768 * b15
    BY DEF OptionBit, One, Header
  <2> HIDE DEF b4, b7, b8, b9, b10, b11, b12, b13, b14, b15
  <2>4. h = trackId + OptionBit("newFormatCoreToken", options) + OptionBit("withReward", options)
    + OptionBit("usePointsToWaiveServiceFee", options) + OptionBit("amountToShare", options)
    + OptionBit("amountForCoreToken", options) + OptionBit("useNonTypedSigning", options)
    + OptionBit("isApi", options) + OptionBit("isMesonTo", options)
    + OptionBit("waiveServiceFee", options) + OptionBit("notToContract", options)
    BY DEF FormatSaltHeader
  <2> HIDE DEF h
  <2> QED BY ONLY <2>1, <2>2, <2>3, <2>4
<1> HIDE DEF b4, b7, b8, b9, b10, b11, b12, b13, b14, b15, h
<1>5. /\ h \in Nat /\ h <= 65535 /\ h % 16 = trackId
      /\ (h \div 16) % 2 = b4 /\ (h \div 128) % 2 = b7
      /\ (h \div 256) % 2 = b8 /\ (h \div 512) % 2 = b9 /\ (h \div 1024) % 2 = b10
      /\ (h \div 2048) % 2 = b11 /\ (h \div 4096) % 2 = b12 /\ (h \div 8192) % 2 = b13
      /\ (h \div 16384) % 2 = b14 /\ (h \div 32768) % 2 = b15
      /\ (h \div 16) % 16 = b4 + 8 * b7
      /\ (h \div 256) % 16 = b8 + 2 * b9 + 4 * b10 + 8 * b11
      /\ (h \div 4096) % 16 = b12 + 2 * b13 + 4 * b14 + 8 * b15
  <2>1. h \in Nat /\ h <= 65535
    BY <1>2, <1>4
  <2>2. h % 16 = trackId
    BY <1>2, <1>4
  <2>3. h \div 16 = b4 + 8 * b7 + 16 * b8 + 32 * b9 + 64 * b10 + 128 * b11
                    + 256 * b12 + 512 * b13 + 1024 * b14 + 2048 * b15
    BY <1>2, <1>4
  <2>4. h \div 128 = b7 + 2 * b8 + 4 * b9 + 8 * b10 + 16 * b11
                    + 32 * b12 + 64 * b13 + 128 * b14 + 256 * b15
    BY <1>2, <1>4
  <2>5. h \div 256 = b8 + 2 * b9 + 4 * b10 + 8 * b11 + 16 * b12 + 32 * b13 + 64 * b14 + 128 * b15
    BY <1>2, <1>4
  <2>6. h \div 512 = b9 + 2 * b10 + 4 * b11 + 8 * b12 + 16 * b13 + 32 * b14 + 64 * b15
    BY <1>2, <1>4
  <2>7. h \div 1024 = b10 + 2 * b11 + 4 * b12 + 8 * b13 + 16 * b14 + 32 * b15
    BY <1>2, <1>4
  <2>8. h \div 2048 = b11 + 2 * b12 + 4 * b13 + 8 * b14 + 16 * b15
    BY <1>2, <1>4
  <2>9. h \div 4096 = b12 + 2 * b13 + 4 * b14 + 8 * b15
    BY <1>2, <1>4
  <2>10. h \div 8192 = b13 + 2 * b14 + 4 * b15
    BY <1>2, <1>4
  <2>11. h \div 16384 = b14 + 2 * b15
    BY <1>2, <1>4
  <2>12. h \div 32768 = b15
    BY <1>2, <1>4
  <2>13. (h \div 16) % 2 = b4 /\ (h \div 16) % 16 = b4 + 8 * b7
    BY <1>2, <2>3
  <2>14. (h \div 128) % 2 = b7 /\ (h \div 256) % 2 = b8 /\ (h \div 512) % 2 = b9
    BY <1>2, <2>4, <2>5, <2>6
  <2>15. (h \div 1024) % 2 = b10 /\ (h \div 2048) % 2 = b11 /\ (h \div 4096) % 2 = b12
    BY <1>2, <2>7, <2>8, <2>9
  <2>16. (h \div 8192) % 2 = b13 /\ (h \div 16384) % 2 = b14 /\ (h \div 32768) % 2 = b15
    BY <1>2, <2>10, <2>11, <2>12
  <2>17. (h \div 256) % 16 = b8 + 2 * b9 + 4 * b10 + 8 * b11
    BY <1>2, <2>5
  <2>18. (h \div 4096) % 16 = b12 + 2 * b13 + 4 * b14 + 8 * b15
    BY <1>2, <2>9
  <2> QED BY ONLY <2>1, <2>2, <2>13, <2>14, <2>15, <2>16, <2>17, <2>18
<1>6. \A o \in DOMAIN Header : Bit(h, Header[o]) <=> o \in options
  <2> SUFFICES ASSUME NEW o \in DOMAIN Header PROVE Bit(h, Header[o]) <=> o \in options
    OBVIOUS
  <2>1. CASE o = "newFormatCoreToken"
    <3>1. Header[o] = 16 /\ (Bit(h, 16) <=> b4 = 1)
      BY <1>5, <2>1 DEF Bit, Header
    <3> QED BY <1>3, <2>1, <3>1
  <2>2. CASE o = "withReward"
    <3>1. Header[o] = 128 /\ (Bit(h, 128) <=> b7 = 1)
      BY <1>5, <2>2 DEF Bit, Header
    <3> QED BY <1>3, <2>2, <3>1
  <2>3. CASE o = "usePointsToWaiveServiceFee"
    <3>1. Header[o] = 256 /\ (Bit(h, 256) <=> b8 = 1)
      BY <1>5, <2>3 DEF Bit, Header
    <3> QED BY <1>3, <2>3, <3>1
  <2>4. CASE o = "amountToShare"
    <3>1. Header[o] = 512 /\ (Bit(h, 512) <=> b9 = 1)
      BY <1>5, <2>4 DEF Bit, Header
    <3> QED BY <1>3, <2>4, <3>1
  <2>5. CASE o = "amountForCoreToken"
    <3>1. Header[o] = 1024 /\ (Bit(h, 1024) <=> b10 = 1)
      BY <1>5, <2>5 DEF Bit, Header
    <3> QED BY <1>3, <2>5, <3>1
  <2>6. CASE o = "useNonTypedSigning"
    <3>1. Header[o] = 2048 /\ (Bit(h, 2048) <=> b11 = 1)
      BY <1>5, <2>6 DEF Bit, Header
    <3> QED BY <1>3, <2>6, <3>1
  <2>7. CASE o = "isApi"
    <3>1. Header[o] = 4096 /\ (Bit(h, 4096) <=> b12 = 1)
      BY <1>5, <2>7 DEF Bit, Header
    <3> QED BY <1>3, <2>7, <3>1
  <2>8. CASE o = "isMesonTo"
    <3>1. Header[o] = 8192 /\ (Bit(h, 8192) <=> b13 = 1)
      BY <1>5, <2>8 DEF Bit, Header
    <3> QED BY <1>3, <2>8, <3>1
  <2>9. CASE o = "waiveServiceFee"
    <3>1. Header[o] = 16384 /\ (Bit(h, 16384) <=> b14 = 1)
      BY <1>5, <2>9 DEF Bit, Header
    <3> QED BY <1>3, <2>9, <3>1
  <2>10. CASE o = "notToContract"
    <3>1. Header[o] = 32768 /\ (Bit(h, 32768) <=> b15 = 1)
      BY <1>5, <2>10 DEF Bit, Header
    <3> QED BY <1>3, <2>10, <3>1
  <2>11. o \in {"newFormatCoreToken", "withReward", "usePointsToWaiveServiceFee",
          "amountToShare", "amountForCoreToken", "useNonTypedSigning", "isApi", "isMesonTo",
          "waiveServiceFee", "notToContract"}
    BY DEF Header
  <2> QED BY <2>1, <2>2, <2>3, <2>4, <2>5, <2>6, <2>7, <2>8, <2>9, <2>10, <2>11
<1>7. /\ SaltDigit(s, 2) = (h \div 4096) % 16 /\ SaltDigit(s, 3) = (h \div 256) % 16
      /\ SaltDigit(s, 4) = (h \div 16) % 16
  BY DEF SaltDigit, h
<1>8. /\ Bit(SaltDigit(s, 2), 8) <=> b15 = 1
      /\ Bit(SaltDigit(s, 2), 4) <=> b14 = 1
  BY <1>2, <1>5, <1>7, BitsOfDigit
<1>9. /\ Bit(SaltDigit(s, 3), 4) <=> b10 = 1
      /\ (SaltDigit(s, 3) \div 2) % 4 = 1 <=> b9 = 1 /\ b10 = 0
      /\ SaltDigit(s, 3) >= 8 <=> b11 = 1
  BY <1>2, <1>5, <1>7, BitsOfDigit
<1>10. Bit(SaltDigit(s, 4), 1) <=> b4 = 1
  <2>1. (h \div 16) % 16 = b4 + 2 * 0 + 4 * 0 + 8 * b7
    BY <1>2, <1>5
  <2> QED BY <1>2, <1>7, <2>1, BitsOfDigit
<1>11. h = s.header
  BY DEF h
<1>12. /\ WillTransferToContract(s) <=> "notToContract" \notin options
       /\ WillWaiveFee(s) <=> "waiveServiceFee" \in options
       /\ NewFormat(s) <=> "newFormatCoreToken" \in options
       /\ NonTyped(s) <=> "useNonTypedSigning" \in options
  BY <1>3, <1>8, <1>9, <1>10 DEF WillTransferToContract, WillWaiveFee, NewFormat, NonTyped
<1>13. b10 = 0 <=> "amountForCoreToken" \notin options
  BY <1>2, <1>3
<1>14. /\ ForCoreToken(s) <=> {"notToContract", "amountForCoreToken"} \subseteq options
       /\ ShareWithPartner(s) <=>
              /\ {"notToContract", "amountToShare"} \subseteq options
              /\ "amountForCoreToken" \notin options
  BY <1>3, <1>9, <1>12, <1>13 DEF ForCoreToken, ShareWithPartner
<1> QED BY <1>5, <1>6, <1>11, <1>12, <1>14

\* A power of ten.
Power(level) == 10 ^ level

\* The powers of ten of two bytes are numbers.
LEMMA PowersOfTen ==
  ASSUME NEW level \in 0..11
  PROVE  Power(level) \in Nat /\ Power(level) > 0
<1>1. CASE level = 0
  BY <1>1 DEF Power
<1>2. CASE level = 1
  BY <1>2 DEF Power
<1>3. CASE level = 2
  BY <1>3 DEF Power
<1>4. CASE level = 3
  BY <1>4 DEF Power
<1>5. CASE level = 4
  BY <1>5 DEF Power
<1>6. CASE level = 5
  BY <1>6 DEF Power
<1>7. CASE level = 6
  BY <1>7 DEF Power
<1>8. CASE level = 7
  BY <1>8 DEF Power
<1>9. CASE level = 8
  BY <1>9 DEF Power
<1>10. CASE level = 9
  BY <1>10 DEF Power
<1>11. CASE level = 10
  BY <1>11 DEF Power
<1>12. CASE level = 11
  BY <1>12 DEF Power
<1>13. \/ level = 0 \/ level = 1 \/ level = 2 \/ level = 3 \/ level = 4 \/ level = 5 \/ level = 6
       \/ level = 7 \/ level = 8 \/ level = 9 \/ level = 10 \/ level = 11
  OBVIOUS
<1> QED BY ONLY <1>1, <1>2, <1>3, <1>4, <1>5, <1>6, <1>7, <1>8, <1>9, <1>10, <1>11, <1>12,
                <1>13

\* Two bytes stand for the same number on both sides.
LEMMA DecompressAlike ==
  ASSUME NEW d \in Nat, d <= 65535
  PROVE  /\ DecompressFixedPrecision(d) \in Nat
         /\ ContractDecompress(d) = DecompressFixedPrecision(d)
<1>1. CASE d < 1000
  BY <1>1 DEF DecompressFixedPrecision, ContractDecompress
<1>2. CASE d >= 1000
  <2> DEFINE level == (d - 1000) \div 9000  digits == ((d - 1000) % 9000) + 1000
  <2>1. DecompressFixedPrecision(d) = digits * Power(level)
    BY <1>2 DEF DecompressFixedPrecision, Power
  <2>2. level \in 0..8 /\ digits \in Nat /\ (d = 1000 => level = 0 /\ digits = 1000)
    BY <1>2
  <2>3. ContractDecompress(d) = IF d <= 1000 THEN d ELSE digits * Power(level)
    BY DEF ContractDecompress, Power
  <2> HIDE DEF level, digits
  <2> DEFINE p == Power(level)
  <2>4. p \in Nat
    BY <2>2, PowersOfTen
  <2>5. level = 0 => p = 1
    BY DEF Power
  <2> HIDE DEF p
  <2>6. digits * p \in Nat /\ (d = 1000 => digits * p = 1000)
    BY <2>2, <2>4, <2>5
  <2> QED BY <1>2, <2>1, <2>3, <2>6 DEF p
<1> QED BY <1>1, <1>2

\* A set of numbers up to eleven has a least.
LEMMA LeastOfEleven ==
  ASSUME NEW S \in SUBSET (0..11), S # {}
  PROVE  \E n \in S : \A q \in 0..n - 1 : q \notin S
<1> DEFINE Least(n) == n \in S /\ \A q \in 0..n - 1 : q \notin S
           None(k) == \A q \in S : q >= k
<1>1. ASSUME NEW k \in Nat, None(k), ~ Least(k) PROVE None(k + 1)
  <2>1. k \notin S
    BY <1>1
  <2> QED BY <1>1, <2>1
<1>2. None(0) /\ ~ None(12)
  <2>1. \A q \in S : q \in Nat /\ q < 12
    OBVIOUS
  <2>2. PICK q \in S : TRUE
    OBVIOUS
  <2> QED BY <2>1, <2>2
<1> HIDE DEF None, Least
<1>3. \E k \in 0..11 : Least(k)
  <2> SUFFICES ASSUME \A k \in 0..11 : ~ Least(k) PROVE None(12)
    BY <1>2
  <2>1. None(1) /\ None(2) /\ None(3) /\ None(4) /\ None(5) /\ None(6)
    BY <1>1, <1>2
  <2> QED BY <1>1, <2>1
<1>4. PICK k \in 0..11 : Least(k)
  BY <1>3
<1> QED BY <1>4 DEF Least

\* The level of a value is the least power of ten that reaches it, less four.
LEMMA LevelOfValue ==
  ASSUME NEW value \in Nat, value < Power(11)
  PROVE  Level(value) \in -4..8
<1> DEFINE S == {p \in 0..11 : Power(p) >= value}
<1>1. PICK n \in S : \A q \in 0..n - 1 : q \notin S
  <2>1. 11 \in S /\ S \in SUBSET (0..11)
    BY PowersOfTen
  <2> HIDE DEF S
  <2> QED BY <2>1, LeastOfEleven
<1>2. n \in 0..11 /\ Power(n) >= value
  OBVIOUS
<1>3. ASSUME NEW q \in 0..n - 1 PROVE Power(q) < value
  <2>1. q \in 0..11 /\ q \in Nat /\ n \in Nat /\ q < n
    BY <1>2
  <2>2. q \notin S
    BY <1>1, <2>1
  <2>3. ~ (Power(q) >= value)
    BY <2>1, <2>2
  <2>4. Power(q) \in Nat
    BY <2>1, PowersOfTen
  <2> QED BY <2>3, <2>4
<1> HIDE DEF S
<1>4. Level(value) = (CHOOSE p \in 0..12 :
                        Power(p) >= value /\ \A q \in 0..p - 1 : Power(q) < value) - 4
  BY DEF Level, Power
<1> DEFINE least == CHOOSE p \in 0..12 :
                      Power(p) >= value /\ \A q \in 0..p - 1 : Power(q) < value
<1>5. least \in 0..12
  BY <1>2, <1>3
<1> HIDE DEF least
<1> QED BY <1>4, <1>5 DEF least

\* What is compressed is two bytes.
LEMMA CompressedIsShort ==
  ASSUME NEW value \in Int, Compressible(value)
  PROVE  CompressFixedPrecision(value) \in Nat /\ CompressFixedPrecision(value) <= 65535
<1>1. value > 0 /\ value < Power(11) /\ CompressFixedPrecision(value) <= 65535
  BY SMT DEF Compressible, Power
<1> DEFINE level == Level(value)
<1>2. CompressFixedPrecision(value) = IF level < 0 THEN value ELSE level * 9000 + (value \div Power(level))
  BY DEF CompressFixedPrecision, Power
<1>3. level \in -4..8
  BY <1>1, LevelOfValue
<1> HIDE DEF level
<1>4. CASE level < 0
  BY <1>1, <1>2, <1>4
<1>5. CASE level >= 0
  <2> DEFINE p == Power(level)
  <2>1. p \in Nat /\ p > 0
    BY <1>3, <1>5, PowersOfTen
  <2> HIDE DEF p
  <2>2. value \div p \in Nat
    BY <1>1, <2>1
  <2> QED BY <1>1, <1>2, <1>3, <1>5, <2>2 DEF p
<1> QED BY <1>3, <1>4, <1>5

\* The fields digits are of: those of a swap, and those of a call.
Fields == (DOMAIN Decode) \cup
  {"encoded", "r", "yParityAndS", "initiator", "poolIndex", "zero", "recipient",
   "opcode", "length", "lp", "signer", "recipient of the swap"}

\* Strings of digits, and part s of w, which starts after `from` digits.
Strings == Seq(Fields \X Nat)
Size(w) == Len(w)
PartAt(w, s, from) ==
  from \in Nat /\ Size(s) > 0 /\ from + Size(s) <= Size(w)
    /\ SubSeq(w, from + 1, from + Size(s)) = s
Joined(w, t) == w \o t

\* A part stays where it is when something is appended, and that is a part, too.
LEMMA PartsOfTwo ==
  ASSUME NEW w \in Strings, NEW t \in Strings, Size(t) > 0
  PROVE  /\ Joined(w, t) \in Strings /\ Size(w) \in Nat /\ Size(Joined(w, t)) = Size(w) + Size(t)
         /\ PartAt(Joined(w, t), t, Size(w))
         /\ \A s \in Strings, from \in Nat : PartAt(w, s, from) => PartAt(Joined(w, t), s, from)
<1> DEFINE T == Fields \X Nat
<1>0. \A s : Size(s) = Len(s)
  BY DEF Size
<1>1. /\ w \in Seq(T) /\ t \in Seq(T) /\ w \o t \in Seq(T)
      /\ Len(w \o t) = Len(w) + Len(t) /\ Joined(w, t) = w \o t
  BY ConcatProperties DEF Strings, Joined
<1>2. /\ Len(w) \in Nat /\ Len(t) \in Nat /\ Size(w) = Len(w) /\ Size(t) = Len(t)
      /\ Size(w \o t) = Size(w) + Size(t)
  <2>1. Len(w) \in Nat /\ Len(t) \in Nat
    BY <1>1
  <2>2. Size(w) = Len(w) /\ Size(t) = Len(t) /\ Size(w \o t) = Len(w \o t)
    BY ONLY <1>0
  <2>3. Size(w \o t) = Size(w) + Size(t)
    BY ONLY <1>1, <2>2
  <2> QED BY ONLY <2>1, <2>2, <2>3
<1> HIDE DEF T
<1>3. PartAt(w \o t, t, Len(w))
  <2>1. SubSeq(w \o t, Len(w) + 1, Len(w) + Len(t)) = SubSeq(t, 1, Len(t))
    BY <1>1, <1>2, SubSeqOfConcat2
  <2>2. SubSeq(w \o t, Size(w) + 1, Size(w) + Size(t)) = t
    BY <1>0, <1>1, <2>1, SubSeqFull
  <2>3. Size(w) \in Nat /\ Size(t) > 0 /\ Size(w) + Size(t) <= Size(w \o t)
    BY <1>2
  <2> QED BY <1>0, <2>2, <2>3 DEF PartAt
<1>4. ASSUME NEW s \in Strings, NEW from \in Nat, PartAt(w, s, from)
      PROVE  PartAt(w \o t, s, from)
  <2>1. Len(s) \in Nat /\ Len(s) > 0 /\ from + Len(s) <= Len(w)
    BY <1>0, <1>4 DEF PartAt, Strings
  <2>2. from + 1 \in 1..Len(w) /\ from + Len(s) \in 1..Len(w)
    BY <1>2, <2>1
  <2>3. SubSeq(w \o t, from + 1, from + Len(s)) = SubSeq(w, from + 1, from + Len(s))
    BY <1>1, <2>2, SubSeqOfConcat1
  <2>4. SubSeq(w \o t, from + 1, from + Size(s)) = s
    BY <1>0, <1>4, <2>3 DEF PartAt
  <2>5. Size(s) = Len(s)
    BY <1>0
  <2>6. Size(s) > 0 /\ from + Size(s) <= Size(w \o t)
    BY <1>2, <2>1, <2>5
  <2> QED BY <2>4, <2>6 DEF PartAt
<1> QED BY <1>0, <1>1, <1>2, <1>3, <1>4 DEF Strings, T

\* The digits of a field.
LEMMA DigitsOfField ==
  ASSUME NEW field \in DOMAIN Decode, NEW width \in Nat
  PROVE  DigitsOf(field, width) \in Strings /\ Size(DigitsOf(field, width)) = width
<1>1. field \in Fields
  BY DEF Fields
<1> QED BY <1>1 DEF DigitsOf, Strings, Size

\* decode and the contract read the fields where they were packed.
LEMMA ReadAsPacked ==
  LET digits == Packed(SwapStruct)
      here(f) == DigitsRead(digits, Decode[f][1], Decode[f][2])
  IN  \A f \in DOMAIN Decode :
        /\ \E i \in DOMAIN SwapStruct :
             SwapStruct[i][1] = f /\ here(f) = DigitsOf(f, SwapStruct[i][2])
        /\ ContractReads[f] = <<4 * (66 - Decode[f][2]), 4 * Len(here(f))>>
<1> DEFINE f1 == DigitsOf("version", 2)
           f2 == DigitsOf("amount", 10)
           f3 == DigitsOf("salt", 20)
           f4 == DigitsOf("fee", 10)
           f5 == DigitsOf("expireTs", 10)
           f6 == DigitsOf("outChain", 4)
           f7 == DigitsOf("outToken", 2)
           f8 == DigitsOf("inChain", 4)
           f9 == DigitsOf("inToken", 2)
           p1 == f1
           p2 == Joined(p1, f2)
           p3 == Joined(p2, f3)
           p4 == Joined(p3, f4)
           p5 == Joined(p4, f5)
           p6 == Joined(p5, f6)
           p7 == Joined(p6, f7)
           p8 == Joined(p7, f8)
           p9 == Joined(p8, f9)
<1>1. Packed(SwapStruct) = p9
  BY DEF Packed, SwapStruct, Joined
<1>2. /\ f1 \in Strings /\ Size(f1) = 2
      /\ f2 \in Strings /\ Size(f2) = 10
      /\ f3 \in Strings /\ Size(f3) = 20
      /\ f4 \in Strings /\ Size(f4) = 10
      /\ f5 \in Strings /\ Size(f5) = 10
      /\ f6 \in Strings /\ Size(f6) = 4
      /\ f7 \in Strings /\ Size(f7) = 2
      /\ f8 \in Strings /\ Size(f8) = 4
      /\ f9 \in Strings /\ Size(f9) = 2
  BY DigitsOfField DEF Decode
<1> HIDE DEF f1, f2, f3, f4, f5, f6, f7, f8, f9
<1>3. p1 \in Strings /\ Size(p1) = 2 /\ PartAt(p1, f1, 0)
  BY <1>2, SubSeqFull DEF PartAt, Strings, Size
<1> HIDE DEF p1
<1>4. /\ p2 \in Strings /\ Size(p2) = 12
      /\ PartAt(p2, f1, 0) /\ PartAt(p2, f2, 2)
  BY <1>2, <1>3, PartsOfTwo
<1> HIDE DEF p2
<1>5. /\ p3 \in Strings /\ Size(p3) = 32
      /\ PartAt(p3, f1, 0) /\ PartAt(p3, f2, 2) /\ PartAt(p3, f3, 12)
  BY <1>2, <1>4, PartsOfTwo
<1> HIDE DEF p3
<1>6. /\ p4 \in Strings /\ Size(p4) = 42
      /\ PartAt(p4, f1, 0) /\ PartAt(p4, f2, 2) /\ PartAt(p4, f3, 12) /\ PartAt(p4, f4, 32)
  BY <1>2, <1>5, PartsOfTwo
<1> HIDE DEF p4
<1>7. /\ p5 \in Strings /\ Size(p5) = 52
      /\ PartAt(p5, f1, 0) /\ PartAt(p5, f2, 2) /\ PartAt(p5, f3, 12) /\ PartAt(p5, f4, 32) /\ PartAt(p5, f5, 42)
  BY <1>2, <1>6, PartsOfTwo
<1> HIDE DEF p5
<1>8. /\ p6 \in Strings /\ Size(p6) = 56
      /\ PartAt(p6, f1, 0) /\ PartAt(p6, f2, 2) /\ PartAt(p6, f3, 12) /\ PartAt(p6, f4, 32) /\ PartAt(p6, f5, 42) /\ PartAt(p6, f6, 52)
  BY <1>2, <1>7, PartsOfTwo
<1> HIDE DEF p6
<1>9. /\ p7 \in Strings /\ Size(p7) = 58
      /\ PartAt(p7, f1, 0) /\ PartAt(p7, f2, 2) /\ PartAt(p7, f3, 12) /\ PartAt(p7, f4, 32) /\ PartAt(p7, f5, 42) /\ PartAt(p7, f6, 52) /\ PartAt(p7, f7, 56)
  BY <1>2, <1>8, PartsOfTwo
<1> HIDE DEF p7
<1>10. /\ p8 \in Strings /\ Size(p8) = 62
      /\ PartAt(p8, f1, 0) /\ PartAt(p8, f2, 2) /\ PartAt(p8, f3, 12) /\ PartAt(p8, f4, 32) /\ PartAt(p8, f5, 42) /\ PartAt(p8, f6, 52) /\ PartAt(p8, f7, 56) /\ PartAt(p8, f8, 58)
  BY <1>2, <1>9, PartsOfTwo
<1> HIDE DEF p8
<1>11. /\ p9 \in Strings /\ Size(p9) = 64
      /\ PartAt(p9, f1, 0) /\ PartAt(p9, f2, 2) /\ PartAt(p9, f3, 12) /\ PartAt(p9, f4, 32) /\ PartAt(p9, f5, 42) /\ PartAt(p9, f6, 52) /\ PartAt(p9, f7, 56) /\ PartAt(p9, f8, 58) /\ PartAt(p9, f9, 62)
  BY <1>2, <1>10, PartsOfTwo
<1> HIDE DEF p9
<1>12. /\ SubSeq(p9, 1, 2) = f1
      /\ SubSeq(p9, 3, 12) = f2
      /\ SubSeq(p9, 13, 32) = f3
      /\ SubSeq(p9, 33, 42) = f4
      /\ SubSeq(p9, 43, 52) = f5
      /\ SubSeq(p9, 53, 56) = f6
      /\ SubSeq(p9, 57, 58) = f7
      /\ SubSeq(p9, 59, 62) = f8
      /\ SubSeq(p9, 63, 64) = f9
  BY <1>2, <1>11 DEF PartAt
<1>13. ASSUME NEW f \in DOMAIN Decode
      PROVE  \E i \in DOMAIN SwapStruct :
               /\ SwapStruct[i][1] = f
               /\ DigitsRead(p9, Decode[f][1], Decode[f][2]) = DigitsOf(f, SwapStruct[i][2])
               /\ ContractReads[f] = <<4 * (66 - Decode[f][2]), 4 * SwapStruct[i][2]>>
  <2>1. CASE f = "version"
    <3>1. Decode[f][1] - 1 = 1 /\ Decode[f][2] - 2 = 2
      BY <2>1 DEF Decode
    <3>2. DigitsRead(p9, Decode[f][1], Decode[f][2]) = DigitsOf("version", 2)
      BY <1>12, <3>1 DEF DigitsRead, f1
    <3>3. ContractReads[f] = <<4 * (66 - Decode[f][2]), 4 * 2>>
      BY <2>1 DEF ContractReads, Decode
    <3>4. 1 \in DOMAIN SwapStruct /\ SwapStruct[1][1] = f /\ SwapStruct[1][2] = 2
      BY <2>1 DEF SwapStruct
    <3> QED BY <2>1, <3>2, <3>3, <3>4
  <2>2. CASE f = "amount"
    <3>1. Decode[f][1] - 1 = 3 /\ Decode[f][2] - 2 = 12
      BY <2>2 DEF Decode
    <3>2. DigitsRead(p9, Decode[f][1], Decode[f][2]) = DigitsOf("amount", 10)
      BY <1>12, <3>1 DEF DigitsRead, f2
    <3>3. ContractReads[f] = <<4 * (66 - Decode[f][2]), 4 * 10>>
      BY <2>2 DEF ContractReads, Decode
    <3>4. 2 \in DOMAIN SwapStruct /\ SwapStruct[2][1] = f /\ SwapStruct[2][2] = 10
      BY <2>2 DEF SwapStruct
    <3> QED BY <2>2, <3>2, <3>3, <3>4
  <2>3. CASE f = "salt"
    <3>1. Decode[f][1] - 1 = 13 /\ Decode[f][2] - 2 = 32
      BY <2>3 DEF Decode
    <3>2. DigitsRead(p9, Decode[f][1], Decode[f][2]) = DigitsOf("salt", 20)
      BY <1>12, <3>1 DEF DigitsRead, f3
    <3>3. ContractReads[f] = <<4 * (66 - Decode[f][2]), 4 * 20>>
      BY <2>3 DEF ContractReads, Decode
    <3>4. 3 \in DOMAIN SwapStruct /\ SwapStruct[3][1] = f /\ SwapStruct[3][2] = 20
      BY <2>3 DEF SwapStruct
    <3> QED BY <2>3, <3>2, <3>3, <3>4
  <2>4. CASE f = "fee"
    <3>1. Decode[f][1] - 1 = 33 /\ Decode[f][2] - 2 = 42
      BY <2>4 DEF Decode
    <3>2. DigitsRead(p9, Decode[f][1], Decode[f][2]) = DigitsOf("fee", 10)
      BY <1>12, <3>1 DEF DigitsRead, f4
    <3>3. ContractReads[f] = <<4 * (66 - Decode[f][2]), 4 * 10>>
      BY <2>4 DEF ContractReads, Decode
    <3>4. 4 \in DOMAIN SwapStruct /\ SwapStruct[4][1] = f /\ SwapStruct[4][2] = 10
      BY <2>4 DEF SwapStruct
    <3> QED BY <2>4, <3>2, <3>3, <3>4
  <2>5. CASE f = "expireTs"
    <3>1. Decode[f][1] - 1 = 43 /\ Decode[f][2] - 2 = 52
      BY <2>5 DEF Decode
    <3>2. DigitsRead(p9, Decode[f][1], Decode[f][2]) = DigitsOf("expireTs", 10)
      BY <1>12, <3>1 DEF DigitsRead, f5
    <3>3. ContractReads[f] = <<4 * (66 - Decode[f][2]), 4 * 10>>
      BY <2>5 DEF ContractReads, Decode
    <3>4. 5 \in DOMAIN SwapStruct /\ SwapStruct[5][1] = f /\ SwapStruct[5][2] = 10
      BY <2>5 DEF SwapStruct
    <3> QED BY <2>5, <3>2, <3>3, <3>4
  <2>6. CASE f = "outChain"
    <3>1. Decode[f][1] - 1 = 53 /\ Decode[f][2] - 2 = 56
      BY <2>6 DEF Decode
    <3>2. DigitsRead(p9, Decode[f][1], Decode[f][2]) = DigitsOf("outChain", 4)
      BY <1>12, <3>1 DEF DigitsRead, f6
    <3>3. ContractReads[f] = <<4 * (66 - Decode[f][2]), 4 * 4>>
      BY <2>6 DEF ContractReads, Decode
    <3>4. 6 \in DOMAIN SwapStruct /\ SwapStruct[6][1] = f /\ SwapStruct[6][2] = 4
      BY <2>6 DEF SwapStruct
    <3> QED BY <2>6, <3>2, <3>3, <3>4
  <2>7. CASE f = "outToken"
    <3>1. Decode[f][1] - 1 = 57 /\ Decode[f][2] - 2 = 58
      BY <2>7 DEF Decode
    <3>2. DigitsRead(p9, Decode[f][1], Decode[f][2]) = DigitsOf("outToken", 2)
      BY <1>12, <3>1 DEF DigitsRead, f7
    <3>3. ContractReads[f] = <<4 * (66 - Decode[f][2]), 4 * 2>>
      BY <2>7 DEF ContractReads, Decode
    <3>4. 7 \in DOMAIN SwapStruct /\ SwapStruct[7][1] = f /\ SwapStruct[7][2] = 2
      BY <2>7 DEF SwapStruct
    <3> QED BY <2>7, <3>2, <3>3, <3>4
  <2>8. CASE f = "inChain"
    <3>1. Decode[f][1] - 1 = 59 /\ Decode[f][2] - 2 = 62
      BY <2>8 DEF Decode
    <3>2. DigitsRead(p9, Decode[f][1], Decode[f][2]) = DigitsOf("inChain", 4)
      BY <1>12, <3>1 DEF DigitsRead, f8
    <3>3. ContractReads[f] = <<4 * (66 - Decode[f][2]), 4 * 4>>
      BY <2>8 DEF ContractReads, Decode
    <3>4. 8 \in DOMAIN SwapStruct /\ SwapStruct[8][1] = f /\ SwapStruct[8][2] = 4
      BY <2>8 DEF SwapStruct
    <3> QED BY <2>8, <3>2, <3>3, <3>4
  <2>9. CASE f = "inToken"
    <3>1. Decode[f][1] - 1 = 63 /\ Decode[f][2] - 2 = 64
      BY <2>9 DEF Decode
    <3>2. DigitsRead(p9, Decode[f][1], Decode[f][2]) = DigitsOf("inToken", 2)
      BY <1>12, <3>1 DEF DigitsRead, f9
    <3>3. ContractReads[f] = <<4 * (66 - Decode[f][2]), 4 * 2>>
      BY <2>9 DEF ContractReads, Decode
    <3>4. 9 \in DOMAIN SwapStruct /\ SwapStruct[9][1] = f /\ SwapStruct[9][2] = 2
      BY <2>9 DEF SwapStruct
    <3> QED BY <2>9, <3>2, <3>3, <3>4
  <2> QED BY <2>1, <2>2, <2>3, <2>4, <2>5, <2>6, <2>7, <2>8, <2>9 DEF Decode
<1>14. \A i \in DOMAIN SwapStruct : SwapStruct[i][2] \in Nat
  BY DEF SwapStruct
<1>15. ASSUME NEW f \in DOMAIN Decode, NEW i \in DOMAIN SwapStruct
      PROVE  Size(DigitsOf(f, SwapStruct[i][2])) = SwapStruct[i][2]
  BY <1>14, DigitsOfField
<1> DEFINE here(f) == DigitsRead(p9, Decode[f][1], Decode[f][2])
<1>16. ASSUME NEW f \in DOMAIN Decode
       PROVE  /\ \E i \in DOMAIN SwapStruct :
                   SwapStruct[i][1] = f /\ here(f) = DigitsOf(f, SwapStruct[i][2])
              /\ ContractReads[f] = <<4 * (66 - Decode[f][2]), 4 * Len(here(f))>>
  <2>1. PICK i \in DOMAIN SwapStruct :
          /\ SwapStruct[i][1] = f /\ here(f) = DigitsOf(f, SwapStruct[i][2])
          /\ ContractReads[f] = <<4 * (66 - Decode[f][2]), 4 * SwapStruct[i][2]>>
    BY <1>13
  <2>2. Len(here(f)) = SwapStruct[i][2]
    BY <1>15, <2>1 DEF Size
  <2> HIDE DEF here
  <2> QED BY <2>1, <2>2
<1> QED BY <1>1, <1>16

\* The swap that is built from a request.
MadeFrom(r) ==
  [built |-> TRUE, amount |-> r.amount, fee |-> r.fee, inToken |-> r.inToken,
   outToken |-> r.outToken, header |-> FullSalt(r).header,
   data1 |-> FullSalt(r).data1, data2 |-> FullSalt(r).data2]

Short(n) == n \in Nat /\ n <= 65535

\* The data of a salt are two numbers of two bytes.
LEMMA SaltOfRequest ==
  ASSUME NEW r \in Requests, Constructible(r)
  PROVE  /\ FullSalt(r).header = FormatSaltHeader(r.options, r.trackId)
         /\ Short(FullSalt(r).data1) /\ Short(FullSalt(r).data2)
<1> DEFINE h == FormatSaltHeader(r.options, r.trackId)  s == [header |-> h]
<1>1. /\ r.price \in Int /\ r.core \in Int /\ r.pool \in Int /\ r.share \in Int
      /\ r.random \in Nat /\ r.random <= 65535
  BY EncodingAssumption
<1>2. /\ ForCoreToken(s) => /\ Compressible(r.price)
                            /\ r.core = Everything \/ Compressible(r.core \div 1000)
      /\ ~ ForCoreToken(s) /\ ShareWithPartner(s) =>
           65536 <= r.pool /\ r.pool <= 131071 /\ Compressible(r.share)
  BY DEF Constructible
<1>3. FullSalt(r) =
        IF ForCoreToken(s)
        THEN [header |-> h, data1 |-> CompressFixedPrecision(r.price),
              data2 |-> IF r.core = Everything THEN All
                        ELSE CompressFixedPrecision(r.core \div 1000)]
        ELSE IF ShareWithPartner(s)
        THEN [header |-> h, data1 |-> r.pool - 65536,
              data2 |-> CompressFixedPrecision(r.share)]
        ELSE [header |-> h, data1 |-> r.random, data2 |-> r.random]
  BY DEF FullSalt
<1> HIDE DEF h, s
<1>4. CASE ForCoreToken(s)
  <2>1. Short(CompressFixedPrecision(r.price))
    BY <1>1, <1>2, <1>4, CompressedIsShort DEF Short
  <2>2. r.core = Everything \/ Short(CompressFixedPrecision(r.core \div 1000))
    BY <1>1, <1>2, <1>4, CompressedIsShort DEF Short
  <2>3. Short(All)
    BY DEF Short, All
  <2> QED BY <1>3, <1>4, <2>1, <2>2, <2>3 DEF h
<1>5. CASE ~ ForCoreToken(s) /\ ShareWithPartner(s)
  <2>1. Short(CompressFixedPrecision(r.share))
    BY <1>1, <1>2, <1>5, CompressedIsShort DEF Short
  <2>2. Short(r.pool - 65536)
    BY <1>1, <1>2, <1>5 DEF Short
  <2> QED BY <1>3, <1>5, <2>1, <2>2 DEF h
<1>6. CASE ~ ForCoreToken(s) /\ ~ ShareWithPartner(s)
  <2>1. Short(r.random)
    BY <1>1 DEF Short
  <2> QED BY <1>3, <1>6, <2>1 DEF h
<1> QED BY <1>4, <1>5, <1>6

\* The service fee is the same on both sides.
LEMMA FeesAlike ==
  ASSUME NEW s, s.amount \in Nat, s.inToken \in Nat, SameMinimum(s.inToken),
         WillWaiveFee(s) <=> Bit(s.header, 16384)
  PROVE  ServiceFee(s) \in Nat /\ ServiceFee(s) = ContractFee(s)
<1>1. /\ MinServiceFee(s.inToken) = ContractMinimum(s.inToken)
      /\ MinServiceFee(s.inToken) \in Nat
  BY DEF SameMinimum, MinServiceFee, ContractMinimum
<1>2. (s.amount * 5) \div 10000 = s.amount \div 2000 /\ s.amount \div 2000 \in Nat
  OBVIOUS
<1>3. FullServiceFee(s) \in Nat
      /\ FullServiceFee(s) = AtLeast((s.amount * 5) \div 10000, ContractMinimum(s.inToken))
  BY <1>1, <1>2 DEF FullServiceFee, AtLeast
<1> QED BY <1>3 DEF ServiceFee, ContractFee

\* The SDK and the contract read a swap alike.
LEMMA Predicted ==
  ASSUME request \in Requests, Constructible(request), swap = MadeFrom(request)
  PROVE  SdkPredictsContract
<1> DEFINE o == request.options
<1>1. /\ swap.header = FormatSaltHeader(o, request.trackId)
      /\ Short(swap.data1) /\ Short(swap.data2)
      /\ swap.amount = request.amount /\ swap.fee = request.fee
      /\ swap.inToken = request.inToken /\ swap.outToken = request.outToken
  BY SaltOfRequest DEF MadeFrom
<1>2. /\ swap.amount \in Nat /\ swap.fee \in Nat /\ swap.inToken \in Nat /\ swap.outToken \in Nat
      /\ o \subseteq DOMAIN Header /\ request.trackId \in 0..15
  BY <1>1, EncodingAssumption DEF Constructible
<1>3. /\ swap.header % 16 = request.trackId
      /\ \A x \in DOMAIN Header : Bit(swap.header, Header[x]) <=> x \in o
      /\ WillTransferToContract(swap) <=> "notToContract" \notin o
      /\ WillWaiveFee(swap) <=> "waiveServiceFee" \in o
      /\ ForCoreToken(swap) <=> {"notToContract", "amountForCoreToken"} \subseteq o
      /\ NewFormat(swap) <=> "newFormatCoreToken" \in o
      /\ ShareWithPartner(swap) <=>
           /\ {"notToContract", "amountToShare"} \subseteq o
           /\ "amountForCoreToken" \notin o
      /\ NonTyped(swap) <=> "useNonTypedSigning" \in o
  BY <1>1, <1>2, HeaderTells
<1>4. /\ Bit(swap.header, 32768) <=> "notToContract" \in o
      /\ Bit(swap.header, 16384) <=> "waiveServiceFee" \in o
      /\ Bit(swap.header, 2048) <=> "useNonTypedSigning" \in o
      /\ Bit(swap.header, 1024) <=> "amountForCoreToken" \in o
      /\ Bit(swap.header, 512) <=> "amountToShare" \in o
      /\ Bit(swap.header, 16) <=> "newFormatCoreToken" \in o
  <2>1. /\ Header["notToContract"] = 32768 /\ Header["waiveServiceFee"] = 16384
        /\ Header["useNonTypedSigning"] = 2048 /\ Header["amountForCoreToken"] = 1024
        /\ Header["amountToShare"] = 512 /\ Header["newFormatCoreToken"] = 16
    BY DEF Header
  <2>2. {"notToContract", "waiveServiceFee", "useNonTypedSigning", "amountForCoreToken",
         "amountToShare", "newFormatCoreToken"} \subseteq DOMAIN Header
    BY DEF Header
  <2> QED BY ONLY <1>3, <2>1, <2>2
<1>5. ForCoreToken(swap) => NewFormat(swap)
  <2> DEFINE s == [header |-> FormatSaltHeader(o, request.trackId)]
  <2>1. /\ ForCoreToken(s) <=> {"notToContract", "amountForCoreToken"} \subseteq o
        /\ NewFormat(s) <=> "newFormatCoreToken" \in o
    <3>1. s.header = FormatSaltHeader(o, request.trackId)
      OBVIOUS
    <3> HIDE DEF s
    <3> QED BY <1>2, <3>1, HeaderTells
  <2>2. ForCoreToken(s) => NewFormat(s)
    BY DEF Constructible
  <2> HIDE DEF s
  <2> QED BY <1>3, <2>1, <2>2
<1> HIDE DEF o
<1> SUFFICES ASSUME ReadAlike(request), SameMinimum(swap.inToken), TotalFee(swap) <= swap.amount
             PROVE  /\ ReadsWhatWasPacked
                    /\ Receive(swap) = ContractReleases(swap)
                    /\ ServiceFee(swap) = ContractFee(swap)
                    /\ CoreTokenAmount(swap) = ContractCoreAmount(swap)
                    /\ CoreTokenThrows(swap) => CoreTokenPrice(swap) # request.price
                    /\ AmountToShare(swap) = ContractShare(swap)
                    /\ NonTyped(swap) = ContractNonTyped(swap)
  BY DEF SdkPredictsContract
<1>6. ReadsWhatWasPacked
  <2>1. {x \in DOMAIN Header : Bit(swap.header, Header[x])} = o
    BY <1>2, <1>3
  <2>2. ParseSaltHeader(swap.header) = [options |-> o, trackId |-> request.trackId]
    BY <1>3, <2>1 DEF ParseSaltHeader
  <2> QED BY <2>2, ReadAsPacked DEF ReadsWhatWasPacked, o
<1>7. ServiceFee(swap) \in Nat /\ ServiceFee(swap) = ContractFee(swap)
  BY <1>2, <1>3, <1>4, FeesAlike
<1>8. /\ TotalFee(swap) = ServiceFee(swap) + swap.fee
      /\ swap.amount - TotalFee(swap) \in Nat
      /\ swap.amount - TotalFee(swap) = swap.amount - swap.fee - ContractFee(swap)
  BY <1>2, <1>7 DEF TotalFee
<1>9. ContractForCore(swap) <=> ForCoreToken(swap)
  <2>1. {"notToContract", "amountForCoreToken"} \subseteq o => swap.outToken < 191
    BY <1>1 DEF ReadAlike, o
  <2> QED BY <1>3, <1>4, <1>5, <2>1 DEF ContractForCore
<1>10. /\ DecompressFixedPrecision(swap.data1) \in Nat
       /\ ContractDecompress(swap.data1) = DecompressFixedPrecision(swap.data1)
       /\ DecompressFixedPrecision(swap.data2) \in Nat
       /\ ContractDecompress(swap.data2) = DecompressFixedPrecision(swap.data2)
  BY <1>1, DecompressAlike DEF Short
<1>11. /\ AmountForCoreToken(swap) \in Nat
       /\ ContractCoreValue(swap) = AmountForCoreToken(swap)
  BY <1>8, <1>9, <1>10 DEF AmountForCoreToken, ContractCoreValue, All
<1>12. CoreTokenAmount(swap) = ContractCoreAmount(swap)
  BY <1>10, <1>11 DEF CoreTokenAmount, ContractCoreAmount, CoreTokenPrice
<1>13. ContractShares(swap) <=> ShareWithPartner(swap)
  BY <1>3, <1>4 DEF ContractShares
<1>14. AmountToShare(swap) \in Nat /\ AmountToShare(swap) = ContractShare(swap)
  <2>1. ShareWithPartner(swap) => PoolIndexToShare(swap) # 0
    BY <1>1 DEF PoolIndexToShare, Short
  <2>2. ~ ShareWithPartner(swap) => PoolIndexToShare(swap) = 0
    BY DEF PoolIndexToShare
  <2> QED BY <1>10, <1>13, <2>1, <2>2 DEF AmountToShare, ContractShare
<1>15. Receive(swap) = ContractReleases(swap)
  BY <1>2, <1>7, <1>8, <1>11, <1>14 DEF Receive, ContractReleases
<1>16. NonTyped(swap) = ContractNonTyped(swap)
  BY <1>3, <1>4 DEF ContractNonTyped, NonTyped, Bit
<1>17. CoreTokenThrows(swap) => CoreTokenPrice(swap) # request.price
  <2> SUFFICES ASSUME CoreTokenThrows(swap)
               PROVE  request.price \notin InexactPrices
    BY DEF CoreTokenThrows
  <2>1. AmountForCoreToken(swap) # 0
    BY DEF CoreTokenThrows
  <2>2. ForCoreToken(swap)
    BY <2>1 DEF AmountForCoreToken
  <2> DEFINE s == [header |-> FormatSaltHeader(o, request.trackId)]
  <2>3. ForCoreToken(s)
    <3>1. s.header = FormatSaltHeader(o, request.trackId)
      OBVIOUS
    <3> HIDE DEF s
    <3> QED BY <1>2, <1>3, <2>2, <3>1, HeaderTells
  <2>4. ForCoreToken(s) => request.price \notin InexactPrices
    BY DEF Constructible, o
  <2> QED BY <2>3, <2>4
<1> QED BY <1>6, <1>7, <1>12, <1>14, <1>15, <1>16, <1>17

\* What the SDK tells a user of a swap is what the contract makes of its 32
\* bytes, for any amounts, fees, coins, options, prices and shares.
THEOREM SdkPredicts == EncodingSpec => []SdkPredictsContract
<1> DEFINE Built == request \in Requests
                    /\ (swap = NoSwap \/ (Constructible(request) /\ swap = MadeFrom(request)))
<1>1. EncodingInit => Built
  BY DEF EncodingInit
<1>2. Built /\ [EncodingNext]_encodingVars => Built'
  <2> SUFFICES ASSUME Built, [EncodingNext]_encodingVars PROVE Built'
    OBVIOUS
  <2>1. CASE NewSwap
    <3>1. request' = request /\ swap' = MadeFrom(request) /\ Constructible(request)
      BY <2>1 DEF NewSwap, MadeFrom
    <3>2. Constructible(request)' /\ MadeFrom(request)' = MadeFrom(request)
      BY <3>1 DEF Constructible, MadeFrom, FullSalt
    <3> QED BY <3>1, <3>2
  <2>2. CASE UNCHANGED encodingVars
    <3>1. request' = request /\ swap' = swap
      BY <2>2 DEF encodingVars
    <3>2. Constructible(request)' = Constructible(request) /\ MadeFrom(request)' = MadeFrom(request)
      BY <3>1 DEF Constructible, MadeFrom, FullSalt
    <3> QED BY <3>1, <3>2
  <2> QED BY <2>1, <2>2 DEF EncodingNext
<1>3. Built => SdkPredictsContract
  <2>1. CASE swap = NoSwap
    <3>1. ~ swap.built
      BY <2>1 DEF NoSwap
    <3> QED BY <3>1 DEF SdkPredictsContract
  <2> QED BY <2>1, Predicted
<1> QED BY <1>1, <1>2, <1>3, PTL DEF EncodingSpec

-----------------------------------------------------------------------------
(* What is sent is what is read. *)

CallsSpec == CallsInit /\ [][CallsNext]_callVars

\* A part of what comes behind w is a part of the whole, further back.
LEMMA PartsBehind ==
  ASSUME NEW w \in Strings, NEW t \in Strings, NEW s \in Strings, NEW from \in Nat,
         PartAt(t, s, from)
  PROVE  PartAt(Joined(w, t), s, Size(w) + from)
<1> DEFINE T == Fields \X Nat
<1>0. \A x : Size(x) = Len(x)
  BY DEF Size
<1>1. /\ w \in Seq(T) /\ t \in Seq(T) /\ s \in Seq(T)
      /\ Len(w \o t) = Len(w) + Len(t) /\ Joined(w, t) = w \o t
  BY ConcatProperties DEF Strings, Joined
<1> HIDE DEF T
<1>2. Len(w) \in Nat /\ Len(t) \in Nat /\ Len(s) \in Nat
  BY <1>1
<1>3. Len(s) > 0 /\ from + Len(s) <= Len(t) /\ SubSeq(t, from + 1, from + Len(s)) = s
  BY <1>0 DEF PartAt
<1>4. /\ Len(w) + from + 1 \in Len(w) + 1 .. Len(w) + Len(t)
      /\ Len(w) + from + Len(s) \in Len(w) + 1 .. Len(w) + Len(t)
  BY <1>2, <1>3
<1>5. SubSeq(w \o t, Len(w) + from + 1, Len(w) + from + Len(s))
        = SubSeq(t, Len(w) + from + 1 - Len(w), Len(w) + from + Len(s) - Len(w))
  BY <1>1, <1>4, SubSeqOfConcat2
<1>6. Len(w) + from + 1 - Len(w) = from + 1 /\ Len(w) + from + Len(s) - Len(w) = from + Len(s)
  BY <1>2
<1>7. SubSeq(w \o t, Len(w) + from + 1, Len(w) + from + Len(s)) = s
  BY <1>3, <1>5, <1>6
<1>8. Len(w) + from \in Nat /\ Len(w) + from + Len(s) <= Len(w \o t)
  BY <1>1, <1>2, <1>3
<1> QED BY <1>0, <1>1, <1>3, <1>7, <1>8 DEF PartAt

\* A string is a part of itself.
LEMMA PartOfItself ==
  ASSUME NEW s \in Strings, Size(s) > 0
  PROVE  PartAt(s, s, 0) /\ Size(s) \in Nat
<1>1. SubSeq(s, 1, Len(s)) = s /\ Len(s) \in Nat
  BY SubSeqFull DEF Strings
<1> QED BY <1>1 DEF PartAt, Size

\* Four strings in a row.
Row(a, b, c, d) == a \o b \o c \o d

InARow(w, a, b, c, d) ==
  /\ w \in Strings /\ Size(w) = Size(a) + Size(b) + Size(c) + Size(d)
  /\ PartAt(w, a, 0) /\ PartAt(w, b, Size(a))
  /\ PartAt(w, c, Size(a) + Size(b)) /\ PartAt(w, d, Size(a) + Size(b) + Size(c))

\* Four strings in a row are where the ones before them end.
LEMMA FourParts ==
  ASSUME NEW a \in Strings, NEW b \in Strings, NEW c \in Strings, NEW d \in Strings,
         Size(a) > 0, Size(b) > 0, Size(c) > 0, Size(d) > 0
  PROVE  InARow(Row(a, b, c, d), a, b, c, d)
<1> DEFINE ab == Joined(a, b)
           abc == Joined(ab, c)
           w == Joined(abc, d)
<1>0. w = Row(a, b, c, d)
  BY DEF Joined, Row
<1>1. Size(a) \in Nat /\ Size(b) \in Nat /\ Size(c) \in Nat /\ Size(d) \in Nat /\ PartAt(a, a, 0)
  BY PartOfItself
<1>2. /\ ab \in Strings /\ Size(ab) = Size(a) + Size(b)
      /\ PartAt(ab, a, 0) /\ PartAt(ab, b, Size(a))
  BY <1>1, PartsOfTwo
<1> HIDE DEF ab
<1>3. /\ abc \in Strings /\ Size(abc) = Size(a) + Size(b) + Size(c)
      /\ PartAt(abc, a, 0) /\ PartAt(abc, b, Size(a)) /\ PartAt(abc, c, Size(a) + Size(b))
  BY <1>1, <1>2, PartsOfTwo
<1> HIDE DEF abc
<1>4. /\ w \in Strings /\ Size(w) = Size(a) + Size(b) + Size(c) + Size(d)
      /\ PartAt(w, a, 0) /\ PartAt(w, b, Size(a)) /\ PartAt(w, c, Size(a) + Size(b))
      /\ PartAt(w, d, Size(a) + Size(b) + Size(c))
  <2>1. Size(a) + Size(b) \in Nat
    BY <1>1
  <2> QED BY <1>1, <1>3, <2>1, PartsOfTwo
<1> HIDE DEF w
<1> QED BY <1>0, <1>4 DEF InARow

\* A part is read back by its bounds.
LEMMA ReadBack ==
  ASSUME NEW w \in Strings, NEW s \in Strings, NEW from \in Nat, NEW to \in Nat,
         PartAt(w, s, from), to = from + Size(s)
  PROVE  Part(w, from, to) = s /\ Substring(w, from + 2, to + 2) = s
<1>1. Size(w) = Len(w) /\ Len(w) \in Nat /\ Size(s) \in Nat
  BY DEF Size, Strings
<1>2. to <= Len(w) /\ SubSeq(w, from + 1, to) = s
  BY <1>1 DEF PartAt
<1>3. (IF to < Len(w) THEN to ELSE Len(w)) = to
  BY <1>1, <1>2
<1>4. Part(w, from, to) = s
  BY <1>2, <1>3 DEF Part
<1>5. from + 2 - 2 = from /\ to + 2 - 2 = to
  OBVIOUS
<1> QED BY <1>4, <1>5 DEF Substring

\* What is cut out of a string is a string.
LEMMA CutOut ==
  ASSUME NEW w \in Strings, NEW from \in Nat, NEW to \in Nat, from < to, to <= Size(w)
  PROVE  Part(w, from, to) \in Strings /\ Size(Part(w, from, to)) = to - from
<1> DEFINE T == Fields \X Nat
<1>1. w \in Seq(T) /\ Size(w) = Len(w) /\ Len(w) \in Nat
  BY DEF Size, Strings
<1> HIDE DEF T
<1>2. \A i \in from + 1 .. to : w[i] \in T
  BY <1>1
<1>3. SubSeq(w, from + 1, to) \in Seq(T) /\ Len(SubSeq(w, from + 1, to)) = to - from
  <2>1. from + 1 \in Int /\ to \in Int /\ from + 1 <= to /\ to - (from + 1) + 1 = to - from
    OBVIOUS
  <2> QED BY <1>2, <2>1, SubSeqProperties
<1>4. (IF to < Len(w) THEN to ELSE Len(w)) = to
  BY <1>1
<1> QED BY <1>3, <1>4 DEF Part, Size, Strings, T

\* The digits of a field.
LEMMA HexString ==
  ASSUME NEW field \in Fields, NEW n \in Nat
  PROVE  Hex(field, n) \in Strings /\ Size(Hex(field, n)) = n
BY DEF Hex, Strings, Size

\* A sequence of digits is a string.
LEMMA DigitString ==
  ASSUME NEW n \in Nat, NEW s \in [1..n -> Fields \X Nat]
  PROVE  s \in Strings /\ Size(s) = n
BY DEF Strings, Size

\* Zeros.
LEMMA ZeroString ==
  ASSUME NEW n \in Nat
  PROVE  Zeros(n) \in Strings /\ Size(Zeros(n)) = n
<1>1. <<"zero", 0>> \in Fields \X Nat
  BY DEF Fields
<1>2. Zeros(n) \in [1..n -> Fields \X Nat]
  BY <1>1 DEF Zeros
<1> QED BY <1>2 DEF Strings, Size

\* What a call is made of.
LEMMA Pieces ==
  /\ Encoded \in Strings /\ Size(Encoded) = 64
  /\ R \in Strings /\ Size(R) = 64
  /\ YParityAndS \in Strings /\ Size(YParityAndS) = 64
  /\ Initiator \in Strings /\ Size(Initiator) = 40
  /\ PoolIndex \in Strings /\ Size(PoolIndex) = 10
<1>1. {"encoded", "r", "yParityAndS", "initiator", "poolIndex"} \subseteq Fields
  BY DEF Fields
<1>2. 64 \in Nat /\ 40 \in Nat /\ 10 \in Nat
  OBVIOUS
<1> QED BY <1>1, <1>2, HexString DEF Encoded, R, YParityAndS, Initiator, PoolIndex

\* The recipient of a call, and what executeSwap keeps of it.
LEMMA Recipients ==
  ASSUME NEW c \in Calls
  PROVE  /\ Recipient(c) \in Strings /\ Size(Recipient(c)) = c.digits
         /\ ClipRecipient(Recipient(c)) \in Strings /\ Size(ClipRecipient(Recipient(c))) = 40
<1>1. c.digits = 40 \/ c.digits = 64
  BY DEF Calls
<1>2. "recipient" \in Fields
  BY DEF Fields
<1>3. Recipient(c) \in Strings /\ Size(Recipient(c)) = c.digits
  BY <1>1, <1>2, HexString DEF Recipient
<1>4. 0 < 40 /\ 40 <= Size(Recipient(c)) /\ 40 - 0 = 40
  BY <1>1, <1>3
<1>5. ClipRecipient(Recipient(c)) \in Strings /\ Size(ClipRecipient(Recipient(c))) = 40
  BY <1>3, <1>4, CutOut DEF ClipRecipient
<1> QED BY <1>3, <1>5

\* Two strings in a row.
LEMMA TwoParts ==
  ASSUME NEW a \in Strings, NEW b \in Strings, Size(a) > 0, Size(b) > 0
  PROVE  /\ a \o b \in Strings /\ Size(a \o b) = Size(a) + Size(b)
         /\ PartAt(a \o b, a, 0) /\ PartAt(a \o b, b, Size(a))
<1>1. Size(a) \in Nat /\ PartAt(a, a, 0)
  BY PartOfItself
<1> QED BY <1>1, PartsOfTwo DEF Joined

\* The posting value is taken apart where it was put together.
LEMMA PostingValue ==
  /\ Initiator \o PoolIndex \in Strings /\ Size(Initiator \o PoolIndex) = 50
  /\ Part(Initiator \o PoolIndex, 0, 40) = Initiator
  /\ Part(Initiator \o PoolIndex, 40, 50) = PoolIndex
<1> DEFINE w == Initiator \o PoolIndex
<1>1. /\ w \in Strings /\ Size(w) = 50
      /\ PartAt(w, Initiator, 0) /\ PartAt(w, PoolIndex, 40)
  BY Pieces, TwoParts
<1> HIDE DEF w
<1>2. 40 = 0 + Size(Initiator) /\ 50 = 40 + Size(PoolIndex)
  BY Pieces
<1>3. Part(w, 0, 40) = Initiator
  BY <1>1, <1>2, Pieces, ReadBack
<1>4. Part(w, 40, 50) = PoolIndex
  BY <1>1, <1>2, Pieces, ReadBack
<1> QED BY <1>1, <1>3, <1>4 DEF w

\* The signature that a call sends: zeros, where it is too late for one.
LEMMA SignatureSent ==
  ASSUME NEW c
  PROVE  /\ SentR(c) \in Strings /\ Size(SentR(c)) = 64
         /\ SentYParityAndS(c) \in Strings /\ Size(SentYParityAndS(c)) = 64
         /\ c.method # "directRelease" => SentR(c) = R /\ SentYParityAndS(c) = YParityAndS
<1>1. Zeros(64) \in Strings /\ Size(Zeros(64)) = 64
  BY ZeroString
<1> QED BY <1>1, Pieces DEF SentR, SentYParityAndS, Outdated

\* The two halves of a compact signature.
Compact(c) == SentR(c) \o SentYParityAndS(c)
LEMMA Halves ==
  ASSUME NEW c
  PROVE  /\ Compact(c) \in Strings /\ Size(Compact(c)) = 128
         /\ Signature(Compact(c)).r = SentR(c)
         /\ Signature(Compact(c)).yParityAndS = SentYParityAndS(c)
<1> DEFINE w == Compact(c)
           r == SentR(c)
           y == SentYParityAndS(c)
<1>0. r \in Strings /\ Size(r) = 64 /\ y \in Strings /\ Size(y) = 64
  BY SignatureSent
<1>1. /\ w \in Strings /\ Size(w) = 128
      /\ PartAt(w, r, 0) /\ PartAt(w, y, 64)
  <2>1. w = r \o y
    BY DEF Compact
  <2> HIDE DEF w, r, y
  <2> QED BY <1>0, <2>1, TwoParts
<1> HIDE DEF w, r, y
<1>2. 64 = 0 + Size(r) /\ 128 = 64 + Size(y)
  BY <1>0
<1>3. Part(w, 0, 64) = r
  BY <1>0, <1>1, <1>2, ReadBack
<1>4. Part(w, 64, 128) = y
  BY <1>0, <1>1, <1>2, ReadBack
<1>5. Signature(w).r = r /\ Signature(w).yParityAndS = y
  BY <1>3, <1>4 DEF Signature
<1> QED BY <1>1, <1>5 DEF w, r, y

\* What the parsed transaction p tells of a call.
Tells(c, bytes, p) ==
  /\ p.method = c.method
  /\ p.encoded = Encoded
  /\ c.method = "postSwapFromInitiator" => p.postingValue = Initiator \o PoolIndex
  /\ c.method \in {"lockSwap", "unlock", "directExecuteSwap", "release", "directRelease"} =>
       p.initiator = InitiatorTold(c, [bytes |-> bytes])
  /\ p.recipient = If(TellsRecipient(c), RecipientSent(c))
  /\ c.method \in Signed => (p.r = SentR(c) /\ p.yParityAndS = SentYParityAndS(c))

\* The calls of the other chains.
Elsewhere == SwapMethods \ {"directExecuteSwap"}

\* Away from Aptos, the initiator is the one that was sent.
LEMMA InitiatorAsIs ==
  ASSUME NEW c, NEW t, c.chain # "aptos"
  PROVE  InitiatorTold(c, t) = Initiator
BY DEF InitiatorTold

\* The recipient of a swap that is executed.
LEMMA ClippedOne ==
  ASSUME NEW c, c.method \in {"executeSwap", "directExecuteSwap"}
  PROVE  TellsRecipient(c) /\ RecipientSent(c) = ClipRecipient(Recipient(c))
BY DEF TellsRecipient, RecipientSent, ClipsRecipient

\* Sui shows what it was given.
LEMMA SuiTells ==
  ASSUME NEW c \in Calls, NEW bytes \in BOOLEAN, c.chain = "sui",
         c.method # "directExecuteSwap"
  PROVE  Tells(c, bytes, SuiParse(c.method, MoveArguments(c)))
<1> DEFINE a == MoveArguments(c)
           p == SuiParse(c.method, a)
           all == InitiatorTold(c, [bytes |-> bytes])
<1> SUFFICES Tells(c, bytes, p)
  OBVIOUS
<1>1. /\ p.method = c.method /\ all = Initiator
      /\ c.method \notin {"executeSwap", "directRelease"} => p.recipient = Undefined
      /\ TellsRecipient(c) <=> c.method \in {"executeSwap", "directRelease"}
  BY InitiatorAsIs DEF SuiParse, If, TellsRecipient, ClipsRecipient
<1>2. c.method \in Elsewhere
  BY DEF Calls, Elsewhere
<1> HIDE DEF all
<1>3. CASE c.method = "postSwapFromInitiator"
  <2>1. a[1] = Encoded /\ a[2] = Initiator /\ a[3] = PoolIndex
    BY <1>3, PostingValue DEF MoveArguments, Args
  <2>2. p.encoded = Encoded /\ p.postingValue = Initiator \o PoolIndex
    BY <1>3, <2>1 DEF SuiParse, If
  <2> QED BY <1>1, <1>3, <2>2 DEF Tells, Signed, If
<1>4. CASE c.method \in {"bondSwap", "cancelSwap"}
  <2>1. a[1] = Encoded
    BY <1>4 DEF MoveArguments, Args
  <2>2. p.encoded = Encoded
    BY <2>1 DEF SuiParse
  <2> HIDE DEF p
  <2> QED BY <1>1, <1>4, <2>2 DEF Tells, Signed, If
<1>5. CASE c.method \in {"lockSwap", "unlock"}
  <2>1. a[1] = Encoded /\ a[2] = Initiator
    <3>1. CASE c.method = "lockSwap"
      BY <3>1 DEF MoveArguments, Args
    <3>2. CASE c.method = "unlock"
      BY <3>2 DEF MoveArguments, Args
    <3> QED BY <1>5, <3>1, <3>2
  <2>2. p.encoded = Encoded /\ p.initiator = Initiator
    BY <1>5, <2>1 DEF SuiParse
  <2> HIDE DEF p
  <2> QED BY <1>1, <1>5, <2>2 DEF Tells, Signed, If, all
<1>6. CASE c.method = "executeSwap"
  <2>1. a[1] = Encoded /\ a[2] = Compact(c) /\ a[3] = ClipRecipient(Recipient(c))
    BY <1>6, SignatureSent DEF MoveArguments, Args, Compact
  <2>2. p.r = SentR(c) /\ p.yParityAndS = SentYParityAndS(c)
    BY <1>6, <2>1, Halves DEF SuiParse, If, Signed
  <2>3. p.encoded = Encoded /\ p.recipient = ClipRecipient(Recipient(c))
    BY <1>6, <2>1 DEF SuiParse
  <2> HIDE DEF p
  <2> QED BY <1>1, <1>6, <2>2, <2>3, ClippedOne DEF Tells, If
<1>7. CASE c.method \in {"release", "directRelease"}
  <2>1. /\ a[1] = Encoded /\ a[2] = Compact(c) /\ a[3] = Initiator
        /\ c.method = "directRelease" => a[4] = Recipient(c)
    <3>1. CASE c.method = "release"
      BY <3>1 DEF MoveArguments, Args, Compact
    <3>2. CASE c.method = "directRelease"
      BY <3>2 DEF MoveArguments, Args, Compact
    <3> QED BY <1>7, <3>1, <3>2
  <2>2. p.r = SentR(c) /\ p.yParityAndS = SentYParityAndS(c)
    BY <1>7, <2>1, Halves DEF SuiParse, If, Signed
  <2>3. p.encoded = Encoded /\ p.initiator = Initiator
    BY <1>7, <2>1 DEF SuiParse, If
  <2>4. p.recipient = If(TellsRecipient(c), RecipientSent(c))
    <3>1. c.method = "directRelease" => p.recipient = Recipient(c)
      BY <2>1 DEF SuiParse, If
    <3>2. RecipientSent(c) = Recipient(c)
      BY <1>7 DEF RecipientSent, ClipsRecipient
    <3> HIDE DEF p
    <3> QED BY <1>1, <1>7, <3>1, <3>2 DEF If
  <2> HIDE DEF p
  <2> QED BY <1>1, <1>7, <2>2, <2>3, <2>4 DEF Tells, all
<1> QED BY <1>2, <1>3, <1>4, <1>5, <1>6, <1>7 DEF SwapMethods, Elsewhere

\* An argument is found by its name.
LEMMA ByName ==
  ASSUME NEW inputs, NEW a, NEW f, NEW k \in DOMAIN inputs, inputs[k] = f,
         \A i \in DOMAIN inputs : inputs[i] = f => i = k
  PROVE  a[CHOOSE i \in DOMAIN inputs : inputs[i] = f] = a[k]
OBVIOUS

\* Starknet: the names of the interface stand in the order of the arguments.
LEMMA StarknetTells ==
  ASSUME NEW c \in Calls, NEW bytes \in BOOLEAN, c.chain = "starknet"
  PROVE  Tells(c, bytes, StarknetParse(c.method, StarknetArguments(c)))
<1> DEFINE a == StarknetArguments(c)
           p == StarknetParse(c.method, a)
           inputs == StarknetInputs(c.method)
           at(f) == a[CHOOSE i \in DOMAIN inputs : inputs[i] = f]
<1>1. /\ p.method = c.method /\ p.encoded = at("encoded")
      /\ p.postingValue = If(c.method = "postSwapFromInitiator", at("postingValue"))
      /\ p.initiator = If(c.method \in {"lockSwap", "unlock", "directExecuteSwap", "release",
                                        "directRelease"}, at("initiator"))
      /\ p.recipient = If(TellsRecipient(c), at("recipient"))
      /\ p.r = If(c.method \in Signed, at("r"))
      /\ p.yParityAndS = If(c.method \in Signed, at("yParityAndS"))
  <2>1. (c.method \in {"lockSwap", "directRelease"} \cup ClipsRecipient) <=> TellsRecipient(c)
    BY DEF TellsRecipient, ClipsRecipient
  <2> HIDE DEF at
  <2> QED BY <2>1 DEF StarknetParse, If, at, inputs
<1>0. InitiatorTold(c, [bytes |-> bytes]) = Initiator
  BY InitiatorAsIs
<1>2. c.method \in SwapMethods
  BY DEF Calls
<1>3. CASE c.method = "postSwapFromInitiator"
  <2>1. a[1] = Encoded /\ a[2] = Initiator \o PoolIndex
    BY <1>3 DEF StarknetArguments, Args
  <2>2. /\ DOMAIN inputs = 1..2
        /\ inputs[1] = "encoded" /\ inputs[2] = "postingValue"
    BY <1>3 DEF StarknetInputs
  <2> HIDE DEF inputs
  <2>3. at("encoded") = a[1] /\ at("postingValue") = a[2]
    BY <2>2, ByName
  <2> HIDE DEF at
  <2> QED BY <1>0, <1>1, <1>3, <2>1, <2>3 DEF Tells, If, Signed, TellsRecipient, ClipsRecipient
<1>4. CASE c.method = "bondSwap"
  <2>1. a[1] = Encoded
    BY <1>4 DEF StarknetArguments, Args
  <2>2. /\ DOMAIN inputs = 1..2
        /\ inputs[1] = "encoded" /\ inputs[2] = "poolIndex"
    BY <1>4 DEF StarknetInputs
  <2> HIDE DEF inputs
  <2>3. at("encoded") = a[1]
    BY <2>2, ByName
  <2> HIDE DEF at
  <2> QED BY <1>0, <1>1, <1>4, <2>1, <2>3 DEF Tells, If, Signed, TellsRecipient, ClipsRecipient
<1>5. CASE c.method = "cancelSwap"
  <2>1. a[1] = Encoded
    BY <1>5 DEF StarknetArguments, Args
  <2>2. /\ DOMAIN inputs = 1..1
        /\ inputs[1] = "encoded"
    BY <1>5 DEF StarknetInputs
  <2> HIDE DEF inputs
  <2>3. at("encoded") = a[1]
    BY <2>2, ByName
  <2> HIDE DEF at
  <2> QED BY <1>0, <1>1, <1>5, <2>1, <2>3 DEF Tells, If, Signed, TellsRecipient, ClipsRecipient
<1>6. CASE c.method = "lockSwap"
  <2>1. a[1] = Encoded /\ a[2] = Initiator /\ a[3] = Recipient(c)
    BY <1>6 DEF StarknetArguments, Args
  <2>2. /\ DOMAIN inputs = 1..3
        /\ inputs[1] = "encoded" /\ inputs[2] = "initiator" /\ inputs[3] = "recipient"
    BY <1>6 DEF StarknetInputs
  <2> HIDE DEF inputs
  <2>3. at("encoded") = a[1] /\ at("initiator") = a[2] /\ at("recipient") = a[3]
    BY <2>2, ByName
  <2> HIDE DEF at
  <2>4. TellsRecipient(c) /\ RecipientSent(c) = Recipient(c)
    BY <1>6 DEF TellsRecipient, RecipientSent, ClipsRecipient
  <2> QED BY <1>0, <1>1, <1>6, <2>1, <2>3, <2>4 DEF Tells, If, Signed
<1>7. CASE c.method = "unlock"
  <2>1. a[1] = Encoded /\ a[2] = Initiator
    BY <1>7 DEF StarknetArguments, Args
  <2>2. /\ DOMAIN inputs = 1..2
        /\ inputs[1] = "encoded" /\ inputs[2] = "initiator"
    BY <1>7 DEF StarknetInputs
  <2> HIDE DEF inputs
  <2>3. at("encoded") = a[1] /\ at("initiator") = a[2]
    BY <2>2, ByName
  <2> HIDE DEF at
  <2> QED BY <1>0, <1>1, <1>7, <2>1, <2>3 DEF Tells, If, Signed, TellsRecipient, ClipsRecipient
<1>8. CASE c.method = "executeSwap"
  <2>1. a[1] = Encoded /\ a[2] = R /\ a[3] = YParityAndS /\ a[4] = ClipRecipient(Recipient(c))
    BY <1>8 DEF StarknetArguments, Args
  <2>2. /\ DOMAIN inputs = 1..4
        /\ inputs[1] = "encoded" /\ inputs[2] = "r" /\ inputs[3] = "yParityAndS" /\ inputs[4] = "recipient"
    BY <1>8 DEF StarknetInputs
  <2> HIDE DEF inputs
  <2>3. at("encoded") = a[1] /\ at("r") = a[2] /\ at("yParityAndS") = a[3] /\ at("recipient") = a[4]
    <3>1. at("encoded") = a[1]
      BY <2>2, ByName
    <3>2. at("r") = a[2]
      BY <2>2, ByName
    <3>3. at("yParityAndS") = a[3]
      BY <2>2, ByName
    <3>4. at("recipient") = a[4]
      BY <2>2, ByName
    <3> QED BY <3>1, <3>2, <3>3, <3>4
  <2> HIDE DEF at
  <2> QED BY <1>1, <1>8, <2>1, <2>3, ClippedOne, SignatureSent DEF Tells, If, Signed
<1>9. CASE c.method = "release"
  <2>1. a[1] = Encoded /\ a[2] = SentR(c) /\ a[3] = SentYParityAndS(c) /\ a[4] = Initiator
    BY <1>9 DEF StarknetArguments, Args
  <2>2. /\ DOMAIN inputs = 1..4
        /\ inputs[1] = "encoded" /\ inputs[2] = "r" /\ inputs[3] = "yParityAndS" /\ inputs[4] = "initiator"
    BY <1>9 DEF StarknetInputs
  <2> HIDE DEF inputs
  <2>3. at("encoded") = a[1] /\ at("r") = a[2] /\ at("yParityAndS") = a[3] /\ at("initiator") = a[4]
    <3>1. at("encoded") = a[1]
      BY <2>2, ByName
    <3>2. at("r") = a[2]
      BY <2>2, ByName
    <3>3. at("yParityAndS") = a[3]
      BY <2>2, ByName
    <3>4. at("initiator") = a[4]
      BY <2>2, ByName
    <3> QED BY <3>1, <3>2, <3>3, <3>4
  <2> HIDE DEF at
  <2> QED BY <1>0, <1>1, <1>9, <2>1, <2>3 DEF Tells, If, Signed, TellsRecipient, ClipsRecipient
<1>10. CASE c.method \in {"directExecuteSwap", "directRelease"}
  <2>1. /\ a[1] = Encoded /\ a[2] = SentR(c) /\ a[3] = SentYParityAndS(c)
        /\ a[4] = Initiator /\ a[5] = RecipientSent(c)
    <3>1. CASE c.method = "directExecuteSwap"
      BY <3>1, SignatureSent DEF StarknetArguments, Args, RecipientSent, ClipsRecipient
    <3>2. CASE c.method = "directRelease"
      BY <3>2 DEF StarknetArguments, Args, RecipientSent, ClipsRecipient
    <3> QED BY <1>10, <3>1, <3>2
  <2>2. /\ DOMAIN inputs = 1..5
        /\ inputs[1] = "encoded" /\ inputs[2] = "r" /\ inputs[3] = "yParityAndS" /\ inputs[4] = "initiator" /\ inputs[5] = "recipient"
    BY <1>10 DEF StarknetInputs
  <2> HIDE DEF inputs
  <2>3. /\ at("encoded") = a[1] /\ at("r") = a[2] /\ at("yParityAndS") = a[3]
        /\ at("initiator") = a[4] /\ at("recipient") = a[5]
    <3>1. at("encoded") = a[1]
      BY <2>2, ByName
    <3>2. at("r") = a[2]
      BY <2>2, ByName
    <3>3. at("yParityAndS") = a[3]
      BY <2>2, ByName
    <3>4. at("initiator") = a[4]
      BY <2>2, ByName
    <3>5. at("recipient") = a[5]
      BY <2>2, ByName
    <3> QED BY <3>1, <3>2, <3>3, <3>4, <3>5
  <2> HIDE DEF at
  <2>4. TellsRecipient(c)
    BY <1>10 DEF TellsRecipient, ClipsRecipient
  <2> QED BY <1>0, <1>1, <1>10, <2>1, <2>3, <2>4 DEF Tells, If, Signed
<1> QED BY <1>2, <1>3, <1>4, <1>5, <1>6, <1>7, <1>8, <1>9, <1>10 DEF SwapMethods

\* A signature in the middle of a string is one part of it.
LEMMA SignatureInside ==
  ASSUME NEW c, NEW a \in Strings, NEW d \in Strings, Size(a) > 0, Size(d) > 0
  PROVE  LET w == a \o SentR(c) \o SentYParityAndS(c) \o d
         IN  /\ w \in Strings /\ Size(w) = Size(a) + 128 + Size(d)
             /\ PartAt(w, a, 0) /\ PartAt(w, Compact(c), Size(a))
             /\ PartAt(w, d, Size(a) + 128)
<1> DEFINE s == Compact(c)
<1>1. s \in Strings /\ Size(s) = 128
  BY Halves
<1>2. a \o SentR(c) \o SentYParityAndS(c) = a \o s
  <2> DEFINE T == Fields \X Nat
             r == SentR(c)
             y == SentYParityAndS(c)
  <2>1. a \in Seq(T) /\ r \in Seq(T) /\ y \in Seq(T)
    BY SignatureSent DEF Strings
  <2>2. s = r \o y
    BY DEF Compact
  <2> HIDE DEF T, r, y, s
  <2>3. a \o r \o y = a \o s
    BY ONLY <2>1, <2>2, ConcatAssociative
  <2> QED BY <2>3 DEF r, y
<1> HIDE DEF s
<1>3. /\ a \o s \in Strings /\ Size(a \o s) = Size(a) + 128 /\ Size(a) \in Nat
      /\ PartAt(a \o s, a, 0) /\ PartAt(a \o s, s, Size(a))
  BY <1>1, TwoParts, PartOfItself
<1> DEFINE x == a \o s
<1> HIDE DEF x
<1>4. /\ x \in Strings /\ Size(x) = Size(a) + 128 /\ Size(a) \in Nat
      /\ PartAt(x, a, 0) /\ PartAt(x, s, Size(a))
  BY <1>3 DEF x
<1>5. /\ x \o d \in Strings /\ Size(x \o d) = Size(x) + Size(d)
      /\ PartAt(x \o d, d, Size(x))
      /\ PartAt(x \o d, a, 0) /\ PartAt(x \o d, s, Size(a))
  <2>1. Size(x) > 0 /\ s \in Strings
    BY <1>1, <1>4
  <2> QED BY <1>4, <2>1, PartsOfTwo DEF Joined
<1> QED BY <1>2, <1>4, <1>5 DEF s, x

\* The opcode of a method, in front of what is sent, gives its name back.
LEMMA NameOfOpcode ==
  ASSUME NEW method \in Elsewhere, NEW rest \in Strings, Size(rest) > 0
  PROVE  LET data == Opcode(method) \o rest
         IN  /\ data \in Strings /\ Size(data) = 2 + Size(rest)
             /\ SolanaMethods[16 * data[1][2] + data[2][2]] = method
             /\ \A s \in Strings, from \in Nat : PartAt(rest, s, from) => PartAt(data, s, 2 + from)
<1> DEFINE n == CHOOSE i \in DOMAIN SolanaMethods : SolanaMethods[i] = method
           op == Opcode(method)
           data == op \o rest
<1>1. \E i \in DOMAIN SolanaMethods : SolanaMethods[i] = method
  <2>1. DOMAIN SolanaMethods = 1..18
    BY DEF SolanaMethods
  <2>2. /\ SolanaMethods[11] = "postSwapFromInitiator" /\ SolanaMethods[12] = "bondSwap"
        /\ SolanaMethods[13] = "cancelSwap" /\ SolanaMethods[14] = "executeSwap"
        /\ SolanaMethods[15] = "lockSwap" /\ SolanaMethods[16] = "unlock"
        /\ SolanaMethods[17] = "release" /\ SolanaMethods[18] = "directRelease"
    BY DEF SolanaMethods
  <2> QED BY <2>1, <2>2 DEF SwapMethods, Elsewhere
<1>2. n \in DOMAIN SolanaMethods /\ SolanaMethods[n] = method /\ n \in Nat
  <2>1. DOMAIN SolanaMethods \subseteq Nat
    BY DEF SolanaMethods
  <2> QED BY <1>1, <2>1
<1>3. op = << <<"opcode", n \div 16>>, <<"opcode", n % 16>> >>
  BY DEF Opcode
<1> HIDE DEF n
<1>4. n \div 16 \in Nat /\ n % 16 \in Nat /\ 16 * (n \div 16) + (n % 16) = n
  BY <1>2
<1>5. op \in Strings /\ Size(op) = 2 /\ op[1][2] = n \div 16 /\ op[2][2] = n % 16
  <2>1. <<"opcode", n \div 16>> \in Fields \X Nat /\ <<"opcode", n % 16>> \in Fields \X Nat
    BY <1>4 DEF Fields
  <2>2. op \in Seq(Fields \X Nat) /\ Len(op) = 2
    BY <1>3, <2>1
  <2>3. op[1] = <<"opcode", n \div 16>> /\ op[2] = <<"opcode", n % 16>>
    BY <1>3
  <2> QED BY <2>2, <2>3 DEF Strings, Size
<1> HIDE DEF op
<1>6. data[1] = op[1] /\ data[2] = op[2]
  <2>1. op \in Seq(Fields \X Nat) /\ rest \in Seq(Fields \X Nat)
    BY <1>5 DEF Strings
  <2>2. Len(op) = Size(op) /\ Len(rest) \in Nat /\ Len(op) \in Nat
    BY <2>1 DEF Size
  <2>3. \A i \in 1..Len(op) + Len(rest) :
          data[i] = IF i <= Len(op) THEN op[i] ELSE rest[i - Len(op)]
    BY <2>1, ConcatProperties
  <2>4. /\ 1 \in 1..Len(op) + Len(rest) /\ 2 \in 1..Len(op) + Len(rest)
        /\ 1 <= Len(op) /\ 2 <= Len(op)
    BY <1>5, <2>2
  <2> HIDE DEF data
  <2> QED BY <2>3, <2>4
<1>7. data \in Strings /\ Size(data) = 2 + Size(rest)
  BY <1>5, PartsOfTwo DEF Joined
<1>8. \A s \in Strings, from \in Nat : PartAt(rest, s, from) => PartAt(data, s, 2 + from)
  BY <1>5, PartsBehind DEF Joined
<1>9. 16 * data[1][2] + data[2][2] = n
  BY <1>4, <1>5, <1>6
<1> QED BY <1>2, <1>7, <1>8, <1>9 DEF op

\* A part of what is sent is read two digits further back, and two for the 0x.
LEMMA ReadBehindOpcode ==
  ASSUME NEW method \in Elsewhere, NEW rest \in Strings, Size(rest) > 0,
         NEW s \in Strings, NEW from \in Nat, NEW to \in Nat,
         PartAt(rest, s, from), to = from + Size(s)
  PROVE  Substring(Opcode(method) \o rest, from + 4, to + 4) = s
<1> DEFINE data == Opcode(method) \o rest
<1>1. data \in Strings /\ PartAt(data, s, 2 + from)
  BY NameOfOpcode
<1> HIDE DEF data
<1>2. /\ 2 + from \in Nat /\ 2 + to \in Nat /\ 2 + to = 2 + from + Size(s)
      /\ 2 + from + 2 = from + 4 /\ 2 + to + 2 = to + 4
  <2>1. Size(s) \in Nat
    BY DEF Size, Strings
  <2> QED BY <2>1
<1>3. Substring(data, 2 + from + 2, 2 + to + 2) = s
  BY <1>1, <1>2, ReadBack
<1> QED BY <1>2, <1>3 DEF data

\* Solana: everything stands in one string behind the opcode.
LEMMA SolanaTells ==
  ASSUME NEW c \in Calls, NEW bytes \in BOOLEAN, c.chain = "solana",
         c.method # "directExecuteSwap"
  PROVE  Tells(c, bytes, SolanaParse(SolanaData(c)))
<1> DEFINE data == SolanaData(c)
           p == SolanaParse(data)
           name == SolanaMethods[16 * data[1][2] + data[2][2]]
           Read(s, from, to) == Substring(data, from + 4, to + 4) = s
<1>1. c.method \in Elsewhere
  BY DEF Calls, Elsewhere
<1>0. /\ InitiatorTold(c, [bytes |-> bytes]) = Initiator
      /\ TellsRecipient(c) <=> c.method = "executeSwap"
  BY InitiatorAsIs DEF TellsRecipient, ClipsRecipient
<1>2. /\ p.method = name /\ p.encoded = Substring(data, 4, 68)
      /\ p.postingValue = If(name = "postSwapFromInitiator",
                            Substring(data, 68, 108) \o Substring(data, 114, 124))
      /\ p.initiator = (IF name \in {"lockSwap", "unlock"} THEN Substring(data, 68, 108)
                        ELSE If(name \in {"release", "directRelease"}, Substring(data, 196, 236)))
      /\ p.recipient = If(name = "executeSwap", Substring(data, 196, 236))
      /\ p.r = If(name \in Signed, Signature(Substring(data, 68, 196)).r)
      /\ p.yParityAndS = If(name \in Signed, Signature(Substring(data, 68, 196)).yParityAndS)
  BY DEF SolanaParse
<1> SUFFICES Tells(c, bytes, p)
  OBVIOUS
<1> HIDE DEF p
<1>3. ASSUME NEW rest \in Strings, Size(rest) > 0, data = Opcode(c.method) \o rest
      PROVE  /\ name = c.method
             /\ \A s \in Strings : \A from \in Nat : \A to \in Nat :
                  (PartAt(rest, s, from) /\ to = from + Size(s)) => Read(s, from, to)
  <2>1. name = c.method
    <3>1. LET d == Opcode(c.method) \o rest
          IN  SolanaMethods[16 * d[1][2] + d[2][2]] = c.method
      BY <1>1, <1>3, NameOfOpcode
    <3> QED BY <1>3, <3>1
  <2>2. ASSUME NEW s \in Strings, NEW from \in Nat, NEW to \in Nat,
               PartAt(rest, s, from), to = from + Size(s)
        PROVE  Read(s, from, to)
    BY <1>1, <1>3, <2>2, ReadBehindOpcode
  <2> QED BY <2>1, <2>2
<1> HIDE DEF data, name
<1>4. CASE c.method = "postSwapFromInitiator"
  <2> DEFINE rest == Encoded \o Initiator \o Zeros(6) \o PoolIndex
  <2>1. data = Opcode(c.method) \o rest
    BY <1>4, PostingValue DEF data, SolanaData, SolanaUnsigned, Signed, Args
  <2>2. Zeros(6) \in Strings /\ Size(Zeros(6)) = 6
    BY ZeroString
  <2>3. /\ rest \in Strings /\ Size(rest) = 120
        /\ PartAt(rest, Encoded, 0) /\ PartAt(rest, Initiator, 64) /\ PartAt(rest, PoolIndex, 110)
    <3> DEFINE z == Zeros(6)
    <3>1. z \in Strings /\ Size(z) = 6
      BY <2>2
    <3> HIDE DEF z
    <3>2. Size(Encoded) > 0 /\ Size(Initiator) > 0 /\ Size(z) > 0 /\ Size(PoolIndex) > 0
      BY <3>1, Pieces
    <3>3. InARow(Row(Encoded, Initiator, z, PoolIndex), Encoded, Initiator, z, PoolIndex)
      <4>1. Encoded \in Strings /\ Initiator \in Strings /\ PoolIndex \in Strings
        BY Pieces
      <4> QED BY ONLY <3>1, <3>2, <4>1, FourParts
    <3>4. rest = Row(Encoded, Initiator, z, PoolIndex)
      BY DEF Row, z
    <3> HIDE DEF rest
    <3> QED BY <3>1, <3>3, <3>4, Pieces DEF InARow
  <2> HIDE DEF rest
  <2>4. name = c.method
    BY <1>3, <2>1, <2>3
  <2>5. Read(Encoded, 0, 64) /\ Read(Initiator, 64, 104) /\ Read(PoolIndex, 110, 120)
    <3>1. 64 = 0 + Size(Encoded) /\ 104 = 64 + Size(Initiator) /\ 120 = 110 + Size(PoolIndex)
      BY Pieces
    <3>2. Size(rest) > 0
      BY <2>3
    <3> HIDE DEF Read
    <3>0. Encoded \in Strings /\ Initiator \in Strings /\ PoolIndex \in Strings
      BY Pieces
    <3>3. Read(Encoded, 0, 64)
      BY <1>3, <2>1, <2>3, <3>0, <3>1, <3>2
    <3>4. Read(Initiator, 64, 104)
      BY <1>3, <2>1, <2>3, <3>0, <3>1, <3>2
    <3>5. Read(PoolIndex, 110, 120)
      BY <1>3, <2>1, <2>3, <3>0, <3>1, <3>2
    <3> QED BY <3>3, <3>4, <3>5
  <2>6. /\ p.method = c.method /\ p.encoded = Encoded /\ p.postingValue = Initiator \o PoolIndex
        /\ p.recipient = Undefined
    BY <1>2, <1>4, <2>4, <2>5 DEF If
  <2> QED BY <1>0, <1>4, <2>6 DEF Tells, Signed, If
<1>5. CASE c.method \in {"bondSwap", "cancelSwap"}
  <2>1. data = Opcode(c.method) \o Encoded
    <3>1. CASE c.method = "bondSwap"
      BY <3>1 DEF data, SolanaData, SolanaUnsigned, Signed, Args
    <3>2. CASE c.method = "cancelSwap"
      BY <3>2 DEF data, SolanaData, SolanaUnsigned, Signed, Args
    <3> QED BY <1>5, <3>1, <3>2
  <2>2. PartAt(Encoded, Encoded, 0) /\ Size(Encoded) > 0
    <3>1. Encoded \in Strings /\ Size(Encoded) > 0
      BY Pieces
    <3> QED BY <3>1, PartOfItself
  <2>3. name = c.method /\ Read(Encoded, 0, 64)
    <3>1. 64 = 0 + Size(Encoded) /\ Encoded \in Strings
      BY Pieces
    <3> HIDE DEF Read
    <3> QED BY <1>3, <2>1, <2>2, <3>1
  <2>4. p.method = c.method /\ p.encoded = Encoded /\ p.recipient = Undefined
    BY <1>2, <1>5, <2>3 DEF If
  <2> QED BY <1>0, <1>5, <2>4 DEF Tells, Signed, If
<1>6. CASE c.method \in {"lockSwap", "unlock"}
  <2> DEFINE front == Encoded \o Initiator
             rest == IF c.method = "lockSwap" THEN front \o Recipient(c) ELSE front
  <2>1. data = Opcode(c.method) \o rest
    <3>1. CASE c.method = "lockSwap"
      BY <3>1 DEF data, SolanaData, SolanaUnsigned, Signed, Args
    <3>2. CASE c.method = "unlock"
      BY <3>2 DEF data, SolanaData, SolanaUnsigned, Signed, Args
    <3> QED BY <1>6, <3>1, <3>2
  <2>2. /\ front \in Strings /\ Size(front) = 104
        /\ PartAt(front, Encoded, 0) /\ PartAt(front, Initiator, 64)
    BY Pieces, TwoParts
  <2> HIDE DEF front
  <2>3. c.digits \in Nat /\ c.digits > 0
    BY DEF Calls
  <2>4. /\ rest \in Strings /\ Size(rest) > 0
        /\ PartAt(rest, Encoded, 0) /\ PartAt(rest, Initiator, 64)
    <3>1. CASE c.method = "lockSwap"
      <4>1. rest = Joined(front, Recipient(c))
        BY <3>1 DEF Joined
      <4> HIDE DEF rest
      <4> QED BY <2>2, <2>3, <4>1, Pieces, Recipients, PartsOfTwo
    <3>2. CASE c.method # "lockSwap"
      BY <2>2, <3>2
    <3> QED BY <3>1, <3>2
  <2> HIDE DEF rest
  <2>5. name = c.method /\ Read(Encoded, 0, 64) /\ Read(Initiator, 64, 104)
    <3>1. 64 = 0 + Size(Encoded) /\ 104 = 64 + Size(Initiator)
      BY Pieces
    <3> HIDE DEF Read
    <3> QED BY <1>3, <2>1, <2>4, <3>1, Pieces
  <2>6. /\ p.method = c.method /\ p.encoded = Encoded /\ p.initiator = Initiator
        /\ p.recipient = Undefined
    BY <1>2, <1>6, <2>5 DEF If
  <2> QED BY <1>0, <1>6, <2>6 DEF Tells, Signed, If
<1>7. CASE c.method \in Signed
  <2> DEFINE last == IF c.method = "executeSwap" THEN ClipRecipient(Recipient(c)) ELSE Initiator
             rest == Encoded \o SentR(c) \o SentYParityAndS(c) \o last
  <2>1. data = Opcode(c.method) \o rest
    <3>1. CASE c.method = "executeSwap"
      BY <3>1, SignatureSent DEF data, SolanaData, SolanaSigned, Signed, Args
    <3>2. CASE c.method = "release"
      BY <3>2 DEF data, SolanaData, SolanaSigned, Signed, Args
    <3>3. CASE c.method = "directRelease"
      BY <3>3 DEF data, SolanaData, SolanaSigned, Signed, Args
    <3> QED BY <1>1, <1>7, <3>1, <3>2, <3>3 DEF Signed, Elsewhere
  <2>2. last \in Strings /\ Size(last) = 40
    BY Pieces, Recipients
  <2>3. /\ c.method = "executeSwap" => last = ClipRecipient(Recipient(c))
        /\ c.method # "executeSwap" => last = Initiator
    OBVIOUS
  <2> HIDE DEF last
  <2>4. /\ rest \in Strings /\ Size(rest) = 232 /\ PartAt(rest, Encoded, 0)
        /\ PartAt(rest, Compact(c), 64) /\ PartAt(rest, last, 192)
    BY <2>2, Pieces, SignatureInside
  <2> HIDE DEF rest
  <2>5. name = c.method /\ Read(Encoded, 0, 64) /\ Read(last, 192, 232)
    <3>1. 64 = 0 + Size(Encoded) /\ 232 = 192 + Size(last)
      BY <2>2, Pieces
    <3>2. Size(rest) > 0
      BY <2>4
    <3> HIDE DEF Read
    <3>0. Encoded \in Strings
      BY Pieces
    <3>3. name = c.method /\ Read(Encoded, 0, 64)
      BY <1>3, <2>1, <2>4, <3>0, <3>1, <3>2
    <3>4. Read(last, 192, 232)
      BY <1>3, <2>1, <2>2, <2>4, <3>1, <3>2
    <3> QED BY <3>3, <3>4
  <2>6. Read(Compact(c), 64, 192)
    <3>1. 192 = 64 + Size(Compact(c)) /\ Compact(c) \in Strings
      BY Halves
    <3>2. Size(rest) > 0
      BY <2>4
    <3> HIDE DEF Read
    <3> QED BY <1>3, <2>1, <2>4, <3>1, <3>2
  <2>7. /\ p.method = c.method /\ p.encoded = Encoded
        /\ p.r = SentR(c) /\ p.yParityAndS = SentYParityAndS(c)
    <3>1. Substring(data, 4, 68) = Encoded /\ Substring(data, 68, 196) = Compact(c)
      BY <2>5, <2>6
    <3>2. p.r = Signature(Compact(c)).r
          /\ p.yParityAndS = Signature(Compact(c)).yParityAndS
      BY <1>2, <1>7, <2>5, <3>1 DEF If
    <3> QED BY <1>2, <2>5, <3>1, <3>2, Halves
  <2>8. p.recipient = If(TellsRecipient(c), RecipientSent(c))
    BY <1>0, <1>2, <2>3, <2>5, ClippedOne DEF If
  <2>9. c.method # "executeSwap" => p.initiator = Initiator
    BY <1>2, <1>7, <2>3, <2>5 DEF If, Signed
  <2>10. c.method # "postSwapFromInitiator" /\ c.method \notin {"lockSwap", "unlock"}
         /\ c.method # "directExecuteSwap"
    BY <1>1, <1>7 DEF Signed, Elsewhere
  <2> QED BY <1>0, <2>7, <2>8, <2>9, <2>10 DEF Tells
<1> QED BY <1>1, <1>4, <1>5, <1>6, <1>7 DEF SwapMethods, Elsewhere, Signed, p, data

\* CKB: the lock script of the cell, and the witness of the input that spends it.
LEMMA CkbTells ==
  ASSUME NEW c \in Calls, NEW bytes \in BOOLEAN, c.chain = "ckb", c.method \in CkbMethods
  PROVE  Tells(c, bytes, CkbParse(c.method \in {"postSwapFromInitiator", "executeSwap"},
                                  CkbLock(c), CkbWitness(c)))
<1> DEFINE here == c.method \in {"postSwapFromInitiator", "executeSwap"}
           data == CkbLock(c)
           witness == CkbWitness(c)
           p == CkbParse(here, data, witness)
           signed == witness # <<>>
<1>1. /\ p.method = (IF here THEN IF signed THEN "executeSwap" ELSE "postSwapFromInitiator"
                     ELSE IF signed THEN "release" ELSE "lockSwap")
      /\ p.encoded = Part(data, 0, 64) /\ p.initiator = Substring(data, 66, 106)
      /\ p.postingValue = If(here /\ ~ signed, Substring(data, 66, 106) \o PoolIndex)
      /\ p.recipient = If(here /\ signed, Substring(witness, 132, Len(witness) + 2))
      /\ p.r = If(signed, Signature(Substring(witness, 4, 132)).r)
      /\ p.yParityAndS = If(signed, Signature(Substring(witness, 4, 132)).yParityAndS)
  BY DEF CkbParse
<1> SUFFICES Tells(c, bytes, p)
  OBVIOUS
<1> HIDE DEF p
<1>2. ASSUME NEW whose \in {"lp", "signer", "recipient of the swap"}
      PROVE  Pkh(whose) \in Strings /\ Size(Pkh(whose)) = 46
  <2>1. whose \in Fields /\ 46 \in Nat
    BY DEF Fields
  <2> QED BY <2>1, HexString DEF Pkh
<1>3. Part(data, 0, 64) = Encoded /\ Substring(data, 66, 106) = Initiator
  <2> DEFINE receive == IF here THEN Pkh("lp") ELSE Pkh("recipient of the swap")
             refund == IF here THEN Pkh("signer") ELSE Pkh("lp")
  <2>1. data = Row(Encoded, Initiator, receive, refund)
    BY DEF CkbLock, SigTimeLock, Row
  <2>2. receive \in Strings /\ refund \in Strings /\ Size(receive) = 46 /\ Size(refund) = 46
    BY <1>2
  <2> HIDE DEF receive, refund, data
  <2>3. InARow(data, Encoded, Initiator, receive, refund)
    <3>1. Size(Encoded) > 0 /\ Size(Initiator) > 0 /\ Size(receive) > 0 /\ Size(refund) > 0
      BY <2>2, Pieces
    <3>2. Encoded \in Strings /\ Initiator \in Strings
      BY Pieces
    <3> QED BY ONLY <2>1, <2>2, <3>1, <3>2, FourParts
  <2>4. /\ data \in Strings /\ PartAt(data, Encoded, 0) /\ PartAt(data, Initiator, 64)
        /\ 64 = 0 + Size(Encoded) /\ 104 = 64 + Size(Initiator)
    BY <2>3, Pieces DEF InARow
  <2>5. Encoded \in Strings /\ Initiator \in Strings
    BY Pieces
  <2>6. Part(data, 0, 64) = Encoded
    BY <2>4, <2>5, ReadBack
  <2>7. Substring(data, 64 + 2, 104 + 2) = Initiator
    BY <2>4, <2>5, ReadBack
  <2> QED BY <2>6, <2>7
<1> HIDE DEF data
<1>0. /\ InitiatorTold(c, [bytes |-> bytes]) = Initiator
      /\ TellsRecipient(c) <=> c.method = "executeSwap"
  BY InitiatorAsIs DEF TellsRecipient, ClipsRecipient, CkbMethods
<1>6. SentR(c) = R /\ SentYParityAndS(c) = YParityAndS
  BY SignatureSent DEF CkbMethods
<1>4. CASE c.method \in {"postSwapFromInitiator", "lockSwap"}
  <2>1. ~ signed
    BY <1>4 DEF CkbWitness
  <2>2. /\ p.method = c.method /\ p.encoded = Encoded /\ p.initiator = Initiator
        /\ p.recipient = Undefined
    BY <1>1, <1>3, <1>4, <2>1 DEF If
  <2>3. c.method = "postSwapFromInitiator" => p.postingValue = Initiator \o PoolIndex
    BY <1>1, <1>3, <2>1 DEF If
  <2> QED BY <1>0, <1>4, <2>2, <2>3 DEF Tells, Signed, If
<1>5. CASE c.method \in {"executeSwap", "release"}
  <2> DEFINE last == IF c.method = "executeSwap" THEN ClipRecipient(Recipient(c))
                     ELSE Part(Pkh("recipient of the swap"), 6, 46)
  <2>1. witness = Zeros(2) \o SentR(c) \o SentYParityAndS(c) \o last
    BY <1>5, <1>6 DEF CkbWitness
  <2>2. last \in Strings /\ Size(last) = 40
    <3>1. Part(Pkh("recipient of the swap"), 6, 46) \in Strings
          /\ Size(Part(Pkh("recipient of the swap"), 6, 46)) = 40
      <4> DEFINE pkh == Pkh("recipient of the swap")
      <4>1. 6 \in Nat /\ 46 \in Nat /\ 6 < 46 /\ 46 - 6 = 40
        OBVIOUS
      <4>2. pkh \in Strings /\ Size(pkh) = 46
        BY <1>2
      <4> HIDE DEF pkh
      <4>3. 46 <= Size(pkh)
        BY <4>2
      <4>4. Part(pkh, 6, 46) \in Strings /\ Size(Part(pkh, 6, 46)) = 46 - 6
        BY ONLY <4>1, <4>2, <4>3, CutOut
      <4> QED BY <4>1, <4>4 DEF pkh
    <3> QED BY <3>1, Recipients
  <2>3. c.method = "executeSwap" => last = ClipRecipient(Recipient(c))
    OBVIOUS
  <2> HIDE DEF last
  <2>4. Zeros(2) \in Strings /\ Size(Zeros(2)) = 2
    BY ZeroString
  <2>5. /\ witness \in Strings /\ Size(witness) = 170
        /\ PartAt(witness, Compact(c), 2) /\ PartAt(witness, last, 130)
    BY <2>1, <2>2, <2>4, SignatureInside
  <2> HIDE DEF witness
  <2>6. signed /\ Len(witness) = Size(witness)
    <3>1. Size(<<>>) = 0 /\ Size(witness) = Len(witness)
      BY DEF Size
    <3>2. witness # <<>>
      BY <2>5, <3>1
    <3> QED BY <3>1, <3>2
  <2>7. Substring(witness, 4, 132) = Compact(c)
    <3>1. 130 = 2 + Size(Compact(c)) /\ Compact(c) \in Strings
      BY Halves
    <3> DEFINE s == Compact(c)
    <3>2. s \in Strings /\ 130 = 2 + Size(s) /\ PartAt(witness, s, 2) /\ witness \in Strings
      BY <2>5, <3>1
    <3> HIDE DEF s
    <3>3. Substring(witness, 2 + 2, 130 + 2) = s
      BY ONLY <3>2, ReadBack
    <3>4. 2 + 2 = 4 /\ 130 + 2 = 132
      OBVIOUS
    <3> QED BY <3>3, <3>4 DEF s
  <2>8. Substring(witness, 132, Len(witness) + 2) = last
    <3>1. Substring(witness, 130 + 2, 170 + 2) = last
      BY <2>2, <2>5, ReadBack
    <3>2. Len(witness) + 2 = 170 + 2
      BY <2>5, <2>6
    <3> QED BY ONLY <3>1, <3>2
  <2>9. p.method = c.method /\ p.encoded = Encoded /\ p.initiator = Initiator
    BY <1>1, <1>3, <1>5, <2>6
  <2>10. p.r = SentR(c) /\ p.yParityAndS = SentYParityAndS(c)
    <3>1. p.r = Signature(Compact(c)).r
          /\ p.yParityAndS = Signature(Compact(c)).yParityAndS
      BY <1>1, <2>6, <2>7 DEF If
    <3> QED BY <3>1, Halves
  <2>11. p.recipient = If(TellsRecipient(c), RecipientSent(c))
    BY <1>0, <1>1, <1>5, <2>3, <2>6, <2>8, ClippedOne DEF If
  <2> QED BY <1>0, <1>5, <2>9, <2>10, <2>11 DEF Tells
<1> QED BY <1>4, <1>5 DEF CkbMethods

\* Bytes lose their length again, which is all that is dropped of them.
LEMMA LengthStripped ==
  ASSUME NEW s \in Strings, NEW n \in Nat, n > 0, Size(s) = 2 * n,
         NEW with, with = 4 + Size(s)
  PROVE  /\ Stripped(AptosBytes("vector", s), n, with) = s
         /\ Size(AptosBytes("vector", s)) = 2 + Size(s)
<1> DEFINE length == Length(n)
           v == length \o s
<1>1. AptosBytes("vector", s) = v
  <2>1. Len(s) = Size(s) /\ Len(s) \div 2 = n
    BY DEF Size
  <2> QED BY <2>1 DEF AptosBytes
<1>2. length \in Strings /\ Size(length) = 2 /\ length[1] = <<"length", n>>
  <2>1. <<"length", n>> \in Fields \X Nat
    BY DEF Fields
  <2>2. length = << <<"length", n>>, <<"length", n>> >>
    BY DEF Length
  <2>3. length \in Seq(Fields \X Nat) /\ Len(length) = 2 /\ length[1] = <<"length", n>>
    BY <2>1, <2>2
  <2> QED BY <2>3 DEF Strings, Size
<1> HIDE DEF length
<1>3. v \in Strings /\ Size(v) = 2 + Size(s) /\ PartAt(v, s, 2)
  BY <1>2, TwoParts
<1>4. v[1] = <<"length", n>>
  <2>1. length \in Seq(Fields \X Nat) /\ s \in Seq(Fields \X Nat)
    BY <1>2 DEF Strings
  <2>2. Len(length) = Size(length) /\ Len(s) \in Nat
    BY <2>1 DEF Size
  <2>3. \A i \in 1..Len(length) + Len(s) :
          v[i] = IF i <= Len(length) THEN length[i] ELSE s[i - Len(length)]
    BY <2>1, ConcatProperties
  <2>4. 1 \in 1..Len(length) + Len(s) /\ 1 <= Len(length)
    BY <1>2, <2>2
  <2> HIDE DEF v
  <2> QED BY <1>2, <2>3, <2>4
<1> HIDE DEF v
<1>5. Len(v) = Size(v) /\ Size(v) = 2 + Size(s) /\ Size(v) \in Nat
  BY <1>3 DEF Size
<1>6. Part(v, 2, Len(v)) = s
  BY <1>3, <1>5, ReadBack
<1>7. Len(v) + 2 = with
  BY <1>5
<1> QED BY <1>1, <1>3, <1>4, <1>6, <1>7 DEF Stripped

\* An argument as the node shows it.
Shown(bytes, type, s) == IF bytes THEN AptosBytes(type, s) ELSE s

\* A vector of another length than the one that is expected stays.
LEMMA VectorRead ==
  ASSUME NEW bytes \in BOOLEAN, NEW s \in Strings, NEW n \in Nat, n > 0, Size(s) = 2 * n,
         NEW with, with = 4 + Size(s)
  PROVE  Stripped(Shown(bytes, "vector", s), n, with) = s
<1>1. CASE bytes
  BY <1>1, LengthStripped DEF Shown
<1>2. CASE ~ bytes
  <2>1. Len(s) + 2 # with
    BY DEF Size
  <2> QED BY <1>2, <2>1 DEF Shown, Stripped
<1> QED BY <1>1, <1>2

\* The encoded swap does not start with 20, the length of its bytes.
LEMMA EncodedRead ==
  ASSUME NEW bytes \in BOOLEAN
  PROVE  LET shown == Shown(bytes, "vector", Encoded)
         IN  Stripped(shown, 32, Len(shown) + 2) = Encoded
<1> DEFINE shown == Shown(bytes, "vector", Encoded)
<1>1. CASE bytes
  <2>1. shown = AptosBytes("vector", Encoded)
    BY <1>1 DEF Shown
  <2>2. 32 \in Nat /\ 32 > 0 /\ Size(Encoded) = 2 * 32 /\ Encoded \in Strings
    BY Pieces
  <2>3. Size(shown) = 2 + Size(Encoded) /\ Size(shown) = Len(shown)
    BY <2>1, <2>2, LengthStripped DEF Size
  <2>4. Len(shown) + 2 = 4 + Size(Encoded)
    BY <2>2, <2>3
  <2> HIDE DEF shown
  <2> QED BY <2>1, <2>2, <2>4, LengthStripped DEF shown
<1>2. CASE ~ bytes
  <2>1. Encoded[1] = <<"encoded", 1>>
    BY DEF Encoded, Hex
  <2>2. Encoded[1] # <<"length", 32>>
    BY <2>1
  <2> QED BY <1>2, <2>2 DEF Shown, Stripped
<1> QED BY <1>1, <1>2

\* Turning bytes around twice changes nothing, and zeros behind them do not
\* matter.
LEMMA PoolIndexRead ==
  ASSUME NEW bytes \in BOOLEAN
  PROVE  PoolIndexOf(Shown(bytes, "u64", PoolIndex)) = PoolIndex
<1> DEFINE turned == BackToFront(PoolIndex, 10)
           z == Zeros(6)
           w == turned \o z
<1>1. PoolIndex = [i \in 1..10 |-> <<"poolIndex", i>>]
  BY DEF PoolIndex, Hex
<1>2. Len(PoolIndex) = 10
  BY <1>1
<1>3. CASE ~ bytes
  BY <1>2, <1>3 DEF PoolIndexOf, Shown
<1>4. CASE bytes
  <2>1. Shown(bytes, "u64", PoolIndex) = w
    BY <1>2, <1>4 DEF Shown, AptosBytes, LittleEndian
  <2>2. turned = [i \in 1..10 |-> <<"poolIndex", IF i % 2 = 1 THEN 10 - i ELSE 12 - i>>]
    <3>1. ASSUME NEW i \in 1..10
          PROVE  PoolIndex[IF i % 2 = 1 THEN 10 - i ELSE 10 - i + 2]
                   = <<"poolIndex", IF i % 2 = 1 THEN 10 - i ELSE 12 - i>>
      <4>1. CASE i % 2 = 1
        <5>1. 10 - i \in 1..10
          BY <4>1
        <5> QED BY <1>1, <4>1, <5>1
      <4>2. CASE i % 2 # 1
        <5>1. 10 - i + 2 \in 1..10 /\ 10 - i + 2 = 12 - i
          BY <4>2
        <5> QED BY <1>1, <4>2, <5>1
      <4> QED BY <4>1, <4>2
    <3> QED BY <3>1 DEF BackToFront
  <2>3. turned \in Strings /\ Size(turned) = 10
    <3>1. turned \in [1..10 -> Fields \X Nat]
      <4>1. "poolIndex" \in Fields
        BY DEF Fields
      <4>2. \A i \in 1..10 : (IF i % 2 = 1 THEN 10 - i ELSE 12 - i) \in Nat
        OBVIOUS
      <4> QED BY <2>2, <4>1, <4>2
    <3> HIDE DEF turned
    <3> QED BY <3>1, DigitString
  <2>4. z \in Strings /\ Size(z) = 6
    BY ZeroString
  <2>5. \A i \in 1..10 : w[i] = turned[i]
    <3> HIDE DEF turned, z
    <3>1. turned \in Seq(Fields \X Nat) /\ z \in Seq(Fields \X Nat)
      BY <2>3, <2>4 DEF Strings
    <3>2. Len(turned) = Size(turned) /\ Len(z) \in Nat /\ Len(turned) \in Nat
      BY <3>1 DEF Size
    <3>3. \A i \in 1..Len(turned) + Len(z) :
            w[i] = IF i <= Len(turned) THEN turned[i] ELSE z[i - Len(turned)]
      BY <3>1, ConcatProperties
    <3>4. \A i \in 1..10 : i \in 1..Len(turned) + Len(z) /\ i <= Len(turned)
      BY <2>3, <3>2
    <3> HIDE DEF w
    <3> QED BY <3>3, <3>4
  <2>6. Len(w) = 16
    <3> HIDE DEF turned, z
    <3>1. Size(turned) > 0 /\ Size(z) > 0
      BY <2>3, <2>4
    <3>2. Size(w) = Size(turned) + Size(z)
      BY <2>3, <2>4, <3>1, TwoParts
    <3> HIDE DEF w
    <3>3. Size(w) = Len(w)
      BY DEF Size
    <3> QED BY <2>3, <2>4, <3>2, <3>3
  <2> HIDE DEF w
  <2>7. BackToFront(w, 10) = [i \in 1..10 |-> <<"poolIndex", i>>]
    <3>1. ASSUME NEW i \in 1..10
          PROVE  w[IF i % 2 = 1 THEN 10 - i ELSE 10 - i + 2] = <<"poolIndex", i>>
      <4>1. CASE i % 2 = 1
        <5>1. 10 - i \in 1..10 /\ (10 - i) % 2 = 1 /\ 10 - (10 - i) = i
          BY <4>1
        <5> QED BY <2>2, <2>5, <4>1, <5>1
      <4>2. CASE i % 2 # 1
        <5>1. 10 - i + 2 \in 1..10 /\ (10 - i + 2) % 2 # 1 /\ 12 - (10 - i + 2) = i
          BY <4>2
        <5> QED BY <2>2, <2>5, <4>2, <5>1
      <4> QED BY <4>1, <4>2
    <3> QED BY <3>1 DEF BackToFront
  <2> QED BY <1>1, <2>1, <2>6, <2>7 DEF PoolIndexOf
<1> QED BY <1>3, <1>4

\* Aptos: the arguments, or their bytes.
LEMMA AptosTells ==
  ASSUME NEW c \in Calls, NEW bytes \in BOOLEAN, c.chain = "aptos",
         c.method # "directExecuteSwap"
  PROVE  Tells(c, bytes, AptosParse(c.method, Sent(c, bytes).data))
<1> DEFINE a == MoveArguments(c)
           type == MoveTypes(c.method)
           data == Sent(c, bytes).data
           p == AptosParse(c.method, data)
           signature == Stripped(data[2], 64, 132)
<1>1. c.method \in Elsewhere
  BY DEF Calls, Elsewhere
<1>0. /\ c.method # "directRelease" => InitiatorTold(c, [bytes |-> bytes]) = Initiator
      /\ TellsRecipient(c) <=> c.method \in {"executeSwap", "directRelease"}
  BY DEF InitiatorTold, TellsRecipient, ClipsRecipient
<1>2. ASSUME NEW i \in DOMAIN a
      PROVE  data[i] = Shown(bytes, type[i], a[i])
  <2>1. data = IF ~ bytes THEN a ELSE [j \in DOMAIN a |-> AptosBytes(type[j], a[j])]
    BY DEF Sent
  <2> HIDE DEF a, type, data
  <2> QED BY <2>1 DEF Shown
<1>3. /\ p.method = c.method /\ p.encoded = Stripped(data[1], 32, Len(data[1]) + 2)
      /\ p.postingValue = If(c.method = "postSwapFromInitiator",
                            Stripped(data[2], 20, 44) \o PoolIndexOf(data[3]))
      /\ p.initiator = (IF c.method \in {"lockSwap", "unlock"} THEN Stripped(data[2], 20, 44)
                        ELSE IF c.method = "release" THEN Stripped(data[3], 20, 44)
                        ELSE If(c.method = "directRelease", data[3]))
      /\ p.recipient = (IF c.method = "executeSwap" THEN Stripped(data[3], 20, 44)
                        ELSE If(c.method = "directRelease", data[4]))
      /\ p.r = If(c.method \in Signed, Signature(signature).r)
      /\ p.yParityAndS = If(c.method \in Signed, Signature(signature).yParityAndS)
  BY DEF AptosParse
<1> SUFFICES Tells(c, bytes, p)
  OBVIOUS
<1> HIDE DEF p, signature, data
<1>4. data[1] = Shown(bytes, "vector", Encoded)
  <2>1. 1 \in DOMAIN a /\ type[1] = "vector" /\ a[1] = Encoded
    BY <1>1 DEF MoveArguments, MoveTypes, Args, SwapMethods, Elsewhere
  <2> QED BY <1>2, <2>1
<1>5. p.encoded = Encoded
  BY <1>3, <1>4, EncodedRead
<1>6. Stripped(Shown(bytes, "vector", Initiator), 20, 44) = Initiator
  <2>1. Size(Initiator) = 2 * 20 /\ 44 = 4 + Size(Initiator) /\ 20 \in Nat /\ 20 > 0
    BY Pieces
  <2>2. Initiator \in Strings
    BY Pieces
  <2> QED BY <2>1, <2>2, VectorRead
<1>7. CASE c.method = "postSwapFromInitiator"
  <2>1. /\ 2 \in DOMAIN a /\ type[2] = "vector" /\ a[2] = Initiator
        /\ 3 \in DOMAIN a /\ type[3] = "u64" /\ a[3] = PoolIndex
    BY <1>7, PostingValue DEF MoveArguments, MoveTypes, Args
  <2>2. data[2] = Shown(bytes, "vector", Initiator) /\ data[3] = Shown(bytes, "u64", PoolIndex)
    BY <1>2, <2>1
  <2>3. p.postingValue = Initiator \o PoolIndex
    BY <1>3, <1>6, <1>7, <2>2, PoolIndexRead DEF If
  <2> QED BY <1>0, <1>3, <1>5, <1>7, <2>3 DEF Tells, Signed, If
<1>8. CASE c.method \in {"bondSwap", "cancelSwap"}
  BY <1>0, <1>3, <1>5, <1>8 DEF Tells, Signed, If
<1>9. CASE c.method \in {"lockSwap", "unlock"}
  <2>1. 2 \in DOMAIN a /\ type[2] = "vector" /\ a[2] = Initiator
    <3>1. CASE c.method = "lockSwap"
      BY <3>1 DEF MoveArguments, MoveTypes, Args
    <3>2. CASE c.method = "unlock"
      BY <3>2 DEF MoveArguments, MoveTypes, Args
    <3> QED BY <1>9, <3>1, <3>2
  <2>2. p.initiator = Initiator
    BY <1>2, <1>3, <1>6, <1>9, <2>1
  <2> QED BY <1>0, <1>3, <1>5, <1>9, <2>2 DEF Tells, Signed, If
<1>10. CASE c.method \in Signed
  <2>1. 2 \in DOMAIN a /\ type[2] = "vector" /\ a[2] = Compact(c)
    <3>1. CASE c.method = "executeSwap"
      BY <3>1, SignatureSent DEF MoveArguments, MoveTypes, Args, Compact
    <3>2. CASE c.method = "release"
      BY <3>2 DEF MoveArguments, MoveTypes, Args, Compact
    <3>3. CASE c.method = "directRelease"
      BY <3>3 DEF MoveArguments, MoveTypes, Args, Compact
    <3> QED BY <1>1, <1>10, <3>1, <3>2, <3>3 DEF Signed, Elsewhere
  <2>2. signature = Compact(c)
    <3>1. signature = Stripped(Shown(bytes, "vector", Compact(c)), 64, 132)
      BY <1>2, <2>1 DEF signature
    <3> DEFINE s == Compact(c)
    <3>2. s \in Strings /\ Size(s) = 128
      BY Halves
    <3> HIDE DEF s
    <3>3. Size(s) = 2 * 64 /\ 132 = 4 + Size(s) /\ 64 \in Nat /\ 64 > 0
      BY <3>2
    <3>4. Stripped(Shown(bytes, "vector", s), 64, 132) = s
      BY <3>2, <3>3, VectorRead
    <3> QED BY <3>1, <3>4 DEF s
  <2>3. p.r = SentR(c) /\ p.yParityAndS = SentYParityAndS(c)
    BY <1>3, <1>10, <2>2, Halves DEF If
  <2>4. CASE c.method = "executeSwap"
    <3>1. 3 \in DOMAIN a /\ type[3] = "vector" /\ a[3] = ClipRecipient(Recipient(c))
      BY <2>4 DEF MoveArguments, MoveTypes, Args
    <3> DEFINE s == ClipRecipient(Recipient(c))
    <3>2. s \in Strings /\ Size(s) = 40
      BY Recipients
    <3>3. data[3] = Shown(bytes, "vector", s)
      BY <1>2, <3>1
    <3> HIDE DEF s
    <3>4. Size(s) = 2 * 20 /\ 44 = 4 + Size(s) /\ 20 \in Nat /\ 20 > 0
      BY <3>2
    <3>5. Stripped(data[3], 20, 44) = s
      BY <3>2, <3>3, <3>4, VectorRead
    <3>6. p.recipient = s
      BY <1>3, <2>4, <3>5
    <3> QED BY <1>0, <1>3, <1>5, <2>3, <2>4, <3>6, ClippedOne DEF Tells, If, s
  <2>5. CASE c.method = "release"
    <3>1. 3 \in DOMAIN a /\ type[3] = "vector" /\ a[3] = Initiator
      BY <2>5 DEF MoveArguments, MoveTypes, Args
    <3>2. p.initiator = Initiator
      BY <1>2, <1>3, <1>6, <2>5, <3>1
    <3>3. p.recipient = Undefined
      BY <1>3, <2>5 DEF If
    <3> QED BY <1>0, <1>3, <1>5, <2>3, <2>5, <3>2, <3>3 DEF Tells, If
  <2>6. CASE c.method = "directRelease"
    <3>1. /\ 3 \in DOMAIN a /\ type[3] = "vector" /\ a[3] = Initiator
          /\ 4 \in DOMAIN a /\ type[4] = "address" /\ a[4] = Recipient(c)
      BY <2>6 DEF MoveArguments, MoveTypes, Args
    <3>2. data[3] = (IF bytes THEN Length(20) \o Initiator ELSE Initiator)
      <4>1. Len(Initiator) = 40 /\ Len(Initiator) \div 2 = 20
        BY Pieces DEF Size
      <4> QED BY <1>2, <3>1, <4>1 DEF Shown, AptosBytes
    <3>3. p.initiator = InitiatorTold(c, [bytes |-> bytes])
      BY <1>3, <2>6, <3>2 DEF If, InitiatorTold
    <3>4. data[4] = Recipient(c) /\ RecipientSent(c) = Recipient(c)
      BY <1>2, <2>6, <3>1 DEF Shown, AptosBytes, RecipientSent, ClipsRecipient
    <3>5. p.recipient = If(TellsRecipient(c), RecipientSent(c))
      BY <1>0, <1>3, <2>6, <3>4 DEF If
    <3> QED BY <1>3, <1>5, <2>3, <2>6, <3>3, <3>5 DEF Tells
  <2> QED BY <1>1, <1>10, <2>4, <2>5, <2>6 DEF Signed, Elsewhere
<1> QED BY <1>1, <1>7, <1>8, <1>9, <1>10 DEF SwapMethods, Elsewhere, Signed

\* Every call is read for what it is.
LEMMA AllTell ==
  ASSUME NEW c \in Calls, NEW bytes \in BOOLEAN, Possible(c, bytes)
  PROVE  Tells(c, bytes, Parse(c.chain, Sent(c, bytes)))
<1>1. c.chain \in {"solana", "sui", "aptos", "starknet", "ckb"}
  BY CallsAssumption DEF Calls
<1>0. c.chain # "starknet" => c.method # "directExecuteSwap"
  BY DEF Possible, CanCall
<1>2. CASE c.chain = "solana"
  <2>1. Parse(c.chain, Sent(c, bytes)) = SolanaParse(SolanaData(c))
    BY <1>2 DEF Parse, Sent
  <2> QED BY <1>0, <1>2, <2>1, SolanaTells
<1>3. CASE c.chain = "sui"
  <2>1. Parse(c.chain, Sent(c, bytes)) = SuiParse(c.method, MoveArguments(c))
    BY <1>3 DEF Parse, Sent
  <2> QED BY <1>0, <1>3, <2>1, SuiTells
<1>4. CASE c.chain = "aptos"
  <2>1. Sent(c, bytes).name = c.method
    BY <1>4 DEF Sent
  <2>2. Parse(c.chain, Sent(c, bytes)) = AptosParse(c.method, Sent(c, bytes).data)
    BY <1>4, <2>1 DEF Parse
  <2> QED BY <1>0, <1>4, <2>2, AptosTells
<1>5. CASE c.chain = "starknet"
  <2>1. Parse(c.chain, Sent(c, bytes)) = StarknetParse(c.method, StarknetArguments(c))
    BY <1>5 DEF Parse, Sent
  <2> QED BY <1>5, <2>1, StarknetTells
<1>6. CASE c.chain = "ckb"
  <2>1. Parse(c.chain, Sent(c, bytes))
          = CkbParse(c.method \in {"postSwapFromInitiator", "executeSwap"},
                     CkbLock(c), CkbWitness(c))
    BY <1>6 DEF Parse, Sent
  <2> QED BY <1>6, <2>1, CkbTells DEF Possible
<1> QED BY <1>1, <1>2, <1>3, <1>4, <1>5, <1>6

\* What is read is what was sent.
CallsInv ==
  /\ call = Nothing => parsed = Nothing
  /\ call # Nothing =>
       /\ call \in Calls
       /\ \E bytes \in BOOLEAN :
            /\ Possible(call, bytes)
            /\ transaction = Sent(call, bytes)
            /\ parsed # Nothing => Tells(call, bytes, parsed)

\* parseTransaction gives back the swap, the initiator, the signature and, where
\* it names one, the recipient of every call of MesonClient that a contract object
\* of these chains writes; but the initiator of a direct release that Aptos shows
\* in bytes keeps its length. For any of the families of chains.
THEOREM ParsersRead == CallsSpec => []ParsersReadWhatIsSent
<1>1. CallsInit => CallsInv
  BY DEF CallsInit, CallsInv
<1>2. CallsInv /\ [CallsNext]_callVars => CallsInv'
  <2> SUFFICES ASSUME CallsInv, [CallsNext]_callVars PROVE CallsInv'
    OBVIOUS
  <2>1. ASSUME NEW c \in Calls, NEW bytes \in BOOLEAN, MakeCall(c, bytes)
        PROVE  CallsInv'
    <3>1. parsed' = Nothing /\ call' = c /\ transaction' = Sent(c, bytes) /\ Possible(c, bytes)
      BY <2>1 DEF MakeCall, CallsInv
    <3> QED BY <3>1 DEF CallsInv
  <2>2. CASE ParseTransaction
    <3>1. PICK bytes \in BOOLEAN : Possible(call, bytes) /\ transaction = Sent(call, bytes)
      BY <2>2 DEF CallsInv, ParseTransaction
    <3>2. Tells(call, bytes, parsed')
      BY <2>2, <3>1, AllTell DEF CallsInv, ParseTransaction
    <3>3. call' = call /\ transaction' = transaction /\ call # Nothing /\ call \in Calls
      BY <2>2 DEF CallsInv, ParseTransaction
    <3> QED BY <3>1, <3>2, <3>3 DEF CallsInv
  <2>3. CASE UNCHANGED callVars
    BY <2>3 DEF CallsInv, callVars
  <2> QED BY <2>1, <2>2, <2>3 DEF CallsNext
<1>3. CallsInv => ParsersReadWhatIsSent
  <2> SUFFICES ASSUME CallsInv, parsed # Nothing
               PROVE  ParsersReadWhatIsSent
    BY DEF ParsersReadWhatIsSent
  <2>1. PICK bytes \in BOOLEAN : transaction = Sent(call, bytes) /\ Tells(call, bytes, parsed)
    BY DEF CallsInv
  <2>2. InitiatorTold(call, [bytes |-> bytes]) = InitiatorTold(call, transaction)
    <3>1. call.chain = "aptos" => transaction.bytes = bytes
      BY <2>1 DEF Sent
    <3> QED BY <3>1 DEF InitiatorTold
  <2> QED BY <2>1, <2>2 DEF Tells, ParsersReadWhatIsSent
<1> QED BY <1>1, <1>2, <1>3, PTL DEF CallsSpec
=============================================================================
