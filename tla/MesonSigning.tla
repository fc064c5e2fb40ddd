---------------------------- MODULE MesonSigning ----------------------------
(***************************************************************************)
(* The initiator's signatures: which digest the SDK signs for a request    *)
(* and a release, which one the contract recovers the signer from, and the *)
(* signer of wallets without ECDSA, which derives a key per swap from a    *)
(* signature of the wallet while several swaps are being signed.           *)
(***************************************************************************)
EXTENDS Naturals, FiniteSets

CONSTANTS
  SignedSwaps,            \* swaps: [fromTron, toTron, nonTyped, testnet, id]
  SwapSigners             \* of "ethers", "remote" and "nonEcdsa"

ASSUME SigningAssumption ==
  \A s \in SignedSwaps : {s.fromTron, s.toTron, s.nonTyped, s.testnet} \subseteq BOOLEAN

VARIABLES
  swapSigner,             \* the signer the SDK was given
  asked,                  \* jobs the wallet was asked to sign for
  signing,                \* jobs with the key that signs them
  initiatorSwapSigners,   \* encoded -> the key derived for it
  currentInitiator,
  signedData              \* what signForRequest and signForRelease returned

signingVars ==
  <<swapSigner, asked, signing, initiatorSwapSigners, currentInitiator, signedData>>

Kind == {"request", "release"}
Job == [swap : SignedSwaps, kind : Kind]
NoKey == <<"no key">>
Wallet == <<"wallet">>

Notice(kind, testnet) == <<"Sign to", kind, "a swap on Meson", testnet>>

\* What noticeRecipient adds for the other kind of message.
RecipientType(s, kind) ==
  IF kind = "request" THEN "no recipient"
  ELSE IF s.toTron THEN "tron recipient" ELSE "recipient"

\* prehashRequest and prehashRelease: what is hashed, by its header.
Prehash(s, kind) ==
  IF s.fromTron
  THEN <<"TRON", IF s.nonTyped THEN IF kind = "request" THEN 33 ELSE 53
                 ELSE 32, s, kind>>
  ELSE IF s.nonTyped
  THEN <<"Ethereum", IF kind = "request" THEN 32 ELSE 52, s, kind>>
  ELSE <<"typed", Notice(kind, s.testnet), RecipientType(s, kind), s, kind>>

\* What a wallet in the browser makes of signMessage and signTypedData: the
\* header of personal_sign counts the bytes; for Tron the message starts with
\* a line feed and only the newer call, which nonTyped stands for, counts them.
RemoteDigest(s, kind) ==
  LET bytes == IF kind = "request" THEN 32 ELSE 52
  IN  IF s.fromTron
      THEN <<"TRON", IF s.nonTyped THEN bytes + 1 ELSE 32, s, kind>>
      ELSE IF s.nonTyped THEN <<"Ethereum", bytes, s, kind>>
      ELSE <<"typed", Notice(kind, s.testnet), RecipientType(s, kind), s, kind>>

\* _checkRequestSignature and _checkReleaseSignature.
ContractDigest(s, kind) ==
  CASE s.fromTron /\ s.nonTyped ->
         <<"TRON", IF kind = "request" THEN 33 ELSE 53, s, kind>>
    [] s.fromTron /\ ~ s.nonTyped -> <<"TRON", 32, s, kind>>
    [] ~ s.fromTron /\ s.nonTyped ->
         <<"Ethereum", IF kind = "request" THEN 32 ELSE 52, s, kind>>
    [] OTHER -> <<"typed", <<"Sign to", kind, "a swap on Meson", s.testnet>>,
                  CASE kind = "request" -> "no recipient"
                    [] kind = "release" /\ s.toTron -> "tron recipient"
                    [] OTHER -> "recipient", s, kind>>

SigningInit ==
  /\ swapSigner \in SwapSigners
  /\ asked = {} /\ signing = {}
  /\ initiatorSwapSigners = [s \in SignedSwaps |-> NoKey]
  /\ currentInitiator = NoKey
  /\ signedData = {}

\* The wallet signs the same message the same way: the seed of the key.
KeyFromSeed(s) == <<"key of", s>>

\* The key that signs at once: that of the wallet, or the one derived before.
KeyAtHand(j) ==
  IF swapSigner # "nonEcdsa" THEN Wallet
  ELSE IF j.kind = "release" THEN initiatorSwapSigners[j.swap] ELSE NoKey

\* signSwapRequest always asks the wallet for the seed, signSwapRelease only
\* when it has no key for this swap.
StartSigning(j) ==
  /\ j \notin asked
  /\ \A x \in signing : x.job # j
  /\ IF KeyAtHand(j) = NoKey
     THEN asked' = asked \cup {j} /\ UNCHANGED signing
     ELSE /\ signing' = signing \cup {[job |-> j, key |-> KeyAtHand(j)]}
          /\ UNCHANGED asked
  /\ UNCHANGED <<swapSigner, initiatorSwapSigners, currentInitiator, signedData>>

WalletSigns(j) ==
  /\ j \in asked
  /\ asked' = asked \ {j}
  /\ initiatorSwapSigners' =
       [initiatorSwapSigners EXCEPT ![j.swap] = KeyFromSeed(j.swap)]
  /\ currentInitiator' = KeyFromSeed(j.swap)
  /\ signing' = signing \cup {[job |-> j, key |-> KeyFromSeed(j.swap)]}
  /\ UNCHANGED <<swapSigner, signedData>>

WalletRejects(j) ==
  /\ j \in asked
  /\ asked' = asked \ {j}
  /\ UNCHANGED <<swapSigner, signing, initiatorSwapSigners, currentInitiator, signedData>>

\* Mutated: the address of the last key that was derived.
CurrentAddress(s) ==
  IF swapSigner = "nonEcdsa" THEN currentInitiator ELSE Wallet

\* getAddress(encoded)
GetAddress(s) ==
  IF swapSigner = "nonEcdsa" THEN initiatorSwapSigners[s] ELSE Wallet

\* The signature is there; signForRequest and signForRelease then ask for the
\* address that goes with it.
SignatureReturned(x) ==
  /\ x \in signing
  /\ signing' = signing \ {x}
  /\ signedData' = signedData \cup
       {[swap |-> x.job.swap, kind |-> x.job.kind, signer |-> x.key,
         initiator |-> GetAddress(x.job.swap),
         digest |-> IF swapSigner = "remote"
                    THEN RemoteDigest(x.job.swap, x.job.kind)
                    ELSE Prehash(x.job.swap, x.job.kind)]}
  /\ UNCHANGED <<swapSigner, asked, initiatorSwapSigners, currentInitiator>>

SigningNext ==
  \/ \E j \in Job : StartSigning(j) \/ WalletSigns(j) \/ WalletRejects(j)
  \/ \E x \in signing : SignatureReturned(x)

\* SignedSwapRequest.checkSignature, and ecrecover in the contract.
Recovers(d, digest) == d.digest = digest /\ d.signer = d.initiator

\* Whatever other swaps are signed meanwhile, all the SDK returns for a swap
\* passes checkSignature and the check of the contract, and a request and its
\* release name the same initiator, without which the swap could not be released.
SignaturesVerify ==
  /\ \A d \in signedData :
       /\ Recovers(d, Prehash(d.swap, d.kind))
       /\ Recovers(d, ContractDigest(d.swap, d.kind))
  /\ \A d, e \in signedData : d.swap = e.swap => d.initiator = e.initiator
=============================================================================
