----------------------------- MODULE MesonCalls -----------------------------
(***************************************************************************)
(* The calls that MesonClient makes on chains without an EVM: what the     *)
(* contract object of each chain writes into a transaction, how the node   *)
(* shows that transaction, and what parseTransaction of the same object,   *)
(* run by a relayer or an explorer, reads out of it. A postSwap never gets  *)
(* that far: none of these objects has one that sends a transaction which  *)
(* can be read.                                                            *)
(***************************************************************************)
EXTENDS Integers, Sequences

CONSTANT Chains           \* those at hand

ASSUME CallsAssumption == Chains \subseteq {"solana", "sui", "aptos", "starknet", "ckb"}

VARIABLES
  call,                   \* the call of MesonClient
  transaction,            \* as the node of the chain shows it
  parsed                  \* what parseTransaction returns

callVars == <<call, transaction, parsed>>

Nothing == [method |-> "none"]

\* Arguments are hex digits, each a field and its place in the field.
Hex(field, digits) == [i \in 1..digits |-> <<field, i>>]
Encoded == Hex("encoded", 64)
R == Hex("r", 64)
YParityAndS == Hex("yParityAndS", 64)
Initiator == Hex("initiator", 40)
PoolIndex == Hex("poolIndex", 10)
Zeros(digits) == [i \in 1..digits |-> <<"zero", 0>>]

\* substring of a string, and of one that starts with 0x.
Part(s, from, to) == SubSeq(s, from + 1, IF to < Len(s) THEN to ELSE Len(s))
Substring(s, from, to) == Part(s, from - 2, to - 2)

SwapMethods == {"postSwapFromInitiator", "bondSwap", "cancelSwap", "lockSwap",
                "unlock", "executeSwap", "directExecuteSwap", "release",
                "directRelease"}
Signed == {"executeSwap", "directExecuteSwap", "release", "directRelease"}
ClipsRecipient == {"executeSwap", "directExecuteSwap"}

------------------------------------------------------------------------------
\* MesonClient

\* An address of the out chain: 20 bytes, or 32 on Solana, Sui, Aptos, Starknet.
Recipient(c) == Hex("recipient", c.digits)

ClipRecipient(recipient) == Part(recipient, 0, 40)

\* A direct release after the swap has expired sends zeros for the signature.
Outdated(c) == c.method = "directRelease" /\ c.expired
SentR(c) == IF Outdated(c) THEN Zeros(64) ELSE R
SentYParityAndS(c) == IF Outdated(c) THEN Zeros(64) ELSE YParityAndS

\* bondSwap needs a pool of the signer; on Solana cancelSwap looks up the
\* posted swap for the account to pay back; only the contract object of Starknet
\* has a directExecuteSwap.
CanCall(c) ==
  /\ c.method = "bondSwap" => c.registered
  /\ c.method = "directExecuteSwap" => c.chain = "starknet"
  /\ c.chain = "solana" /\ c.method = "cancelSwap" => c.posted

Args(c) ==
  CASE c.method = "postSwapFromInitiator" -> <<Encoded, Initiator \o PoolIndex>>
    [] c.method = "bondSwap" -> <<Encoded, PoolIndex>>
    [] c.method = "cancelSwap" -> <<Encoded>>
    [] c.method = "lockSwap" -> <<Encoded, Initiator, Recipient(c)>>
    [] c.method = "unlock" -> <<Encoded, Initiator>>
    [] c.method = "executeSwap" ->
         <<Encoded, R, YParityAndS, ClipRecipient(Recipient(c))>>
    [] c.method = "directExecuteSwap" ->
         <<Encoded, R, YParityAndS, Initiator, ClipRecipient(Recipient(c))>>
    [] c.method \in {"release", "directRelease"} ->
         <<Encoded, SentR(c), SentYParityAndS(c), Initiator, Recipient(c)>>

------------------------------------------------------------------------------
\* Solana: one string of bytes behind an opcode.

SolanaMethods == <<"transferOwnership", "transferPremiumManager",
  "addSupportToken", "depositAndRegister", "deposit", "withdraw",
  "addAuthorizedAddr", "removeAuthorizedAddr", "transferPoolOwner",
  "withdrawServiceFee", "postSwapFromInitiator", "bondSwap", "cancelSwap",
  "executeSwap", "lockSwap", "unlock", "release", "directRelease">>

Opcode(method) ==
  LET n == CHOOSE i \in DOMAIN SolanaMethods : SolanaMethods[i] = method
  IN  << <<"opcode", n \div 16>>, <<"opcode", n % 16>> >>

SolanaUnsigned(a, method) ==
  CASE method = "postSwapFromInitiator" ->
         a[1] \o Part(a[2], 0, 40) \o Zeros(6) \o Part(a[2], 40, 50)
    [] method \in {"bondSwap", "cancelSwap"} -> a[1]
    [] method = "lockSwap" -> a[1] \o a[2] \o a[3]
    [] method = "unlock" -> a[1] \o a[2]

\* The recipient of a release is an account of the call, not among its data.
SolanaSigned(a) == a[1] \o a[2] \o a[3] \o a[4]

SolanaData(c) ==
  Opcode(c.method) \o (IF c.method \in Signed THEN SolanaSigned(Args(c))
                       ELSE SolanaUnsigned(Args(c), c.method))

\* splitSignature of a compact signature.
Signature(sig) == [r |-> Part(sig, 0, 64), yParityAndS |-> Part(sig, 64, 128)]

\* An argument that parseTransaction leaves undefined.
Undefined == <<>>
If(condition, value) == IF condition THEN value ELSE Undefined

\* Mutated: the initiator of a release is read where unlock has it.
SolanaParseEarly(data) ==
  LET name == SolanaMethods[16 * data[1][2] + data[2][2]]
      signature == Signature(Substring(data, 68, 196))
  IN  [method |-> name, encoded |-> Substring(data, 4, 68),
       postingValue |-> If(name = "postSwapFromInitiator",
                           Substring(data, 68, 108) \o Substring(data, 114, 124)),
       initiator |-> If(name \in {"lockSwap", "unlock", "release", "directRelease"},
                        Substring(data, 68, 108)),
       recipient |-> If(name = "executeSwap", Substring(data, 196, 236)),
       r |-> If(name \in Signed, signature.r),
       yParityAndS |-> If(name \in Signed, signature.yParityAndS)]

SolanaParse(data) ==
  LET name == SolanaMethods[16 * data[1][2] + data[2][2]]
      signature == Signature(Substring(data, 68, 196))
  IN  [method |-> name, encoded |-> Substring(data, 4, 68),
       postingValue |-> If(name = "postSwapFromInitiator",
                           Substring(data, 68, 108) \o Substring(data, 114, 124)),
       initiator |-> IF name \in {"lockSwap", "unlock"} THEN Substring(data, 68, 108)
                     ELSE If(name \in {"release", "directRelease"}, Substring(data, 196, 236)),
       recipient |-> If(name = "executeSwap", Substring(data, 196, 236)),
       r |-> If(name \in Signed, signature.r),
       yParityAndS |-> If(name \in Signed, signature.yParityAndS)]

------------------------------------------------------------------------------
\* Sui and Aptos: a list of arguments, the signature in one piece.

MoveArguments(c) ==
  LET a == Args(c)
  IN  CASE c.method = "postSwapFromInitiator" ->
             <<a[1], Part(a[2], 0, 40), Part(a[2], 40, 50)>>
        [] c.method \in {"bondSwap", "cancelSwap"} -> a
        [] c.method \in {"lockSwap", "unlock"} -> a
        [] c.method = "executeSwap" -> <<a[1], a[2] \o a[3], a[4]>>
        [] c.method = "release" -> <<a[1], a[2] \o a[3], a[4]>>
        [] c.method = "directRelease" -> <<a[1], a[2] \o a[3], a[4], a[5]>>

SuiParse(name, a) ==
  LET signature == Signature(a[2])
  IN  [method |-> name, encoded |-> a[1],
       postingValue |-> If(name = "postSwapFromInitiator", a[2] \o a[3]),
       initiator |-> IF name \in {"lockSwap", "unlock"} THEN a[2]
                     ELSE If(name \in {"release", "directRelease"}, a[3]),
       recipient |-> IF name = "executeSwap" THEN a[3]
                     ELSE If(name = "directRelease", a[4]),
       r |-> If(name \in Signed, signature.r),
       yParityAndS |-> If(name \in Signed, signature.yParityAndS)]

\* A node of Aptos shows either the arguments or their bytes: the length before
\* a vector, the lowest byte of a u64 first, an address as it is.
Length(n) == << <<"length", n>>, <<"length", n>> >>
\* The first n digits, byte by byte from the last.
BackToFront(digits, n) ==
  [i \in 1..n |-> digits[IF i % 2 = 1 THEN n - i ELSE n - i + 2]]
LittleEndian(digits) == BackToFront(digits, Len(digits)) \o Zeros(16 - Len(digits))

MoveTypes(method) ==
  CASE method = "postSwapFromInitiator" -> <<"vector", "vector", "u64">>
    [] method = "bondSwap" -> <<"vector", "u64">>
    [] method = "cancelSwap" -> <<"vector">>
    [] method = "lockSwap" -> <<"vector", "vector", "address">>
    [] method = "unlock" -> <<"vector", "vector">>
    [] method \in {"executeSwap", "release"} -> <<"vector", "vector", "vector">>
    [] method = "directRelease" -> <<"vector", "vector", "vector", "address">>

AptosBytes(type, a) ==
  CASE type = "vector" -> Length(Len(a) \div 2) \o a
    [] type = "u64" -> LittleEndian(a)
    [] type = "address" -> a

\* Drops the length when the string is as long as `with` says.
Stripped(s, length, with) ==
  IF Len(s) + 2 = with /\ s[1] = <<"length", length>> THEN Part(s, 2, Len(s)) ELSE s

\* getBigUint64(0, true), packed as uint40.
PoolIndexOf(shown) == IF Len(shown) # 16 THEN shown ELSE BackToFront(shown, 10)

AptosParse(name, a) ==
  LET signature == Signature(Stripped(a[2], 64, 132))
  IN  [method |-> name, encoded |-> Stripped(a[1], 32, Len(a[1]) + 2),
       postingValue |-> If(name = "postSwapFromInitiator",
                           Stripped(a[2], 20, 44) \o PoolIndexOf(a[3])),
       initiator |-> IF name \in {"lockSwap", "unlock"} THEN Stripped(a[2], 20, 44)
                     ELSE IF name = "release" THEN Stripped(a[3], 20, 44)
                     ELSE If(name = "directRelease", a[3]),
       recipient |-> IF name = "executeSwap" THEN Stripped(a[3], 20, 44)
                     ELSE If(name = "directRelease", a[4]),
       r |-> If(name \in Signed, signature.r),
       yParityAndS |-> If(name \in Signed, signature.yParityAndS)]

------------------------------------------------------------------------------
\* Starknet: calldata in the order of the interface, read by its names. The
\* writer unfolds the second argument of lockSwap and drops the recipient of
\* release.
StarknetInputs(method) ==
  CASE method = "postSwapFromInitiator" -> <<"encoded", "postingValue">>
    [] method = "bondSwap" -> <<"encoded", "poolIndex">>
    [] method = "cancelSwap" -> <<"encoded">>
    [] method = "lockSwap" -> <<"encoded", "initiator", "recipient">>
    [] method = "unlock" -> <<"encoded", "initiator">>
    [] method = "executeSwap" -> <<"encoded", "r", "yParityAndS", "recipient">>
    [] method = "release" -> <<"encoded", "r", "yParityAndS", "initiator">>
    [] method \in {"directExecuteSwap", "directRelease"} ->
         <<"encoded", "r", "yParityAndS", "initiator", "recipient">>

StarknetArguments(c) ==
  IF c.method = "release" THEN SubSeq(Args(c), 1, 4) ELSE Args(c)

StarknetParse(name, a) ==
  LET inputs == StarknetInputs(name)
      at(f) == a[CHOOSE i \in DOMAIN inputs : inputs[i] = f]
  IN  [method |-> name, encoded |-> at("encoded"),
       postingValue |-> If(name = "postSwapFromInitiator", at("postingValue")),
       initiator |-> If(name \in {"lockSwap", "unlock", "directExecuteSwap",
                                  "release", "directRelease"}, at("initiator")),
       recipient |-> If(name \in {"lockSwap", "directRelease"} \cup ClipsRecipient,
                        at("recipient")),
       r |-> If(name \in Signed, at("r")),
       yParityAndS |-> If(name \in Signed, at("yParityAndS"))]

------------------------------------------------------------------------------
\* CKB: no call at all. The arguments are those of the script of the cell; a
\* call that consumes the cell shows them with the witness of its input.

CkbMethods == {"postSwapFromInitiator", "lockSwap", "executeSwap", "release"}

Pkh(whose) == Hex(whose, 46)

\* The lock script of the cell: who receives it, and who gets it back.
SigTimeLock(receive, refund) == Encoded \o Initiator \o receive \o refund

CkbLock(c) ==
  IF c.method \in {"postSwapFromInitiator", "executeSwap"}
  THEN SigTimeLock(Pkh("lp"), Pkh("signer"))
  ELSE SigTimeLock(Pkh("recipient of the swap"), Pkh("lp"))

CkbWitness(c) ==
  CASE c.method = "executeSwap" ->
         Zeros(2) \o R \o YParityAndS \o ClipRecipient(Recipient(c))
    [] c.method = "release" ->
         Zeros(2) \o R \o YParityAndS \o Part(Pkh("recipient of the swap"), 6, 46)
    [] OTHER -> <<>>

CkbParse(fromHere, data, witness) ==
  LET signed == witness # <<>>
      signature == Signature(Substring(witness, 4, 132))
      initiator == Substring(data, 66, 106)
  IN  [method |-> IF fromHere THEN IF signed THEN "executeSwap" ELSE "postSwapFromInitiator"
                  ELSE IF signed THEN "release" ELSE "lockSwap",
       encoded |-> Part(data, 0, 64),
       initiator |-> initiator,
       postingValue |-> If(fromHere /\ ~ signed, initiator \o PoolIndex),
       recipient |-> If(fromHere /\ signed, Substring(witness, 132, Len(witness) + 2)),
       r |-> If(signed, signature.r),
       yParityAndS |-> If(signed, signature.yParityAndS)]

------------------------------------------------------------------------------
CallsInit == call = Nothing /\ transaction = Nothing /\ parsed = Nothing

\* The transaction of a call, as a node shows it: with `bytes`, the arguments of
\* Aptos are bytes.
Sent(c, bytes) ==
  CASE c.chain = "solana" -> [data |-> SolanaData(c)]
    [] c.chain = "sui" -> [name |-> c.method, data |-> MoveArguments(c)]
    [] c.chain = "aptos" ->
         LET a == MoveArguments(c)
         IN  [name |-> c.method, bytes |-> bytes,
              data |-> IF ~ bytes THEN a
                       ELSE [i \in DOMAIN a |-> AptosBytes(MoveTypes(c.method)[i], a[i])]]
    [] c.chain = "starknet" -> [name |-> c.method, data |-> StarknetArguments(c)]
    [] c.chain = "ckb" ->
         [fromHere |-> c.method \in {"postSwapFromInitiator", "executeSwap"},
          data |-> CkbLock(c), witness |-> CkbWitness(c)]

\* A lock or a release names an address of this chain, with 32 bytes.
Possible(c, bytes) ==
  /\ CanCall(c)
  /\ c.chain = "ckb" => c.method \in CkbMethods
  /\ c.method \notin ClipsRecipient => c.digits = 64
  /\ c.expired => c.method = "directRelease"
  /\ bytes => c.chain = "aptos"

MakeCall(c, bytes) ==
  /\ call = Nothing
  /\ Possible(c, bytes)
  /\ call' = c
  /\ transaction' = Sent(c, bytes)
  /\ UNCHANGED parsed

Parse(chain, t) ==
  CASE chain = "solana" -> SolanaParse(t.data)
    [] chain = "sui" -> SuiParse(t.name, t.data)
    [] chain = "aptos" -> AptosParse(t.name, t.data)
    [] chain = "starknet" -> StarknetParse(t.name, t.data)
    [] chain = "ckb" -> CkbParse(t.fromHere, t.data, t.witness)

ParseTransaction ==
  /\ call # Nothing /\ parsed = Nothing
  /\ parsed' = Parse(call.chain, transaction)
  /\ UNCHANGED <<call, transaction>>

Calls == [chain : Chains, method : SwapMethods, digits : {40, 64},
         registered : BOOLEAN, posted : BOOLEAN, expired : BOOLEAN]

CallsNext ==
  \/ \E c \in Calls, bytes \in BOOLEAN : MakeCall(c, bytes)
  \/ ParseTransaction

------------------------------------------------------------------------------
RecipientSent(c) ==
  IF c.method \in ClipsRecipient THEN ClipRecipient(Recipient(c)) ELSE Recipient(c)

\* The parsers of some chains leave out the recipient of a lock or a direct
\* release, and all of them that of a release.
TellsRecipient(c) ==
  \/ c.method \in ClipsRecipient
  \/ c.method = "lockSwap" /\ c.chain = "starknet"
  \/ c.method = "directRelease" /\ c.chain \in {"sui", "aptos", "starknet"}

\* Of a direct release shown in bytes, the parser for Aptos leaves the length in
\* front of the initiator.
InitiatorTold(c, t) ==
  IF c.chain = "aptos" /\ c.method = "directRelease" /\ t.bytes
  THEN Length(20) \o Initiator ELSE Initiator

\* A relayer that watches a chain acts on what parseTransaction reads in the
\* transactions of others: the swap, initiator, recipient and signature it
\* reads are those the user of the SDK sent, on every chain, wherever it reads
\* one; but the initiator of a direct release that a node of Aptos shows in bytes
\* comes out with two digits too many.
ParsersReadWhatIsSent ==
  parsed # Nothing =>
    /\ parsed.method = call.method
    /\ parsed.encoded = Encoded
    /\ call.method = "postSwapFromInitiator" =>
         parsed.postingValue = Initiator \o PoolIndex
    /\ call.method \in {"lockSwap", "unlock", "directExecuteSwap", "release",
                        "directRelease"} =>
         parsed.initiator = InitiatorTold(call, transaction)
    /\ parsed.recipient = If(TellsRecipient(call), RecipientSent(call))
    /\ call.method \in Signed =>
         parsed.r = SentR(call) /\ parsed.yParityAndS = SentYParityAndS(call)
=============================================================================
