---------------------------- MODULE MesonEncoding ----------------------------
(***************************************************************************)
(* How the SDK packs a swap into 32 bytes, what it says a swap will cost   *)
(* and pay, and what the contract makes of the same 32 bytes.              *)
(***************************************************************************)
EXTENDS Integers, Sequences

CONSTANTS
  Requests,               \* the SwapData given to `new Swap`
  InexactPrices           \* prices, in ten-thousandths, that as a double times 1e4
                          \* are no whole number: 0.0003 * 1e4 is below 3

\* The options of a swap: a bit each in the header of its salt.
Header == [notToContract |-> 32768, waiveServiceFee |-> 16384,
  isMesonTo |-> 8192, isApi |-> 4096, useNonTypedSigning |-> 2048,
  amountForCoreToken |-> 1024, amountToShare |-> 512,
  usePointsToWaiveServiceFee |-> 256, withReward |-> 128,
  newFormatCoreToken |-> 16]

\* What the program that calls has: numbers, options of the salt header, a byte
\* for a token, four bits for the track, two bytes at random.
ASSUME EncodingAssumption ==
  /\ InexactPrices \subseteq Nat
  /\ \A r \in Requests :
       /\ {r.amount, r.fee, r.price, r.core, r.pool, r.share} \subseteq Int
       /\ {r.inToken, r.outToken, r.random} \subseteq Nat
       /\ r.inToken <= 255 /\ r.outToken <= 255 /\ r.random <= 65535
       /\ r.options \subseteq DOMAIN Header /\ r.trackId \in 0..15

VARIABLES
  request,                \* the SwapData at hand
  swap                    \* the Swap built from it, or an error

encodingVars == <<request, swap>>

\* swapStruct: the fields in the order they are packed, with their hex digits.
SwapStruct == << <<"version", 2>>, <<"amount", 10>>, <<"salt", 20>>,
  <<"fee", 10>>, <<"expireTs", 10>>, <<"outChain", 4>>, <<"outToken", 2>>,
  <<"inChain", 4>>, <<"inToken", 2>> >>

\* The hex digits of a packed struct, each as <<field, place within it>>.
DigitsOf(field, width) == [d \in 1..width |-> <<field, d>>]
Packed(struct) ==
  LET f(i) == DigitsOf(struct[i][1], struct[i][2])
  IN  f(1) \o f(2) \o f(3) \o f(4) \o f(5) \o f(6) \o f(7) \o f(8) \o f(9)

\* encoded.substring(from, to) of a string that starts with 0x.
DigitsRead(digits, from, to) == SubSeq(digits, from - 1, to - 2)

\* Swap.decode: where each field is read (saltHeader and saltData adjoin).
Decode == [version |-> <<2, 4>>, amount |-> <<4, 14>>, salt |-> <<14, 34>>,
  fee |-> <<34, 44>>, expireTs |-> <<44, 54>>, outChain |-> <<54, 58>>,
  outToken |-> <<58, 60>>, inChain |-> <<60, 64>>, inToken |-> <<64, 66>>]

\* The contract's shift and width in bits of every field it reads.
ContractReads == [version |-> <<248, 8>>, amount |-> <<208, 40>>,
  salt |-> <<128, 80>>, fee |-> <<88, 40>>, expireTs |-> <<48, 40>>,
  outChain |-> <<32, 16>>, outToken |-> <<24, 8>>, inChain |-> <<8, 16>>,
  inToken |-> <<0, 8>>]

------------------------------------------------------------------------------
\* The salt header.

Bit(n, mask) == (n \div mask) % 2 = 1

\* The options keep off the four bits of the track id.
OptionBit(o, options) == IF o \in options THEN Header[o] ELSE 0
FormatSaltHeader(options, trackId) ==
  trackId + OptionBit("newFormatCoreToken", options) + OptionBit("withReward", options)
    + OptionBit("usePointsToWaiveServiceFee", options) + OptionBit("amountToShare", options)
    + OptionBit("amountForCoreToken", options) + OptionBit("useNonTypedSigning", options)
    + OptionBit("isApi", options) + OptionBit("isMesonTo", options)
    + OptionBit("waiveServiceFee", options) + OptionBit("notToContract", options)

ParseSaltHeader(h) ==
  [options |-> {o \in DOMAIN Header : Bit(h, Header[o])}, trackId |-> h % 16]

\* The hex digit of the salt at salt[i]; salt[2] is the first.
SaltDigit(s, i) == (s.header \div (16 ^ (5 - i))) % 16

WillTransferToContract(s) == ~ Bit(SaltDigit(s, 2), 8)
WillWaiveFee(s) == Bit(SaltDigit(s, 2), 4)
ForCoreToken(s) == ~ WillTransferToContract(s) /\ Bit(SaltDigit(s, 3), 4)
NewFormat(s) == Bit(SaltDigit(s, 4), 1)
ShareWithPartner(s) ==
  ~ WillTransferToContract(s) /\ (SaltDigit(s, 3) \div 2) % 4 = 1
NonTyped(s) == SaltDigit(s, 3) >= 8

------------------------------------------------------------------------------
\* Three digits of precision in 16 bits.

Level(value) == (CHOOSE p \in 0..12 :
                   10 ^ p >= value /\ \A q \in 0..p - 1 : 10 ^ q < value) - 4

\* The power of ten at or above the value, less four, is its level.
CompressFixedPrecision(value) ==
  LET level == Level(value)
  IN  IF level < 0 THEN value ELSE (level * 9000) + (value \div (10 ^ level))

DecompressFixedPrecision(d) ==
  IF d < 1000 THEN d
  ELSE (((d - 1000) % 9000) + 1000) * 10 ^ ((d - 1000) \div 9000)

\* log10 of zero is not a BigInt; two bytes hold what the salt has room for,
\* never a value of more than eleven digits.
Compressible(value) ==
  /\ value > 0 /\ value \div 100 < 10 ^ 9
  /\ CompressFixedPrecision(value) <= 65535

------------------------------------------------------------------------------
\* new Swap(data)

All == 65535
Everything == -1      \* the amount for core token that is all of the swap

FullSalt(r) ==
  LET h == FormatSaltHeader(r.options, r.trackId)
      s == [header |-> h]
  IN  IF ForCoreToken(s)
      THEN [header |-> h, data1 |-> CompressFixedPrecision(r.price),
            data2 |-> IF r.core = Everything THEN All
                      ELSE CompressFixedPrecision(r.core \div 1000)]
      ELSE IF ShareWithPartner(s)
      THEN [header |-> h, data1 |-> r.pool - 65536,
            data2 |-> CompressFixedPrecision(r.share)]
      ELSE [header |-> h, data1 |-> r.random, data2 |-> r.random]

\* A price is a double, and one whose product with 1e4 has a fraction is not
\* taken.  The format of core token amounts before March 2024 is left out.
Constructible(r) ==
  LET s == [header |-> FormatSaltHeader(r.options, r.trackId)]
  IN  /\ r.amount > 0
      /\ r.fee >= 0
      /\ ForCoreToken(s) =>
           /\ NewFormat(s)
           /\ r.price \notin InexactPrices /\ Compressible(r.price)
           /\ r.core = Everything \/ Compressible(r.core \div 1000)
      /\ ~ ForCoreToken(s) /\ ShareWithPartner(s) =>
           65536 <= r.pool /\ r.pool <= 131071 /\ Compressible(r.share)

NoSwap == [built |-> FALSE]

NewSwap ==
  /\ swap = NoSwap
  /\ Constructible(request)
  /\ swap' = LET salt == FullSalt(request)
             IN  [built |-> TRUE, amount |-> request.amount, fee |-> request.fee,
                  inToken |-> request.inToken, outToken |-> request.outToken,
                  header |-> salt.header, data1 |-> salt.data1, data2 |-> salt.data2]
  /\ UNCHANGED request

EncodingInit == request \in Requests /\ swap = NoSwap
EncodingNext == NewSwap

------------------------------------------------------------------------------
\* What the SDK tells the user.

MinServiceFee(tokenIndex) ==
  IF tokenIndex >= 252 THEN 500
  ELSE IF tokenIndex >= 244 THEN 5000
  ELSE IF tokenIndex >= 240 THEN 50
  ELSE 500000

AtLeast(a, b) == IF a > b THEN a ELSE b

\* a * b / c
MulDiv(a, b, c) == (a \div c) * b + ((a % c) * b) \div c

FullServiceFee(s) == AtLeast(s.amount \div 2000, MinServiceFee(s.inToken))

\* Mutated: the service fee is charged even when it is waived.
ServiceFeeAlways(s) == FullServiceFee(s)

ServiceFee(s) == IF WillWaiveFee(s) THEN 0 ELSE FullServiceFee(s)

TotalFee(s) == ServiceFee(s) + s.fee

AmountForCoreToken(s) ==
  IF ~ ForCoreToken(s) THEN 0
  ELSE IF s.data2 = All THEN s.amount - TotalFee(s)
  ELSE DecompressFixedPrecision(s.data2) * 1000

CoreTokenPrice(s) == DecompressFixedPrecision(s.data1)

\* No BigNumber can be made of the price.
CoreTokenThrows(s) ==
  AmountForCoreToken(s) # 0 /\ CoreTokenPrice(s) \in InexactPrices

\* What the getter gives if it does not throw.
CoreTokenAmount(s) ==
  IF AmountForCoreToken(s) = 0 THEN 0
  ELSE MulDiv(AmountForCoreToken(s), 10000, CoreTokenPrice(s))

PoolIndexToShare(s) == IF ShareWithPartner(s) THEN s.data1 + 65536 ELSE 0

AmountToShare(s) ==
  IF PoolIndexToShare(s) = 0 THEN 0 ELSE DecompressFixedPrecision(s.data2)

Receive(s) ==
  s.amount - TotalFee(s) - AmountForCoreToken(s) - AmountToShare(s)

------------------------------------------------------------------------------
\* What the contract does with it.

ContractMinimum(tokenIndex) ==
  IF tokenIndex >= 252 THEN 500
  ELSE IF tokenIndex >= 248 THEN 5000
  ELSE IF tokenIndex >= 244 THEN 500
  ELSE IF tokenIndex >= 240 THEN 10
  ELSE 500000

ContractFee(s) ==
  IF Bit(s.header, 16384) THEN 0
  ELSE AtLeast((s.amount * 5) \div 10000, ContractMinimum(s.inToken))

ContractNonTyped(s) == Bit(s.header, 2048)

ContractForCore(s) ==
  /\ s.outToken < 191
  /\ Bit(s.header, 32768) /\ Bit(s.header, 1024) /\ Bit(s.header, 16)

ContractDecompress(d) ==
  IF d <= 1000 THEN d
  ELSE (((d - 1000) % 9000) + 1000) * 10 ^ ((d - 1000) \div 9000)

ContractCoreValue(s) ==
  IF ~ ContractForCore(s) THEN 0
  ELSE IF s.data2 = 65535 THEN s.amount - s.fee - ContractFee(s)
  ELSE ContractDecompress(s.data2) * 1000

ContractCoreAmount(s) ==
  IF ContractCoreValue(s) > 0
  THEN MulDiv(ContractCoreValue(s), 10000, ContractDecompress(s.data1)) ELSE 0

ContractShares(s) ==
  Bit(s.header, 32768) /\ ~ Bit(s.header, 1024) /\ Bit(s.header, 512)

ContractShare(s) ==
  IF ContractShares(s) THEN ContractDecompress(s.data2) ELSE 0

\* _amountToLock, less what release takes off it.
ContractReleases(s) ==
  s.amount - s.fee - ContractCoreValue(s) - ContractFee(s) - ContractShare(s)

------------------------------------------------------------------------------
\* The coins whose minimum fee the SDK and the contract agree on: not the
\* bands of SOL (244 to 247) and of BTC (240 to 243).
SameMinimum(t) == t >= 248 \/ t < 240

\* A swap for the core token the contract also takes for one: the SDK's
\* getters do not look at the out token.
ReadAlike(r) ==
  {"notToContract", "amountForCoreToken"} \subseteq r.options =>
    r.outToken < 191

\* The 32 bytes are read where they were packed, by decode and by the
\* contract, and the salt header gives back the options it was made of.
ReadsWhatWasPacked ==
  LET digits == Packed(SwapStruct)
      here(f) == DigitsRead(digits, Decode[f][1], Decode[f][2])
  IN  /\ \A f \in DOMAIN Decode :
           /\ \E i \in DOMAIN SwapStruct :
                SwapStruct[i][1] = f /\ here(f) = DigitsOf(f, SwapStruct[i][2])
           /\ ContractReads[f] = <<4 * (66 - Decode[f][2]), 4 * Len(here(f))>>
      /\ ParseSaltHeader(swap.header) =
           [options |-> request.options, trackId |-> request.trackId]

\* A swap costs and pays what the SDK says: decode and the contract read the
\* fields that were packed, and what `receive`, `serviceFee`, `coreTokenAmount`
\* and the share of the partner say is what the contract takes and pays, for
\* every swap that pays its fees, whose in token has one minimum fee and whose
\* out token is no core token where an amount for core token is asked for.
\* `coreTokenAmount` throws for some prices that the contract computes with, but
\* never for the one a program gave: only for what compressing made of it.
SdkPredictsContract ==
  swap.built /\ ReadAlike(request) /\ SameMinimum(swap.inToken)
    /\ TotalFee(swap) <= swap.amount /\ Receive(swap) >= 0 =>
    /\ ReadsWhatWasPacked
    /\ Receive(swap) = ContractReleases(swap)
    /\ ServiceFee(swap) = ContractFee(swap)
    /\ ~ CoreTokenThrows(swap) => CoreTokenAmount(swap) = ContractCoreAmount(swap)
    /\ CoreTokenThrows(swap) => CoreTokenPrice(swap) # request.price
    /\ AmountToShare(swap) = ContractShare(swap)
    /\ NonTyped(swap) = ContractNonTyped(swap)
==============================================================================
