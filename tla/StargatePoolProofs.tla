------------------------- MODULE StargatePoolProofs -------------------------
(***************************************************************************)
(* Proofs about one Stargate pool: every function of Pool.sol keeps the    *)
(* pool's books balanced and its share price from falling, and the Delta   *)
(* algorithm never hands out more credits than there are.                  *)
(***************************************************************************)
EXTENDS StargatePool, TotalsTheorems, TLAPS

LkbOf(P) == [q \in Pool |-> P.chainPaths[q].lkb]
CreditMap(P) == [q \in Pool |-> P.chainPaths[q].credits]
WeightsOf(P) == [q \in Pool |-> P.chainPaths[q].weight]

\* The liquidity of a pool with LP tokens is not zero.
SharesBacked(P) == TotalSupply(P) > 0 => P.totalLiquidity > 0

\* A pool whose books balance.
PoolOK(P) == P \in PoolState /\ P.asset = Booked(P) /\ SharesBacked(P)

\* What a pool holds beyond what it owes to providers, for rewards and fees.
Net(P) ==
  P.asset - P.totalLiquidity - P.eqFeePool - P.protocolFeeBalance - P.mintFeeBalance

\* One LP token of Q stands for no less liquidity than one of P.
PriceKept(P, Q) ==
  TotalSupply(P) > 0 /\ TotalSupply(Q) > 0 =>
    Q.totalLiquidity * TotalSupply(P) >= P.totalLiquidity * TotalSupply(Q)

\* Q has the liquidity and the LP tokens of P.
SameShares(P, Q) == Q.totalLiquidity = P.totalLiquidity /\ Q.lp = P.lp

\* The settings of a path are the same, and without weight it has no new credits.
SameSettings(P, Q, q) ==
  /\ Q.chainPaths[q].created = P.chainPaths[q].created
  /\ Q.chainPaths[q].ready = P.chainPaths[q].ready
  /\ Q.chainPaths[q].weight = P.chainPaths[q].weight
  /\ P.chainPaths[q].weight = 0 /\ P.chainPaths[q].credits = 0
       => Q.chainPaths[q].credits = 0

\* The chain paths of Q are those of P, but for their credits.
SamePaths(P, Q) ==
  \A q \in Pool :
    /\ SameSettings(P, Q, q)
    /\ Q.chainPaths[q].balance = P.chainPaths[q].balance
    /\ Q.chainPaths[q].lkb = P.chainPaths[q].lkb
-----------------------------------------------------------------------------
(* Arithmetic. *)

\* The product of two naturals is a natural.
LEMMA ProductNat == ASSUME NEW a \in Nat, NEW b \in Nat PROVE a * b \in Nat
OBVIOUS

\* The quotient of a natural is a natural, and not larger.
LEMMA QuotientNat ==
  ASSUME NEW a \in Nat, NEW d \in Nat \ {0}
  PROVE  a \div d \in Nat /\ a \div d <= a /\ (a \div d) * d <= a
<1>1. a \div d \in Nat /\ a = (a \div d) * d + (a % d) /\ a % d \in Nat
  OBVIOUS
<1> QED BY <1>1

\* A part of a whole, by a ratio of at most one, is at most the whole.
LEMMA PartOfWhole ==
  ASSUME NEW x \in Nat, NEW a \in Nat, NEW d \in Nat \ {0}, a <= d
  PROVE  (a * x) \div d \in Nat /\ (a * x) \div d <= x
<1> DEFINE t == (a * x) \div d
<1>1. a * x \in Nat /\ a * x <= d * x
  OBVIOUS
<1>2. t \in Nat /\ t * d <= a * x
  BY <1>1, QuotientNat
<1> HIDE DEF t
<1>3. t * d <= d * x
  BY <1>1, <1>2
<1>4. ASSUME t > x PROVE FALSE
  <2>1. t * d >= (x + 1) * d
    BY <1>2, <1>4
  <2>2. (x + 1) * d = d * x + d
    OBVIOUS
  <2>3. t * d \in Nat /\ d * x \in Nat
    BY <1>2
  <2> QED BY <1>3, <2>1, <2>2, <2>3
<1> QED BY <1>2, <1>4 DEF t

\* A part by a ratio below one is less than the whole.
LEMMA PartOfMore ==
  ASSUME NEW x \in Nat \ {0}, NEW a \in Nat, NEW d \in Nat \ {0}, a < d
  PROVE  (a * x) \div d < x
<1> DEFINE t == (a * x) \div d
<1>1. a * x \in Nat /\ a * x < d * x
  OBVIOUS
<1>2. t \in Nat /\ t * d <= a * x
  BY <1>1, QuotientNat
<1> HIDE DEF t
<1>3. ASSUME t >= x PROVE FALSE
  <2>1. t * d >= x * d /\ x * d = d * x
    BY <1>2, <1>3
  <2> QED BY <1>1, <1>2, <2>1
<1> QED BY <1>2, <1>3 DEF t

\* Burning a of the d tokens that stand for x, and paying out their part of x
\* rounded down, leaves the other tokens at least as much.
LEMMA BurnKeepsPrice ==
  ASSUME NEW x \in Nat, NEW a \in Nat, NEW d \in Nat \ {0}, a <= d
  PROVE  (x - (a * x) \div d) * d >= x * (d - a)
<1> DEFINE t == (a * x) \div d
<1>1. a * x \in Nat
  OBVIOUS
<1>2. t \in Nat /\ t * d <= a * x
  BY <1>1, QuotientNat
<1> HIDE DEF t
<1>3. (x - t) * d = x * d - t * d /\ x * (d - a) = x * d - a * x
  BY <1>2
<1>4. t * d \in Int /\ x * d \in Int
  BY <1>2
<1> QED BY <1>1, <1>2, <1>3, <1>4 DEF t

\* Minting for n the tokens that n is worth, rounded down, takes nothing from
\* the d tokens that stand for x.
LEMMA MintKeepsPrice ==
  ASSUME NEW x \in Nat \ {0}, NEW n \in Nat, NEW d \in Nat
  PROVE  (x + n) * d >= x * (d + (n * d) \div x)
<1> DEFINE t == (n * d) \div x
<1>1. n * d \in Nat
  OBVIOUS
<1>2. t \in Nat /\ t * x <= n * d
  BY <1>1, QuotientNat
<1> HIDE DEF t
<1>3. (x + n) * d = x * d + n * d /\ x * (d + t) = x * d + t * x
  BY <1>2
<1>4. t * x \in Int /\ x * d \in Int
  BY <1>2
<1> QED BY <1>1, <1>2, <1>3, <1>4 DEF t
-----------------------------------------------------------------------------
(* The maps of a pool and their totals. *)

\* The types of the parts of a pool.
LEMMA PoolTypes ==
  ASSUME NEW P \in PoolState
  PROVE  /\ IsFiniteSet(Pool) /\ IsFiniteSet(User)
         /\ P.chainPaths \in [Pool -> ChainPath] /\ P.lp \in [User -> Nat]
         /\ P.asset \in Nat /\ P.totalLiquidity \in Nat /\ P.eqFeePool \in Nat
         /\ P.protocolFeeBalance \in Nat /\ P.mintFeeBalance \in Nat
         /\ P.deltaCredit \in Nat /\ P.mintFeeBP \in 0 .. BP_DENOMINATOR
         /\ P.batched \in BOOLEAN /\ P.defaultSwapMode \in BOOLEAN
         /\ P.defaultLPMode \in BOOLEAN
BY PoolAssumption DEF PoolState

\* The types of a chain path.
LEMMA PathTypes ==
  ASSUME NEW P \in PoolState, NEW q \in Pool
  PROVE  /\ P.chainPaths[q] \in ChainPath
         /\ P.chainPaths[q].lkb \in Nat /\ P.chainPaths[q].credits \in Nat
         /\ P.chainPaths[q].weight \in Nat /\ P.chainPaths[q].balance \in Nat
         /\ P.chainPaths[q].idealBalance \in Nat
         /\ P.chainPaths[q].ready \in BOOLEAN /\ P.chainPaths[q].created \in BOOLEAN
BY DEF PoolState, ChainPath

\* The types of the maps and of their totals.
LEMMA MapTypes ==
  ASSUME NEW P \in PoolState
  PROVE  /\ LkbOf(P) \in [Pool -> Nat] /\ CreditMap(P) \in [Pool -> Nat]
         /\ WeightsOf(P) \in [Pool -> Nat]
         /\ Total(LkbOf(P)) \in Nat /\ Total(CreditMap(P)) \in Nat
         /\ TotalWeight(P) \in Nat /\ TotalWeight(P) = Total(WeightsOf(P))
         /\ TotalSupply(P) \in Nat
         /\ Booked(P) = P.eqFeePool + P.protocolFeeBalance + P.mintFeeBalance
                        + P.deltaCredit + Total(LkbOf(P)) + Total(CreditMap(P))
<1>1. /\ LkbOf(P) \in [Pool -> Nat] /\ CreditMap(P) \in [Pool -> Nat]
      /\ WeightsOf(P) \in [Pool -> Nat]
  BY PathTypes DEF LkbOf, CreditMap, WeightsOf
<1>2. TotalWeight(P) = Total(WeightsOf(P))
  BY DEF TotalWeight, WeightsOf
<1>3. TotalSupply(P) \in Nat
  BY PoolTypes, TotalType DEF TotalSupply
<1>4. Booked(P) = P.eqFeePool + P.protocolFeeBalance + P.mintFeeBalance
                  + P.deltaCredit + Total(LkbOf(P)) + Total(CreditMap(P))
  BY DEF Booked, LkbOf, CreditMap
<1> QED BY <1>1, <1>2, <1>3, <1>4, PoolTypes, TotalType

\* What a pool books is part of what it holds.
LEMMA BookedCovered ==
  ASSUME NEW P, PoolOK(P)
  PROVE  /\ P.deltaCredit <= P.asset /\ P.mintFeeBalance <= P.asset
         /\ P.protocolFeeBalance <= P.asset /\ Total(LkbOf(P)) <= P.asset
BY MapTypes, PoolTypes DEF PoolOK

\* What a pool keeps for one path is part of what it holds.
LEMMA LkbCovered ==
  ASSUME NEW P, PoolOK(P), NEW q \in Pool
  PROVE  P.chainPaths[q].lkb <= P.asset
<1>1. P \in PoolState
  BY DEF PoolOK
<1>2. LkbOf(P)[q] <= Total(LkbOf(P))
  BY <1>1, MapTypes, PoolTypes, TotalMember
<1>3. LkbOf(P)[q] = P.chainPaths[q].lkb
  BY DEF LkbOf
<1> QED BY <1>1, <1>2, <1>3, BookedCovered, MapTypes, PoolTypes, PathTypes

\* When one path changes, the totals change by what it changes.
LEMMA OnePathChanges ==
  ASSUME NEW P \in PoolState, NEW Q \in PoolState, NEW q \in Pool,
         \A r \in Pool \ {q} : /\ Q.chainPaths[r].lkb = P.chainPaths[r].lkb
                               /\ Q.chainPaths[r].credits = P.chainPaths[r].credits
  PROVE  /\ Total(LkbOf(Q)) + P.chainPaths[q].lkb
              = Total(LkbOf(P)) + Q.chainPaths[q].lkb
         /\ Total(CreditMap(Q)) + P.chainPaths[q].credits
              = Total(CreditMap(P)) + Q.chainPaths[q].credits
<1>1. Total(LkbOf(Q)) + LkbOf(P)[q] = Total(LkbOf(P)) + LkbOf(Q)[q]
  <2>1. \A r \in Pool \ {q} : LkbOf(Q)[r] = LkbOf(P)[r]
    BY DEF LkbOf
  <2> QED BY <2>1, MapTypes, PoolTypes, TotalChange
<1>2. Total(CreditMap(Q)) + CreditMap(P)[q] = Total(CreditMap(P)) + CreditMap(Q)[q]
  <2>1. \A r \in Pool \ {q} : CreditMap(Q)[r] = CreditMap(P)[r]
    BY DEF CreditMap
  <2> QED BY <2>1, MapTypes, PoolTypes, TotalChange
<1> QED BY <1>1, <1>2 DEF LkbOf, CreditMap

\* When no path changes, neither do the totals.
LEMMA NoPathChanges ==
  ASSUME NEW P, NEW Q,
         \A r \in Pool : /\ Q.chainPaths[r].lkb = P.chainPaths[r].lkb
                         /\ Q.chainPaths[r].credits = P.chainPaths[r].credits
  PROVE  LkbOf(Q) = LkbOf(P) /\ CreditMap(Q) = CreditMap(P)
BY DEF LkbOf, CreditMap
-----------------------------------------------------------------------------
(* The Delta algorithm. *)

\* The parts of an amount by weight are naturals and add up to at most the
\* amount.
LEMMA PortionsBounded ==
  ASSUME NEW P \in PoolState, TotalWeight(P) > 0, NEW n \in Nat
  PROVE  /\ \A q \in Pool : Portion(P, n, q) \in Nat
         /\ Total([q \in Pool |-> Portion(P, n, q)]) \in Nat
         /\ Total([q \in Pool |-> Portion(P, n, q)]) <= n
<1> DEFINE s == [q \in Pool |-> Portion(P, n, q)]
           w == WeightsOf(P)
<1>1. w \in [Pool -> Nat] /\ TotalWeight(P) = Total(w) /\ IsFiniteSet(Pool)
      /\ Total(w) \in Nat \ {0}
  BY MapTypes, PoolTypes
<1>2. \A q \in Pool : s[q] = (w[q] * n) \div Total(w)
  BY <1>1 DEF Portion, WeightsOf
<1>3. s \in [Pool -> Nat]
  <2>1. ASSUME NEW q \in Pool PROVE s[q] \in Nat
    <3>1. w[q] \in Nat
      BY <1>1
    <3> HIDE DEF w, s
    <3> QED BY <1>1, <1>2, <3>1, ProductNat, QuotientNat
  <2> QED BY <2>1
<1>4. Total(s) <= n
  <2> HIDE DEF w, s
  <2> QED BY <1>1, <1>2, <1>3, TotalShares
<1>5. Total(s) \in Nat
  BY <1>1, <1>3, TotalType
<1> QED BY <1>3, <1>4, <1>5

\* What the paths lack are naturals.
LEMMA DeficitTypes ==
  ASSUME NEW P \in PoolState, TotalWeight(P) > 0
  PROVE  /\ [q \in Pool |-> Deficit(P, q)] \in [Pool -> Nat]
         /\ TotalDeficit(P) \in Nat
         /\ TotalDeficit(P) = Total([q \in Pool |-> Deficit(P, q)])
<1>1. ASSUME NEW q \in Pool PROVE Deficit(P, q) \in Nat
  <2>1. Portion(P, P.totalLiquidity, q) \in Nat
    BY PortionsBounded, PoolTypes
  <2> QED BY <2>1, PathTypes DEF Deficit
<1> QED BY <1>1, PoolTypes, TotalType DEF TotalDeficit

\* Rounding and the split in two tranches never hand out more than there is.
LEMMA CreditsBounded ==
  ASSUME NEW P \in PoolState, DeltaRuns(P), NEW mode \in BOOLEAN
  PROVE  /\ [q \in Pool |-> AmtToCredit(P, mode, q)] \in [Pool -> Nat]
         /\ Total([q \in Pool |-> AmtToCredit(P, mode, q)]) \in Nat
         /\ Total([q \in Pool |-> AmtToCredit(P, mode, q)]) <= P.deltaCredit
<1> DEFINE amt == [q \in Pool |-> AmtToCredit(P, mode, q)]
           d == P.deltaCredit
           td == TotalDeficit(P)
           def == [q \in Pool |-> Deficit(P, q)]
           extra(n) == [q \in Pool |-> IF mode THEN Portion(P, n, q) ELSE 0]
<1>1. d \in Nat /\ td \in Nat /\ def \in [Pool -> Nat] /\ td = Total(def)
      /\ IsFiniteSet(Pool) /\ TotalWeight(P) > 0
  BY PoolTypes, DeficitTypes DEF DeltaRuns
<1>2. ASSUME NEW n \in Nat
      PROVE  extra(n) \in [Pool -> Nat] /\ Total(extra(n)) \in Nat
             /\ Total(extra(n)) <= n
  <2>1. CASE mode
    <3>1. extra(n) = [q \in Pool |-> Portion(P, n, q)]
      BY <2>1
    <3> HIDE DEF extra
    <3> QED BY <3>1, <1>1, PortionsBounded
  <2>2. CASE ~mode
    <3>1. extra(n) \in [Pool -> Nat] /\ \A q \in Pool : extra(n)[q] = 0
      BY <2>2
    <3> HIDE DEF extra
    <3>2. Total(extra(n)) = 0
      BY <3>1, TotalZero
    <3> QED BY <3>1, <3>2
  <2> QED BY <2>1, <2>2
<1>3. CASE td = 0
  <2>0. ASSUME NEW q \in Pool
        PROVE  AmtToCredit(P, mode, q) = IF mode THEN Portion(P, d, q) ELSE 0
    BY <1>1, <1>3 DEF AmtToCredit
  <2>1. amt = extra(d)
    BY <2>0
  <2> HIDE DEF extra, amt
  <2>2. amt \in [Pool -> Nat] /\ Total(amt) \in Nat /\ Total(amt) <= d
    BY <2>1, <1>1, <1>2
  <2> QED BY <2>2 DEF amt
<1>4. CASE td # 0 /\ td > d
  <2>1. \A q \in Pool : amt[q] = (def[q] * d) \div Total(def)
    BY <1>1, <1>4 DEF AmtToCredit
  <2>2. amt \in [Pool -> Nat]
    <3>1. ASSUME NEW q \in Pool PROVE amt[q] \in Nat
      <4>1. def[q] \in Nat /\ Total(def) \in Nat \ {0} /\ d \in Nat
        BY <1>1, <1>4
      <4> HIDE DEF def, amt, d
      <4> QED BY <2>1, <4>1, ProductNat, QuotientNat
    <3> QED BY <3>1
  <2>3. Total(amt) <= d
    <3> HIDE DEF def, amt, d, td
    <3> QED BY <1>1, <1>4, <2>1, <2>2, TotalShares
  <2>4. Total(amt) \in Nat
    BY <1>1, <2>2, TotalType
  <2> QED BY <2>2, <2>3, <2>4
<1>5. CASE td # 0 /\ td <= d
  <2> DEFINE most == [q \in Pool |-> def[q] + extra(d - td)[q]]
  <2>1. d - td \in Nat
    BY <1>1, <1>5
  <2>2. extra(d - td) \in [Pool -> Nat] /\ Total(extra(d - td)) <= d - td
        /\ Total(extra(d - td)) \in Nat
    BY <1>2, <2>1
  <2>3. most \in [Pool -> Nat]
    <3> HIDE DEF extra, def
    <3> QED BY <1>1, <2>2
  <2>4. Total(most) = Total(def) + Total(extra(d - td))
    <3> HIDE DEF extra, def
    <3>1. \A q \in Pool : most[q] = def[q] + extra(d - td)[q]
      OBVIOUS
    <3> HIDE DEF most
    <3> QED BY <1>1, <2>2, <2>3, <3>1, TotalAdd
  <2>5. \A q \in Pool : amt[q] = IF def[q] = 0 THEN 0 ELSE most[q]
    BY <1>1, <1>5 DEF AmtToCredit
  <2> HIDE DEF extra, def, most, amt
  <2>6. amt \in [Pool -> Nat] /\ \A q \in Pool : amt[q] <= most[q]
    <3>1. DOMAIN amt = Pool /\ amt = [q \in Pool |-> amt[q]]
      BY DEF amt
    <3>2. \A q \in Pool : amt[q] \in Nat /\ amt[q] <= most[q]
      BY <2>3, <2>5
    <3> QED BY <3>1, <3>2
  <2>7. Total(amt) <= Total(most) /\ Total(amt) \in Nat
    BY <1>1, <2>3, <2>6, TotalMonotonic, TotalType
  <2>8. Total(amt) <= d
    <3> HIDE DEF d, td
    <3> QED BY <1>1, <2>2, <2>4, <2>7
  <2> QED BY <2>6, <2>7, <2>8 DEF amt
<1> QED BY <1>1, <1>3, <1>4, <1>5

\* A path without weight gets no credits.
LEMMA NoWeightNoCredit ==
  ASSUME NEW P \in PoolState, DeltaRuns(P), NEW mode \in BOOLEAN, NEW q \in Pool,
         P.chainPaths[q].weight = 0
  PROVE  AmtToCredit(P, mode, q) = 0
<1>1. ASSUME NEW n \in Nat PROVE Portion(P, n, q) = 0
  <2>1. TotalWeight(P) \in Nat \ {0}
    BY MapTypes DEF DeltaRuns
  <2>2. n * 0 = 0 /\ 0 * n = 0
    OBVIOUS
  <2>3. 0 \div TotalWeight(P) = 0
    BY <2>1
  <2> QED BY <2>2, <2>3 DEF Portion
<1>2. P.deltaCredit \in Nat /\ TotalDeficit(P) \in Nat /\ P.totalLiquidity \in Nat
  BY PoolTypes, DeficitTypes DEF DeltaRuns
<1>3. Deficit(P, q) = 0
  BY <1>1, <1>2, PathTypes DEF Deficit
<1>4. TotalDeficit(P) > P.deltaCredit => (0 * P.deltaCredit) \div TotalDeficit(P) = 0
  <2>1. 0 * P.deltaCredit = 0
    BY <1>2
  <2>2. ASSUME NEW t \in Nat, t > 0 PROVE 0 \div t = 0
    BY <2>2
  <2> QED BY <1>2, <2>1, <2>2
<1>5. CASE TotalDeficit(P) = 0
  BY <1>1, <1>2, <1>5 DEF AmtToCredit
<1>6. CASE TotalDeficit(P) # 0
  BY <1>2, <1>3, <1>4, <1>6 DEF AmtToCredit
<1> QED BY <1>5, <1>6

\* Q is balanced and has all that P has but for credits.
Recredited(P, Q) ==
  /\ PoolOK(Q) /\ Net(Q) = Net(P) /\ Q.asset = P.asset
  /\ SameShares(P, Q) /\ SamePaths(P, Q)

\* _delta keeps the books, whichever mode it runs in.
LEMMA DeltaKeeps ==
  ASSUME NEW P, PoolOK(P), NEW mode \in BOOLEAN
  PROVE  Recredited(P, Delta(P, mode))
<1>0. P \in PoolState
  BY DEF PoolOK
<1>1. CASE ~DeltaRuns(P)
  BY <1>1 DEF Delta, Recredited, SameShares, SamePaths, SameSettings
<1>2. CASE DeltaRuns(P)
  <2> DEFINE Q == Delta(P, mode)
             amt == [q \in Pool |-> AmtToCredit(P, mode, q)]
  <2>1. /\ amt \in [Pool -> Nat] /\ Total(amt) \in Nat /\ Total(amt) <= P.deltaCredit
        /\ Spent(P, mode) = Total(amt)
    BY <1>0, <1>2, CreditsBounded DEF Spent
  <2>2. Q = [P EXCEPT
               !.chainPaths = [q \in Pool |->
                  [P.chainPaths[q] EXCEPT !.credits = @ + amt[q]]],
               !.deltaCredit = @ - Total(amt)]
    BY <1>2, <2>1 DEF Delta
  <2> HIDE DEF amt, Q
  <2>3. ASSUME NEW q \in Pool
        PROVE  /\ [P.chainPaths[q] EXCEPT !.credits = @ + amt[q]] \in ChainPath
               /\ [P.chainPaths[q] EXCEPT !.credits = @ + amt[q]].credits
                    = P.chainPaths[q].credits + amt[q]
    <3>1. P.chainPaths[q] \in ChainPath /\ amt[q] \in Nat
      BY <1>0, <2>1, PathTypes
    <3> QED BY <3>1 DEF ChainPath
  <2>4. /\ Q \in PoolState
        /\ Q.deltaCredit = P.deltaCredit - Total(amt)
        /\ \A q \in Pool : Q.chainPaths[q]
             = [P.chainPaths[q] EXCEPT !.credits = @ + amt[q]]
    <3> DEFINE paths == [q \in Pool |-> [P.chainPaths[q] EXCEPT !.credits = @ + amt[q]]]
               left == P.deltaCredit - Total(amt)
    <3>1. paths \in [Pool -> ChainPath]
      BY <2>3
    <3>2. left \in Nat
      BY <1>0, <2>1, PoolTypes
    <3>3. Q = [P EXCEPT !.chainPaths = paths, !.deltaCredit = left]
      BY <2>2
    <3>4. \A q \in Pool : paths[q] = [P.chainPaths[q] EXCEPT !.credits = @ + amt[q]]
      OBVIOUS
    <3> HIDE DEF paths, left
    <3>5. Q \in PoolState /\ Q.deltaCredit = left /\ Q.chainPaths = paths
      BY <1>0, <3>1, <3>2, <3>3 DEF PoolState
    <3> QED BY <3>4, <3>5 DEF left
  <2>5. /\ Q.asset = P.asset /\ Q.totalLiquidity = P.totalLiquidity /\ Q.lp = P.lp
        /\ Q.eqFeePool = P.eqFeePool /\ Q.protocolFeeBalance = P.protocolFeeBalance
        /\ Q.mintFeeBalance = P.mintFeeBalance
    BY <1>0, <2>2 DEF PoolState
  <2>6. SamePaths(P, Q)
    <3>1. ASSUME NEW q \in Pool
          PROVE  LET x == P.chainPaths[q] y == Q.chainPaths[q] IN
                 /\ y.created = x.created /\ y.ready = x.ready
                 /\ y.weight = x.weight /\ y.balance = x.balance /\ y.lkb = x.lkb
      <4>1. P.chainPaths[q] \in ChainPath
        BY <1>0, PathTypes
      <4> QED BY <4>1, <2>4 DEF ChainPath
    <3>2. ASSUME NEW q \in Pool, P.chainPaths[q].weight = 0, P.chainPaths[q].credits = 0
          PROVE  Q.chainPaths[q].credits = 0
      <4>1. amt[q] = 0
        BY <1>0, <1>2, <3>2, NoWeightNoCredit DEF amt
      <4>2. Q.chainPaths[q].credits = P.chainPaths[q].credits + amt[q]
        BY <2>3, <2>4
      <4> QED BY <3>2, <4>1, <4>2
    <3> QED BY <3>1, <3>2 DEF SamePaths, SameSettings
  <2>7. LkbOf(Q) = LkbOf(P)
    BY <2>6 DEF SamePaths, LkbOf
  <2>8. Total(CreditMap(Q)) = Total(CreditMap(P)) + Total(amt)
    <3>1. \A q \in Pool : CreditMap(Q)[q] = CreditMap(P)[q] + amt[q]
      BY <2>3, <2>4 DEF CreditMap
    <3> QED BY <1>0, <2>1, <2>4, <3>1, MapTypes, PoolTypes, TotalAdd
  <2>9. Booked(Q) = Booked(P)
    BY <1>0, <2>1, <2>4, <2>5, <2>7, <2>8, MapTypes, PoolTypes
  <2>10. PoolOK(Q)
    <3>1. TotalSupply(Q) = TotalSupply(P)
      BY <2>5 DEF TotalSupply
    <3> QED BY <2>4, <2>5, <2>9, <3>1 DEF PoolOK, SharesBacked
  <2> QED BY <2>5, <2>6, <2>10 DEF Recredited, SameShares, Net, Q
<1> QED BY <1>1, <1>2

\* A pool that batches after deposits and redemptions stays balanced.
LEMMA LpDeltaKeeps ==
  ASSUME NEW P, PoolOK(P), NEW mode \in BOOLEAN
  PROVE  Recredited(P, LpDelta(P, mode))
<1>1. Recredited(P, P)
  BY DEF Recredited, SameShares, SamePaths, SameSettings
<1> QED BY <1>1, DeltaKeeps DEF LpDelta

\* A pool that batches after swaps stays balanced.
LEMMA SwapDeltaKeeps ==
  ASSUME NEW P, PoolOK(P)
  PROVE  Recredited(P, SwapDelta(P))
<1>1. Recredited(P, P) /\ P.defaultSwapMode \in BOOLEAN
  BY PoolTypes DEF Recredited, SameShares, SamePaths, SameSettings, PoolOK
<1> QED BY <1>1, DeltaKeeps DEF SwapDelta
-----------------------------------------------------------------------------
(* Minting and burning. *)

\* When one provider's LP tokens change, the supply changes by as much.
LEMMA SupplyChange ==
  ASSUME NEW P \in PoolState, NEW Q \in PoolState, NEW u \in User, NEW n \in Nat,
         Q.lp = [P.lp EXCEPT ![u] = n]
  PROVE  TotalSupply(Q) + P.lp[u] = TotalSupply(P) + n
<1>1. P.lp \in [User -> Nat] /\ Q.lp \in [User -> Nat] /\ IsFiniteSet(User)
  BY PoolTypes
<1>2. Q.lp[u] = n /\ \A v \in User \ {u} : Q.lp[v] = P.lp[v]
  BY <1>1
<1> QED BY <1>1, <1>2, TotalChange DEF TotalSupply

\* Burning LP tokens takes their part of the liquidity out of the books.
LEMMA BurnKeeps ==
  ASSUME NEW P, PoolOK(P), NEW u \in User, NEW a \in Nat, CanBurn(P, u, a)
  PROVE  LET Q == BurnLocal(P, u, a)
             sd == AmountLPtoSD(P, a)
         IN  /\ PoolOK(Q) /\ PriceKept(P, Q) /\ sd \in Nat
             /\ Q.totalLiquidity = P.totalLiquidity - sd /\ Net(Q) = Net(P) + sd
             /\ Q.chainPaths = P.chainPaths
             /\ Q.asset = P.asset /\ Q.deltaCredit = P.deltaCredit
             /\ Q.defaultLPMode = P.defaultLPMode /\ Q.eqFeePool = P.eqFeePool
<1> DEFINE Q == BurnLocal(P, u, a)
           sd == AmountLPtoSD(P, a)
           ts == TotalSupply(P)
           tl == P.totalLiquidity
<1>0. P \in PoolState /\ SharesBacked(P) /\ P.asset = Booked(P)
  BY DEF PoolOK
<1>1. P.lp \in [User -> Nat] /\ P.lp[u] \in Nat /\ a <= P.lp[u] /\ tl \in Nat
  BY <1>0, PoolTypes DEF CanBurn
<1>2. ts \in Nat \ {0} /\ P.lp[u] <= ts /\ a <= ts
  <2>1. P.lp[u] <= ts
    BY <1>0, <1>1, PoolTypes, TotalMember DEF TotalSupply
  <2> QED BY <1>0, <1>1, <2>1, MapTypes DEF CanBurn
<1>3. sd \in Nat /\ sd <= tl
  <2> HIDE DEF ts, tl
  <2> QED BY <1>1, <1>2, PartOfWhole DEF AmountLPtoSD, ts, tl
<1>4. tl > 0 /\ (a < ts => sd < tl)
  <2>1. tl > 0
    BY <1>0, <1>2 DEF SharesBacked
  <2>2. (a * tl) \div ts = sd
    BY DEF AmountLPtoSD
  <2> HIDE DEF ts, tl, sd
  <2>3. tl \in Nat \ {0}
    BY <1>1, <2>1
  <2> QED BY <1>2, <2>1, <2>2, <2>3, PartOfMore
<1> DEFINE kept == P.lp[u] - a
           left == tl - sd
<1>5. kept \in Nat /\ left \in Nat
  <2> HIDE DEF tl, sd
  <2> QED BY <1>1, <1>3
<1>6. Q = [P EXCEPT !.totalLiquidity = left, !.lp = [P.lp EXCEPT ![u] = kept]]
  BY DEF BurnLocal
<1> HIDE DEF Q, sd, kept, left
<1>7. Q \in PoolState /\ Q.totalLiquidity = left /\ Q.lp = [P.lp EXCEPT ![u] = kept]
  BY <1>0, <1>1, <1>5, <1>6 DEF PoolState
<1>8. /\ Q.chainPaths = P.chainPaths /\ Q.asset = P.asset
      /\ Q.deltaCredit = P.deltaCredit /\ Q.defaultLPMode = P.defaultLPMode
      /\ Q.eqFeePool = P.eqFeePool /\ Q.protocolFeeBalance = P.protocolFeeBalance
      /\ Q.mintFeeBalance = P.mintFeeBalance
  BY <1>0, <1>6 DEF PoolState
<1>9. TotalSupply(Q) = ts - a
  <2>1. TotalSupply(Q) + P.lp[u] = ts + kept
    BY <1>0, <1>5, <1>7, SupplyChange
  <2>2. TotalSupply(Q) \in Nat
    BY <1>7, MapTypes
  <2> HIDE DEF ts
  <2> QED BY <1>1, <1>2, <2>1, <2>2 DEF kept
<1>10. Booked(Q) = Booked(P)
  <2>1. LkbOf(Q) = LkbOf(P) /\ CreditMap(Q) = CreditMap(P)
    BY <1>8, NoPathChanges
  <2> QED BY <1>0, <1>7, <1>8, <2>1, MapTypes
<1>11. SharesBacked(Q)
  <2> SUFFICES ASSUME TotalSupply(Q) > 0 PROVE Q.totalLiquidity > 0
    BY DEF SharesBacked
  <2> HIDE DEF ts, tl
  <2> QED BY <1>1, <1>2, <1>3, <1>4, <1>7, <1>9 DEF left
<1>12. PriceKept(P, Q)
  <2>1. left * ts >= tl * (ts - a)
    <3>1. left = tl - (a * tl) \div ts
      BY DEF left, sd, AmountLPtoSD
    <3> HIDE DEF ts, tl
    <3> QED BY <1>1, <1>2, <3>1, BurnKeepsPrice
  <2> QED BY <1>7, <1>9, <2>1 DEF PriceKept
<1>13. Net(Q) = Net(P) + sd
  BY <1>0, <1>3, <1>7, <1>8, PoolTypes DEF Net, left
<1>14. PoolOK(Q)
  BY <1>0, <1>7, <1>8, <1>10, <1>11 DEF PoolOK
<1> QED BY <1>3, <1>7, <1>8, <1>12, <1>13, <1>14 DEF Q, sd, left

\* An instant redemption pays no more than the credits not handed out.
LEMMA InstantRedeemKeeps ==
  ASSUME NEW P, PoolOK(P), NEW u \in User, NEW a \in Nat, CanRedeemAtOnce(P, u, a)
  PROVE  LET Q == InstantRedeemLocal(P, u, a)
         IN  PoolOK(Q) /\ PriceKept(P, Q) /\ Net(Q) = Net(P) /\ SamePaths(P, Q)
<1> DEFINE b == CapAmountLP(P, a)
           sd == AmountLPtoSD(P, b)
           B == BurnLocal(P, u, b)
           Q == InstantRedeemLocal(P, u, a)
           ts == TotalSupply(P)
           tl == P.totalLiquidity
           dc == P.deltaCredit
<1>0. P \in PoolState
  BY DEF PoolOK
<1>1. tl \in Nat \ {0} /\ ts \in Nat \ {0} /\ dc \in Nat /\ CanBurn(P, u, b)
  BY <1>0, PoolTypes, MapTypes DEF CanRedeemAtOnce, CanBurn
<1> DEFINE cap == (dc * ts) \div tl
<1>2. cap \in Nat /\ cap * tl <= dc * ts
  <2>1. dc * ts \in Nat
    BY <1>1, ProductNat
  <2> HIDE DEF ts, tl, dc
  <2> QED BY <1>1, <2>1, QuotientNat
<1>3. b = (IF a > cap THEN cap ELSE a)
  BY DEF CapAmountLP, AmountSDtoLP
<1>4. b \in Nat /\ b <= cap
  <2> HIDE DEF b, cap
  <2> QED BY <1>2, <1>3
<1>5. sd = (b * tl) \div ts
  BY DEF AmountLPtoSD
<1> HIDE DEF b, cap
<1>6. /\ PoolOK(B) /\ PriceKept(P, B) /\ sd \in Nat
      /\ B.totalLiquidity = tl - sd /\ Net(B) = Net(P) + sd
      /\ B.chainPaths = P.chainPaths /\ B.asset = P.asset /\ B.deltaCredit = dc
  BY <1>1, <1>4, BurnKeeps
<1>7. sd <= dc
  <2> HIDE DEF ts, tl, dc, sd
  <2>1. b * tl \in Nat /\ b * tl <= cap * tl
    BY <1>1, <1>2, <1>4
  <2>2. sd * ts <= b * tl
    BY <1>1, <1>5, <2>1, QuotientNat
  <2>3. sd * ts <= dc * ts
    <3>1. sd * ts \in Int /\ cap * tl \in Int /\ dc * ts \in Int
      BY <1>1, <1>2, <1>6
    <3> QED BY <1>2, <2>1, <2>2, <3>1
  <2>4. ASSUME sd > dc PROVE FALSE
    <3>1. sd * ts >= (dc + 1) * ts /\ (dc + 1) * ts = dc * ts + ts
      BY <1>1, <1>6, <2>4
    <3>2. dc * ts \in Int /\ sd * ts \in Int
      BY <1>1, <1>6
    <3> QED BY <1>1, <2>3, <3>1, <3>2
  <2> QED BY <1>1, <1>6, <2>4
<1>8. sd <= B.asset /\ B \in PoolState /\ B.deltaCredit <= B.asset
  <2>1. B \in PoolState /\ B.deltaCredit <= B.asset
    BY <1>6, BookedCovered DEF PoolOK
  <2> HIDE DEF B, sd, dc
  <2> QED BY <1>1, <1>6, <1>7, <2>1, PoolTypes
<1>9. Q = [B EXCEPT !.deltaCredit = @ - sd, !.asset = @ - sd]
  BY DEF InstantRedeemLocal, b
<1> HIDE DEF Q, B, sd
<1>10. B.deltaCredit - sd \in Nat /\ B.asset - sd \in Nat
  BY <1>1, <1>6, <1>7, <1>8, PoolTypes
<1>11. /\ Q \in PoolState /\ Q.deltaCredit = B.deltaCredit - sd
       /\ Q.asset = B.asset - sd
  BY <1>8, <1>9, <1>10 DEF PoolState
<1>12. /\ Q.chainPaths = B.chainPaths /\ Q.totalLiquidity = B.totalLiquidity
       /\ Q.lp = B.lp /\ Q.eqFeePool = B.eqFeePool
       /\ Q.protocolFeeBalance = B.protocolFeeBalance
       /\ Q.mintFeeBalance = B.mintFeeBalance
  BY <1>8, <1>9 DEF PoolState
<1>13. Q.asset = Booked(Q)
  <2>1. LkbOf(Q) = LkbOf(B) /\ CreditMap(Q) = CreditMap(B)
    BY <1>12, NoPathChanges
  <2>2. B.asset = Booked(B)
    BY <1>6 DEF PoolOK
  <2>3. Booked(Q) = Booked(B) - sd
    <3>1. Booked(B) = B.eqFeePool + B.protocolFeeBalance + B.mintFeeBalance
                      + B.deltaCredit + Total(LkbOf(B)) + Total(CreditMap(B))
      BY <1>8, MapTypes
    <3>2. Booked(Q) = Q.eqFeePool + Q.protocolFeeBalance + Q.mintFeeBalance
                      + Q.deltaCredit + Total(LkbOf(Q)) + Total(CreditMap(Q))
      BY <1>11, MapTypes
    <3>3. Total(LkbOf(B)) \in Nat /\ Total(CreditMap(B)) \in Nat
      BY <1>8, MapTypes
    <3> QED BY <1>6, <1>8, <1>11, <1>12, <2>1, <3>1, <3>2, <3>3, PoolTypes
  <2> QED BY <1>11, <2>2, <2>3
<1>14. TotalSupply(Q) = TotalSupply(B)
  BY <1>12 DEF TotalSupply
<1>15. PoolOK(Q)
  BY <1>6, <1>11, <1>12, <1>13, <1>14 DEF PoolOK, SharesBacked
<1>16. PriceKept(P, Q)
  BY <1>6, <1>12, <1>14 DEF PriceKept
<1>17. Net(Q) = Net(P)
  <2>1. Net(Q) = Net(B) - sd
    BY <1>6, <1>8, <1>11, <1>12, PoolTypes DEF Net
  <2>2. Net(P) \in Int
    BY <1>0, PoolTypes DEF Net
  <2> QED BY <1>6, <2>1, <2>2
<1>18. SamePaths(P, Q)
  BY <1>6, <1>12 DEF SamePaths, SameSettings
<1> QED BY <1>15, <1>16, <1>17, <1>18 DEF Q

\* A deposit, or the part of a redemption that is minted back: what is minted
\* is booked as liquidity and, of a deposit, as credit and as mint fee too.
LEMMA MintLocalKeeps ==
  ASSUME NEW P \in PoolState, SharesBacked(P), CanMint(P), NEW u \in User,
         NEW n \in Nat, NEW deposit \in BOOLEAN,
         P.asset = Booked(P) + (IF deposit THEN n ELSE 0)
  PROVE  LET Q == MintLocal(P, u, n, deposit, deposit)
         IN  /\ PoolOK(Q) /\ PriceKept(P, Q) /\ Net(Q) = Net(P) - n
             /\ SamePaths(P, Q) /\ Q.asset = P.asset
<1> DEFINE fee == IF deposit THEN (n * P.mintFeeBP) \div BP_DENOMINATOR ELSE 0
           added == n - fee
           ts == TotalSupply(P)
           tl == P.totalLiquidity
           lp == IF ts = 0 THEN added ELSE AmountSDtoLP(P, added)
           M == [P EXCEPT !.mintFeeBalance = @ + fee,
                          !.deltaCredit = IF deposit THEN @ + added ELSE @,
                          !.totalLiquidity = @ + added,
                          !.lp[u] = @ + lp]
           Q == MintLocal(P, u, n, deposit, deposit)
<1>1. Q = LpDelta(M, P.defaultLPMode)
  BY DEF MintLocal
<1>2. fee \in Nat /\ fee <= n
  <2>1. CASE deposit
    <3>1. P.mintFeeBP \in Nat /\ P.mintFeeBP <= BP_DENOMINATOR
          /\ BP_DENOMINATOR \in Nat \ {0}
      BY PoolTypes, PoolAssumption
    <3>2. n * P.mintFeeBP = P.mintFeeBP * n
      BY <3>1
    <3> QED BY <2>1, <3>1, <3>2, PartOfWhole
  <2>2. CASE ~deposit
    BY <2>2
  <2> QED BY <2>1, <2>2
<1>3. ts \in Nat /\ tl \in Nat /\ (ts # 0 => tl > 0)
  BY MapTypes, PoolTypes DEF CanMint
<1>4. added \in Nat /\ added + fee = n /\ (~deposit => fee = 0 /\ added = n)
  <2>1. ~deposit => fee = 0
    OBVIOUS
  <2> HIDE DEF fee
  <2> QED BY <1>2, <2>1
<1> HIDE DEF fee, added
<1>5. /\ ts # 0 => lp = (added * ts) \div tl
      /\ ts = 0 => lp = added
  BY DEF AmountSDtoLP
<1> HIDE DEF ts, tl, lp
<1>6. lp \in Nat
  <2>1. CASE ts = 0
    BY <1>4, <1>5, <2>1
  <2>2. CASE ts # 0
    BY <1>3, <1>4, <1>5, <2>2, ProductNat, QuotientNat
  <2> QED BY <2>1, <2>2
<1> DEFINE shares == [P.lp EXCEPT ![u] = P.lp[u] + lp]
           credit == IF deposit THEN P.deltaCredit + added ELSE P.deltaCredit
<1>7. shares \in [User -> Nat] /\ credit \in Nat /\ P.lp[u] \in Nat
  BY <1>4, <1>6, PoolTypes
<1>8. M = [P EXCEPT !.mintFeeBalance = P.mintFeeBalance + fee,
                    !.deltaCredit = credit,
                    !.totalLiquidity = P.totalLiquidity + added,
                    !.lp = shares]
  OBVIOUS
<1> HIDE DEF M, shares, credit
<1>9. /\ M \in PoolState /\ M.lp = shares /\ M.deltaCredit = credit
      /\ M.totalLiquidity = tl + added /\ M.mintFeeBalance = P.mintFeeBalance + fee
  <2>1. P.mintFeeBalance + fee \in Nat /\ P.totalLiquidity + added \in Nat
    BY <1>2, <1>4, PoolTypes
  <2> QED BY <1>7, <1>8, <2>1 DEF PoolState, tl
<1>10. /\ M.chainPaths = P.chainPaths /\ M.asset = P.asset
       /\ M.eqFeePool = P.eqFeePool /\ M.protocolFeeBalance = P.protocolFeeBalance
  BY <1>8 DEF PoolState
<1>11. TotalSupply(M) = ts + lp
  <2>1. TotalSupply(M) + P.lp[u] = ts + (P.lp[u] + lp)
    BY <1>6, <1>7, <1>9, SupplyChange DEF shares, ts
  <2>2. TotalSupply(M) \in Nat
    BY <1>9, MapTypes
  <2> QED BY <1>3, <1>6, <1>7, <2>1, <2>2
<1>12. M.asset = Booked(M)
  <2>1. LkbOf(M) = LkbOf(P) /\ CreditMap(M) = CreditMap(P)
    BY <1>10, NoPathChanges
  <2>2. Booked(M) = M.eqFeePool + M.protocolFeeBalance + M.mintFeeBalance
                    + M.deltaCredit + Total(LkbOf(M)) + Total(CreditMap(M))
    BY <1>9, MapTypes
  <2>3. credit + fee = P.deltaCredit + (IF deposit THEN n ELSE 0)
    BY <1>2, <1>4, PoolTypes DEF credit
  <2>4. Booked(M) = Booked(P) + (IF deposit THEN n ELSE 0)
    <3> DEFINE gain == IF deposit THEN n ELSE 0
    <3>1. gain \in Nat /\ credit + fee = P.deltaCredit + gain
      BY <2>3
    <3> HIDE DEF gain
    <3>2. Booked(M) = Booked(P) + gain
      BY <1>2, <1>7, <1>9, <1>10, <2>1, <2>2, <3>1, MapTypes, PoolTypes
    <3> QED BY <3>2 DEF gain
  <2> QED BY <1>10, <2>4
<1>13. SharesBacked(M) /\ PriceKept(P, M)
  <2>1. CASE ts = 0
    BY <1>3, <1>4, <1>5, <1>9, <1>11, <2>1 DEF SharesBacked, PriceKept, ts
  <2>2. CASE ts # 0
    <3>1. (tl + added) * ts >= tl * (ts + (added * ts) \div tl)
      BY <1>3, <1>4, <2>2, MintKeepsPrice
    <3> QED BY <1>3, <1>4, <1>5, <1>9, <1>11, <2>2, <3>1
            DEF SharesBacked, PriceKept, ts, tl
  <2> QED BY <2>1, <2>2
<1>14. Net(M) = Net(P) - n
  BY <1>2, <1>4, <1>9, <1>10, PoolTypes DEF Net, tl
<1>15. Recredited(M, Q)
  <2>1. PoolOK(M) /\ P.defaultLPMode \in BOOLEAN
    BY <1>9, <1>12, <1>13, PoolTypes DEF PoolOK
  <2> QED BY <1>1, <2>1, LpDeltaKeeps
<1>16. TotalSupply(Q) = TotalSupply(M) /\ Q.totalLiquidity = M.totalLiquidity
  BY <1>15 DEF Recredited, SameShares, TotalSupply
<1>17. PriceKept(P, Q)
  BY <1>13, <1>16 DEF PriceKept
<1>18. SamePaths(P, Q)
  BY <1>10, <1>15 DEF Recredited, SamePaths, SameSettings
<1>19. Q.asset = P.asset
  BY <1>10, <1>15 DEF Recredited
<1> QED BY <1>14, <1>15, <1>17, <1>18, <1>19 DEF Recredited, Q

\* The same for a deposit, with the tokens that come in.
LEMMA MintKeeps ==
  ASSUME NEW P, PoolOK(P), CanMint(P), NEW u \in User, NEW n \in Nat
  PROVE  LET Q == Mint(P, u, n)
         IN  /\ PoolOK(Q) /\ PriceKept(P, Q) /\ Net(Q) = Net(P) /\ SamePaths(P, Q)
             /\ Q.asset = P.asset + n
<1> DEFINE D == [P EXCEPT !.asset = @ + n]
           Q == Mint(P, u, n)
<1>1. P \in PoolState /\ SharesBacked(P) /\ P.asset = Booked(P) /\ P.asset \in Nat
  BY PoolTypes DEF PoolOK
<1>2. /\ D \in PoolState /\ D.asset = P.asset + n
      /\ D.chainPaths = P.chainPaths /\ D.lp = P.lp
      /\ D.totalLiquidity = P.totalLiquidity /\ D.eqFeePool = P.eqFeePool
      /\ D.protocolFeeBalance = P.protocolFeeBalance
      /\ D.mintFeeBalance = P.mintFeeBalance /\ D.deltaCredit = P.deltaCredit
  BY <1>1 DEF PoolState
<1>3. Q = MintLocal(D, u, n, TRUE, TRUE)
  BY DEF Mint
<1> HIDE DEF D, Q
<1>4. /\ Booked(D) = Booked(P) /\ TotalSupply(D) = TotalSupply(P)
      /\ TotalWeight(D) = TotalWeight(P)
  BY <1>2 DEF Booked, TotalSupply, TotalWeight
<1>5. SharesBacked(D) /\ CanMint(D) /\ D.asset = Booked(D) + n
  BY <1>1, <1>2, <1>4 DEF SharesBacked, CanMint
<1>6. /\ PoolOK(Q) /\ PriceKept(D, Q) /\ Net(Q) = Net(D) - n
      /\ SamePaths(D, Q) /\ Q.asset = D.asset
  BY <1>2, <1>3, <1>5, MintLocalKeeps
<1>7. Net(D) = Net(P) + n /\ Net(P) \in Int
  BY <1>1, <1>2, PoolTypes DEF Net
<1>8. Net(Q) = Net(P)
  BY <1>6, <1>7
<1>9. PriceKept(P, Q) /\ SamePaths(P, Q)
  BY <1>2, <1>4, <1>6 DEF PriceKept, SamePaths, SameSettings
<1> QED BY <1>2, <1>6, <1>8, <1>9 DEF Q

\* A redemption that is paid out elsewhere.
LEMMA RedeemKeeps ==
  ASSUME NEW P, PoolOK(P), NEW u \in User, NEW a \in Nat, CanBurn(P, u, a),
         NEW mode \in BOOLEAN
  PROVE  LET Q == LpDelta(BurnLocal(P, u, a), mode)
             sd == AmountLPtoSD(P, a)
         IN  /\ PoolOK(Q) /\ PriceKept(P, Q) /\ sd \in Nat
             /\ Net(Q) = Net(P) + sd /\ SamePaths(P, Q)
<1> DEFINE B == BurnLocal(P, u, a)
           Q == LpDelta(B, mode)
           sd == AmountLPtoSD(P, a)
<1>1. /\ PoolOK(B) /\ PriceKept(P, B) /\ sd \in Nat /\ Net(B) = Net(P) + sd
      /\ B.chainPaths = P.chainPaths
  BY BurnKeeps
<1> HIDE DEF B, sd
<1>2. Recredited(B, Q)
  BY <1>1, LpDeltaKeeps
<1> HIDE DEF Q
<1>3. PriceKept(P, Q)
  BY <1>1, <1>2 DEF Recredited, SameShares, TotalSupply, PriceKept
<1>4. SamePaths(P, Q)
  BY <1>1, <1>2 DEF Recredited, SamePaths, SameSettings
<1> QED BY <1>1, <1>2, <1>3, <1>4 DEF Recredited, Q, B, sd
-----------------------------------------------------------------------------
(* Both sides of a transfer. *)

\* On the path to q, Q may promise db more than P and keeps dl more.
PathsMoved(P, Q, q, db, dl) ==
  /\ \A r \in Pool : SameSettings(P, Q, r)
  /\ \A r \in Pool \ {q} : /\ Q.chainPaths[r].balance = P.chainPaths[r].balance
                           /\ Q.chainPaths[r].lkb = P.chainPaths[r].lkb
  /\ Q.chainPaths[q].balance = P.chainPaths[q].balance + db
  /\ Q.chainPaths[q].lkb = P.chainPaths[q].lkb + dl

\* Replacing one chain path, and what that does to the pool.
LEMMA PathReplaced ==
  ASSUME NEW P \in PoolState, NEW q \in Pool, NEW x \in ChainPath,
         NEW Q, Q.chainPaths = [P.chainPaths EXCEPT ![q] = x], Q \in PoolState,
         x.created = P.chainPaths[q].created, x.ready = P.chainPaths[q].ready,
         x.weight = P.chainPaths[q].weight,
         x.credits \in {0, P.chainPaths[q].credits}
  PROVE  /\ Q.chainPaths[q] = x
         /\ PathsMoved(P, Q, q, x.balance - P.chainPaths[q].balance,
                                x.lkb - P.chainPaths[q].lkb)
         /\ Total(LkbOf(Q)) + P.chainPaths[q].lkb = Total(LkbOf(P)) + x.lkb
         /\ Total(CreditMap(Q)) + P.chainPaths[q].credits
              = Total(CreditMap(P)) + x.credits
<1>1. P.chainPaths \in [Pool -> ChainPath]
  BY PoolTypes
<1>2. /\ Q.chainPaths[q] = x
      /\ \A r \in Pool \ {q} : Q.chainPaths[r] = P.chainPaths[r]
  BY <1>1
<1>3. /\ x.balance \in Nat /\ x.lkb \in Nat /\ P.chainPaths[q].balance \in Nat
      /\ P.chainPaths[q].lkb \in Nat
  BY PathTypes DEF ChainPath
<1>4. PathsMoved(P, Q, q, x.balance - P.chainPaths[q].balance,
                          x.lkb - P.chainPaths[q].lkb)
  <2>1. \A r \in Pool : SameSettings(P, Q, r)
    BY <1>2 DEF SameSettings
  <2> QED BY <1>2, <1>3, <2>1 DEF PathsMoved
<1>5. /\ Total(LkbOf(Q)) + P.chainPaths[q].lkb = Total(LkbOf(P)) + Q.chainPaths[q].lkb
      /\ Total(CreditMap(Q)) + P.chainPaths[q].credits
           = Total(CreditMap(P)) + Q.chainPaths[q].credits
  BY <1>2, OnePathChanges
<1> QED BY <1>2, <1>4, <1>5

\* A swap leaves: its liquidity becomes credit, and so does the reward.
LEMMA SwapKeeps ==
  ASSUME NEW P, PoolOK(P), NEW q \in Pool, NEW s, NEW n \in Nat, NEW new,
         CanSwap(P, q, s), s.eqReward \in Nat, s.lkbRemove \in Nat,
         NEW added \in Nat, new => added = n, ~new => added = 0
  PROVE  LET Q == Swap(P, q, n, s, new)
         IN  /\ PoolOK(Q) /\ SameShares(P, Q)
             /\ Net(Q) = Net(P) + added + s.eqReward
             /\ PathsMoved(P, Q, q, 0 - s.lkbRemove, 0)
<1> DEFINE x == [P.chainPaths[q] EXCEPT !.balance = @ - s.lkbRemove]
           M == [P EXCEPT !.eqFeePool = @ - s.eqReward,
                          !.chainPaths[q].balance = @ - s.lkbRemove,
                          !.deltaCredit = @ + added + s.eqReward,
                          !.asset = @ + added]
           Q == Swap(P, q, n, s, new)
<1>0. P \in PoolState
  BY DEF PoolOK
<1>1. Q = SwapDelta(M)
  <2>1. added = IF new THEN n ELSE 0
    OBVIOUS
  <2> QED BY <2>1 DEF Swap
<1>2. /\ added \in Nat /\ s.eqReward <= P.eqFeePool
      /\ s.lkbRemove <= P.chainPaths[q].balance
  BY DEF CanSwap
<1>3. /\ x \in ChainPath /\ x.balance = P.chainPaths[q].balance - s.lkbRemove
      /\ x.lkb = P.chainPaths[q].lkb /\ x.credits = P.chainPaths[q].credits
      /\ x.created = P.chainPaths[q].created /\ x.ready = P.chainPaths[q].ready
      /\ x.weight = P.chainPaths[q].weight
  <2>1. P.chainPaths[q] \in ChainPath /\ P.chainPaths[q].balance - s.lkbRemove \in Nat
    BY <1>0, <1>2, PathTypes
  <2> QED BY <2>1 DEF ChainPath
<1> DEFINE eq == P.eqFeePool - s.eqReward
           credit == P.deltaCredit + added + s.eqReward
           paths == [P.chainPaths EXCEPT ![q] = x]
<1>4. eq \in Nat /\ credit \in Nat /\ P.asset + added \in Nat
      /\ paths \in [Pool -> ChainPath]
  BY <1>0, <1>2, <1>3, PoolTypes
<1>5. M = [P EXCEPT !.eqFeePool = eq, !.chainPaths = paths, !.deltaCredit = credit,
                    !.asset = P.asset + added]
  OBVIOUS
<1> HIDE DEF M, x, eq, credit, paths
<1>6. /\ M \in PoolState /\ M.eqFeePool = eq /\ M.chainPaths = paths
      /\ M.deltaCredit = credit /\ M.asset = P.asset + added
  BY <1>0, <1>4, <1>5 DEF PoolState
<1>7. /\ M.totalLiquidity = P.totalLiquidity /\ M.lp = P.lp
      /\ M.protocolFeeBalance = P.protocolFeeBalance
      /\ M.mintFeeBalance = P.mintFeeBalance
  BY <1>0, <1>5 DEF PoolState
<1>8. /\ PathsMoved(P, M, q, x.balance - P.chainPaths[q].balance,
                             x.lkb - P.chainPaths[q].lkb)
      /\ Total(LkbOf(M)) + P.chainPaths[q].lkb = Total(LkbOf(P)) + x.lkb
      /\ Total(CreditMap(M)) + P.chainPaths[q].credits
           = Total(CreditMap(P)) + x.credits
  BY <1>0, <1>3, <1>6, PathReplaced DEF paths
<1>9. Total(LkbOf(M)) = Total(LkbOf(P)) /\ Total(CreditMap(M)) = Total(CreditMap(P))
  <2>1. /\ Total(LkbOf(M)) \in Nat /\ Total(LkbOf(P)) \in Nat
        /\ Total(CreditMap(M)) \in Nat /\ Total(CreditMap(P)) \in Nat
    BY <1>0, <1>6, MapTypes
  <2>2. P.chainPaths[q].lkb \in Nat /\ P.chainPaths[q].credits \in Nat
    BY <1>0, PathTypes
  <2> QED BY <1>3, <1>8, <2>1, <2>2
<1>10. M.asset = Booked(M)
  <2>1. Booked(M) = Booked(P) + added
    BY <1>0, <1>2, <1>6, <1>7, <1>9, MapTypes, PoolTypes DEF eq, credit
  <2> QED BY <1>6, <2>1 DEF PoolOK
<1>11. PoolOK(M)
  BY <1>6, <1>7, <1>10 DEF PoolOK, SharesBacked, TotalSupply
<1>12. Net(M) = Net(P) + added + s.eqReward
  BY <1>0, <1>2, <1>6, <1>7, PoolTypes DEF Net, eq
<1>13. Recredited(M, Q)
  BY <1>1, <1>11, SwapDeltaKeeps
<1>14. PathsMoved(P, Q, q, 0 - s.lkbRemove, 0)
  <2>1. PathsMoved(P, M, q, 0 - s.lkbRemove, 0)
    <3>1. /\ x.balance - P.chainPaths[q].balance = 0 - s.lkbRemove
          /\ x.lkb - P.chainPaths[q].lkb = 0
      BY <1>0, <1>3, PathTypes
    <3> QED BY <1>8, <3>1
  <2> QED BY <1>13, <2>1 DEF Recredited, SamePaths, SameSettings, PathsMoved
<1> QED BY <1>7, <1>12, <1>13, <1>14 DEF Recredited, SameShares, Q

\* The credits of a path leave with a message, and are kept for the other end.
LEMMA SendCreditsKeeps ==
  ASSUME NEW P, PoolOK(P), NEW q \in Pool, CanSendCredits(P, q)
  PROVE  LET Q == SendCredits(P, q)
             c == CreditsOf(P, q)
         IN  /\ PoolOK(Q) /\ SameShares(P, Q) /\ Net(Q) = Net(P)
             /\ c \in CreditObj /\ PathsMoved(P, Q, q, 0, c.credits)
<1> DEFINE Q == SendCredits(P, q)
           c == CreditsOf(P, q)
           x == [P.chainPaths[q] EXCEPT !.lkb = @ + P.chainPaths[q].credits,
                                        !.credits = 0]
           paths == [P.chainPaths EXCEPT ![q] = x]
<1>0. P \in PoolState
  BY DEF PoolOK
<1>1. /\ x \in ChainPath /\ x.lkb = P.chainPaths[q].lkb + P.chainPaths[q].credits
      /\ x.balance = P.chainPaths[q].balance /\ x.credits = 0
      /\ x.created = P.chainPaths[q].created /\ x.ready = P.chainPaths[q].ready
      /\ x.weight = P.chainPaths[q].weight
  <2> DEFINE y == P.chainPaths[q]
             l == y.lkb + y.credits
  <2>1. y \in ChainPath /\ l \in Nat /\ x = [y EXCEPT !.lkb = l, !.credits = 0]
    BY <1>0, PathTypes
  <2> HIDE DEF x, l, y
  <2>2. /\ x \in ChainPath /\ x.lkb = l /\ x.credits = 0 /\ x.balance = y.balance
        /\ x.created = y.created /\ x.ready = y.ready /\ x.weight = y.weight
    BY <2>1 DEF ChainPath
  <2> QED BY <2>2 DEF y, l
<1>2. paths \in [Pool -> ChainPath] /\ Q = [P EXCEPT !.chainPaths = paths]
  <2>1. P.chainPaths \in [Pool -> ChainPath]
    BY <1>0, PoolTypes
  <2>2. Q = [P EXCEPT !.chainPaths = paths]
    BY <2>1 DEF SendCredits
  <2> HIDE DEF Q, x
  <2> QED BY <1>1, <2>1, <2>2
<1>3. c \in CreditObj /\ c.credits = P.chainPaths[q].credits
  <2>1. Portion(P, P.totalLiquidity, q) \in Nat
    BY <1>0, PoolTypes, PortionsBounded DEF CanSendCredits
  <2>2. P.chainPaths[q].credits \in Nat
    BY <1>0, PathTypes
  <2> QED BY <2>1, <2>2 DEF CreditsOf, CreditObj
<1> HIDE DEF Q, x, c, paths
<1>4. /\ Q \in PoolState /\ Q.chainPaths = paths
      /\ Q.asset = P.asset /\ Q.totalLiquidity = P.totalLiquidity /\ Q.lp = P.lp
      /\ Q.eqFeePool = P.eqFeePool /\ Q.protocolFeeBalance = P.protocolFeeBalance
      /\ Q.mintFeeBalance = P.mintFeeBalance /\ Q.deltaCredit = P.deltaCredit
  BY <1>0, <1>2 DEF PoolState
<1>5. /\ PathsMoved(P, Q, q, x.balance - P.chainPaths[q].balance,
                             x.lkb - P.chainPaths[q].lkb)
      /\ Total(LkbOf(Q)) + P.chainPaths[q].lkb = Total(LkbOf(P)) + x.lkb
      /\ Total(CreditMap(Q)) + P.chainPaths[q].credits
           = Total(CreditMap(P)) + x.credits
  BY <1>0, <1>1, <1>4, PathReplaced DEF paths
<1>6. Booked(Q) = Booked(P)
  <2>1. /\ Total(LkbOf(Q)) \in Nat /\ Total(LkbOf(P)) \in Nat
        /\ Total(CreditMap(Q)) \in Nat /\ Total(CreditMap(P)) \in Nat
    BY <1>0, <1>4, MapTypes
  <2>2. P.chainPaths[q].lkb \in Nat /\ P.chainPaths[q].credits \in Nat
    BY <1>0, PathTypes
  <2>3. Total(LkbOf(Q)) + Total(CreditMap(Q)) = Total(LkbOf(P)) + Total(CreditMap(P))
    BY <1>1, <1>5, <2>1, <2>2
  <2> QED BY <1>0, <1>4, <2>1, <2>3, MapTypes, PoolTypes
<1>7. PoolOK(Q)
  BY <1>4, <1>6 DEF PoolOK, SharesBacked, TotalSupply
<1>8. PathsMoved(P, Q, q, 0, c.credits)
  <2>1. /\ x.balance - P.chainPaths[q].balance = 0
        /\ x.lkb - P.chainPaths[q].lkb = c.credits
    BY <1>0, <1>1, <1>3, PathTypes
  <2> QED BY <1>5, <2>1
<1> QED BY <1>3, <1>4, <1>7, <1>8 DEF SameShares, Net, Q, c

\* Credits that arrive may be promised.
LEMMA CreditKeeps ==
  ASSUME NEW P, PoolOK(P), NEW q \in Pool, NEW c \in CreditObj
  PROVE  LET Q == CreditChainPath(P, q, c)
         IN  /\ PoolOK(Q) /\ SameShares(P, Q) /\ Net(Q) = Net(P)
             /\ PathsMoved(P, Q, q, c.credits, 0)
<1> DEFINE Q == CreditChainPath(P, q, c)
           x == [P.chainPaths[q] EXCEPT !.balance = @ + c.credits,
                                        !.idealBalance = c.idealBalance]
           paths == [P.chainPaths EXCEPT ![q] = x]
<1>0. P \in PoolState /\ c.credits \in Nat /\ c.idealBalance \in Nat
  BY DEF PoolOK, CreditObj
<1>1. /\ x \in ChainPath /\ x.lkb = P.chainPaths[q].lkb
      /\ x.balance = P.chainPaths[q].balance + c.credits
      /\ x.credits = P.chainPaths[q].credits
      /\ x.created = P.chainPaths[q].created /\ x.ready = P.chainPaths[q].ready
      /\ x.weight = P.chainPaths[q].weight
  <2> DEFINE y == P.chainPaths[q]
             b == y.balance + c.credits
  <2>1. /\ y \in ChainPath /\ b \in Nat
        /\ x = [y EXCEPT !.balance = b, !.idealBalance = c.idealBalance]
    BY <1>0, PathTypes
  <2> HIDE DEF x, b, y
  <2>2. /\ x \in ChainPath /\ x.balance = b /\ x.lkb = y.lkb /\ x.credits = y.credits
        /\ x.created = y.created /\ x.ready = y.ready /\ x.weight = y.weight
    BY <1>0, <2>1 DEF ChainPath
  <2> QED BY <2>2 DEF y, b
<1>2. paths \in [Pool -> ChainPath] /\ Q = [P EXCEPT !.chainPaths = paths]
  <2>1. P.chainPaths \in [Pool -> ChainPath]
    BY <1>0, PoolTypes
  <2>2. Q = [P EXCEPT !.chainPaths = paths]
    BY <2>1 DEF CreditChainPath
  <2> HIDE DEF Q, x
  <2> QED BY <1>1, <2>1, <2>2
<1> HIDE DEF Q, x, paths
<1>4. /\ Q \in PoolState /\ Q.chainPaths = paths
      /\ Q.asset = P.asset /\ Q.totalLiquidity = P.totalLiquidity /\ Q.lp = P.lp
      /\ Q.eqFeePool = P.eqFeePool /\ Q.protocolFeeBalance = P.protocolFeeBalance
      /\ Q.mintFeeBalance = P.mintFeeBalance /\ Q.deltaCredit = P.deltaCredit
  BY <1>0, <1>2 DEF PoolState
<1>5. /\ PathsMoved(P, Q, q, x.balance - P.chainPaths[q].balance,
                             x.lkb - P.chainPaths[q].lkb)
      /\ Total(LkbOf(Q)) + P.chainPaths[q].lkb = Total(LkbOf(P)) + x.lkb
      /\ Total(CreditMap(Q)) + P.chainPaths[q].credits
           = Total(CreditMap(P)) + x.credits
  BY <1>0, <1>1, <1>4, PathReplaced DEF paths
<1>6. Booked(Q) = Booked(P)
  <2>1. /\ Total(LkbOf(Q)) \in Nat /\ Total(LkbOf(P)) \in Nat
        /\ Total(CreditMap(Q)) \in Nat /\ Total(CreditMap(P)) \in Nat
    BY <1>0, <1>4, MapTypes
  <2>2. P.chainPaths[q].lkb \in Nat /\ P.chainPaths[q].credits \in Nat
    BY <1>0, PathTypes
  <2>3. Total(LkbOf(Q)) = Total(LkbOf(P)) /\ Total(CreditMap(Q)) = Total(CreditMap(P))
    BY <1>1, <1>5, <2>1, <2>2
  <2> QED BY <1>0, <1>4, <2>3, MapTypes, PoolTypes
<1>7. PoolOK(Q)
  BY <1>4, <1>6 DEF PoolOK, SharesBacked, TotalSupply
<1>8. PathsMoved(P, Q, q, c.credits, 0)
  <2>1. /\ x.balance - P.chainPaths[q].balance = c.credits
        /\ x.lkb - P.chainPaths[q].lkb = 0
    BY <1>0, <1>1, PathTypes
  <2> QED BY <1>5, <2>1
<1> QED BY <1>4, <1>7, <1>8 DEF SameShares, Net, Q

\* What a swap carries adds up to what it takes off the path.
SwapAdds(s) == s.lkbRemove = s.amount + s.eqFee + s.protocolFee + s.eqReward

\* A swap arrives: its amount and reward are paid out, its fees stay.
LEMMA SwapRemoteKeeps ==
  ASSUME NEW P, PoolOK(P), NEW q \in Pool, NEW s \in SwapObj, SwapAdds(s),
         CanSwapRemote(P, q, s)
  PROVE  LET Q == SwapRemote(P, q, s)
         IN  /\ PoolOK(Q) /\ PriceKept(P, Q)
             /\ Net(Q) = Net(P) - s.lkbRemove - s.lpFee
             /\ PathsMoved(P, Q, q, 0, 0 - s.lkbRemove)
<1> DEFINE Q == SwapRemote(P, q, s)
           x == [P.chainPaths[q] EXCEPT !.lkb = @ - s.lkbRemove]
           paths == [P.chainPaths EXCEPT ![q] = x]
           tl == P.totalLiquidity + s.lpFee
           eq == P.eqFeePool + s.eqFee
           pf == P.protocolFeeBalance + s.protocolFee
           rest == P.asset - s.amount - s.eqReward
<1>0. /\ P \in PoolState
      /\ s.amount \in Nat /\ s.eqFee \in Nat /\ s.eqReward \in Nat
      /\ s.lpFee \in Nat /\ s.protocolFee \in Nat /\ s.lkbRemove \in Nat
      /\ s.lkbRemove = s.amount + s.eqFee + s.protocolFee + s.eqReward
      /\ s.lkbRemove <= P.chainPaths[q].lkb /\ s.amount + s.eqReward <= P.asset
  BY DEF PoolOK, SwapObj, CanSwapRemote, SwapAdds
<1>1. /\ x \in ChainPath /\ x.lkb = P.chainPaths[q].lkb - s.lkbRemove
      /\ x.balance = P.chainPaths[q].balance
      /\ x.credits = P.chainPaths[q].credits
      /\ x.created = P.chainPaths[q].created /\ x.ready = P.chainPaths[q].ready
      /\ x.weight = P.chainPaths[q].weight
  <2>1. P.chainPaths[q] \in ChainPath /\ P.chainPaths[q].lkb - s.lkbRemove \in Nat
    BY <1>0, PathTypes
  <2> QED BY <1>0, <2>1 DEF ChainPath
<1>2. Q = [P EXCEPT !.totalLiquidity = tl, !.eqFeePool = eq,
                    !.protocolFeeBalance = pf, !.chainPaths = paths, !.asset = rest]
  <2>1. P.chainPaths \in [Pool -> ChainPath]
    BY <1>0, PoolTypes
  <2> QED BY <2>1 DEF SwapRemote
<1>3. /\ paths \in [Pool -> ChainPath] /\ tl \in Nat /\ eq \in Nat /\ pf \in Nat
      /\ rest \in Nat
  BY <1>0, <1>1, PoolTypes
<1> HIDE DEF Q, x, paths, tl, eq, pf, rest
<1>4. /\ Q \in PoolState /\ Q.chainPaths = paths /\ Q.asset = rest
      /\ Q.totalLiquidity = tl /\ Q.eqFeePool = eq /\ Q.protocolFeeBalance = pf
  BY <1>0, <1>2, <1>3 DEF PoolState
<1>5. /\ Q.lp = P.lp /\ Q.mintFeeBalance = P.mintFeeBalance
      /\ Q.deltaCredit = P.deltaCredit
  BY <1>0, <1>2 DEF PoolState
<1>6. /\ PathsMoved(P, Q, q, x.balance - P.chainPaths[q].balance,
                             x.lkb - P.chainPaths[q].lkb)
      /\ Total(LkbOf(Q)) + P.chainPaths[q].lkb = Total(LkbOf(P)) + x.lkb
      /\ Total(CreditMap(Q)) + P.chainPaths[q].credits
           = Total(CreditMap(P)) + x.credits
  BY <1>0, <1>1, <1>4, PathReplaced DEF paths
<1>7. Q.asset = Booked(Q)
  <2>1. /\ Total(LkbOf(Q)) \in Nat /\ Total(LkbOf(P)) \in Nat
        /\ Total(CreditMap(Q)) \in Nat /\ Total(CreditMap(P)) \in Nat
    BY <1>0, <1>4, MapTypes
  <2>2. P.chainPaths[q].lkb \in Nat /\ P.chainPaths[q].credits \in Nat
    BY <1>0, PathTypes
  <2>3. /\ Total(LkbOf(Q)) = Total(LkbOf(P)) - s.lkbRemove
        /\ Total(CreditMap(Q)) = Total(CreditMap(P))
    <3>1. /\ Total(LkbOf(Q)) + P.chainPaths[q].lkb
               = Total(LkbOf(P)) + (P.chainPaths[q].lkb - s.lkbRemove)
          /\ Total(CreditMap(Q)) + P.chainPaths[q].credits
               = Total(CreditMap(P)) + P.chainPaths[q].credits
      BY <1>1, <1>6
    <3>2. s.lkbRemove \in Nat
      BY <1>0
    <3> QED BY <3>1, <3>2, <2>1, <2>2
  <2>4. P.asset = P.eqFeePool + P.protocolFeeBalance + P.mintFeeBalance
                  + P.deltaCredit + Total(LkbOf(P)) + Total(CreditMap(P))
    BY <1>0, MapTypes DEF PoolOK
  <2>5. Booked(Q) = Q.eqFeePool + Q.protocolFeeBalance + Q.mintFeeBalance
                    + Q.deltaCredit + Total(LkbOf(Q)) + Total(CreditMap(Q))
    BY <1>4, MapTypes
  <2> QED BY <1>0, <1>4, <1>5, <2>1, <2>3, <2>4, <2>5, PoolTypes DEF eq, pf, rest
<1>8. TotalSupply(Q) = TotalSupply(P) /\ TotalSupply(P) \in Nat
  BY <1>0, <1>5, MapTypes DEF TotalSupply
<1>9. P.totalLiquidity \in Nat
  BY <1>0, PoolTypes
<1>10. PoolOK(Q)
  BY <1>0, <1>4, <1>7, <1>8, <1>9 DEF PoolOK, SharesBacked, tl
<1>11. PriceKept(P, Q)
  <2>1. ASSUME NEW a \in Nat, NEW b \in Nat, NEW d \in Nat
        PROVE  (a + b) * d >= a * d
    OBVIOUS
  <2> QED BY <1>0, <1>4, <1>8, <1>9, <2>1 DEF PriceKept, tl
<1>12. Net(Q) = Net(P) - s.lkbRemove - s.lpFee
  BY <1>0, <1>4, <1>5, PoolTypes DEF Net, tl, eq, pf, rest
<1>13. PathsMoved(P, Q, q, 0, 0 - s.lkbRemove)
  <2>1. /\ x.balance - P.chainPaths[q].balance = 0
        /\ x.lkb - P.chainPaths[q].lkb = 0 - s.lkbRemove
    BY <1>0, <1>1, PathTypes
  <2> QED BY <1>6, <2>1
<1> QED BY <1>10, <1>11, <1>12, <1>13 DEF Q

\* The remote check of a local redemption takes what it grants off the balance.
LEMMA CheckKeeps ==
  ASSUME NEW P, PoolOK(P), NEW q \in Pool, NEW n \in Nat
  PROVE  LET Q == RedeemLocalCheckOnRemote(P, q, n)
             granted == RedeemedOnRemote(P, q, n)
         IN  /\ PoolOK(Q) /\ SameShares(P, Q) /\ Net(Q) = Net(P)
             /\ granted \in Nat /\ granted <= n
             /\ PathsMoved(P, Q, q, 0 - granted, 0)
<1> DEFINE Q == RedeemLocalCheckOnRemote(P, q, n)
           y == P.chainPaths[q]
           granted == RedeemedOnRemote(P, q, n)
           b == y.balance - granted
           x == [y EXCEPT !.balance = b]
           paths == [P.chainPaths EXCEPT ![q] = x]
<1>0. P \in PoolState /\ y \in ChainPath
  BY PathTypes DEF PoolOK
<1>1. granted \in Nat /\ granted <= n /\ b \in Nat
  BY <1>0, PathTypes DEF RedeemedOnRemote
<1>2. Q = [P EXCEPT !.chainPaths = paths]
  <2>1. P.chainPaths \in [Pool -> ChainPath]
    BY <1>0, PoolTypes
  <2> QED BY <2>1 DEF RedeemLocalCheckOnRemote
<1> HIDE DEF Q, y, granted
<1>3. /\ x \in ChainPath /\ x.balance = b /\ x.lkb = y.lkb /\ x.credits = y.credits
      /\ x.created = y.created /\ x.ready = y.ready /\ x.weight = y.weight
  <2> HIDE DEF b
  <2> QED BY <1>0, <1>1 DEF ChainPath
<1>4. paths \in [Pool -> ChainPath]
  <2> HIDE DEF x
  <2> QED BY <1>0, <1>3, PoolTypes
<1> HIDE DEF x, paths
<1>5. /\ Q \in PoolState /\ Q.chainPaths = paths
      /\ Q.asset = P.asset /\ Q.totalLiquidity = P.totalLiquidity /\ Q.lp = P.lp
      /\ Q.eqFeePool = P.eqFeePool /\ Q.protocolFeeBalance = P.protocolFeeBalance
      /\ Q.mintFeeBalance = P.mintFeeBalance /\ Q.deltaCredit = P.deltaCredit
  BY <1>0, <1>2, <1>4 DEF PoolState
<1>6. /\ PathsMoved(P, Q, q, x.balance - y.balance, x.lkb - y.lkb)
      /\ Total(LkbOf(Q)) + y.lkb = Total(LkbOf(P)) + x.lkb
      /\ Total(CreditMap(Q)) + y.credits = Total(CreditMap(P)) + x.credits
  BY <1>0, <1>3, <1>5, PathReplaced DEF paths, y
<1>7. y.lkb \in Nat /\ y.credits \in Nat /\ y.balance \in Nat
  BY <1>0, PathTypes DEF y
<1>8. Booked(Q) = Booked(P)
  <2>1. /\ Total(LkbOf(Q)) \in Nat /\ Total(LkbOf(P)) \in Nat
        /\ Total(CreditMap(Q)) \in Nat /\ Total(CreditMap(P)) \in Nat
    BY <1>0, <1>5, MapTypes
  <2>2. Total(LkbOf(Q)) = Total(LkbOf(P)) /\ Total(CreditMap(Q)) = Total(CreditMap(P))
    BY <1>3, <1>6, <1>7, <2>1
  <2> QED BY <1>0, <1>5, <2>2, MapTypes, PoolTypes
<1>9. PoolOK(Q)
  BY <1>5, <1>8 DEF PoolOK, SharesBacked, TotalSupply
<1>10. PathsMoved(P, Q, q, 0 - granted, 0)
  <2>1. x.balance - y.balance = 0 - granted /\ x.lkb - y.lkb = 0
    BY <1>1, <1>3, <1>7
  <2> QED BY <1>6, <2>1
<1> QED BY <1>1, <1>5, <1>9, <1>10 DEF SameShares, Net, Q, granted

\* The answer to a local redemption: a part is paid out, the rest minted back.
LEMMA CallbackKeeps ==
  ASSUME NEW P, PoolOK(P), NEW q \in Pool, NEW u \in User, NEW n \in Nat,
         NEW m \in Nat, CanRedeemCallback(P, q, n, m)
  PROVE  LET Q == RedeemLocalCallback(P, q, u, n, m)
         IN  /\ PoolOK(Q) /\ PriceKept(P, Q) /\ Net(Q) = Net(P) - n - m
             /\ PathsMoved(P, Q, q, 0, 0 - n)
<1> DEFINE M == IF m > 0 THEN MintLocal(P, u, m, FALSE, FALSE) ELSE P
           Q == RedeemLocalCallback(P, q, u, n, m)
           y == M.chainPaths[q]
           l == y.lkb - n
           x == [y EXCEPT !.lkb = l]
           paths == [M.chainPaths EXCEPT ![q] = x]
<1>0. /\ P \in PoolState /\ SharesBacked(P) /\ P.asset = Booked(P) /\ Net(P) \in Int
      /\ n <= P.chainPaths[q].lkb /\ n <= P.asset /\ (m > 0 => CanMint(P))
      /\ TotalSupply(P) \in Nat /\ P.totalLiquidity \in Nat /\ P.asset \in Nat
  BY PoolTypes, MapTypes DEF PoolOK, CanRedeemCallback, Net
<1>1. /\ PoolOK(M) /\ PriceKept(P, M) /\ Net(M) = Net(P) - m /\ SamePaths(P, M)
      /\ M.asset = P.asset
  <2>1. CASE m > 0
    <3>1. P.asset = Booked(P) + (IF FALSE THEN m ELSE 0)
      BY <1>0
    <3>2. FALSE \in BOOLEAN
      OBVIOUS
    <3>3. LET R == MintLocal(P, u, m, FALSE, FALSE)
          IN  /\ PoolOK(R) /\ PriceKept(P, R) /\ Net(R) = Net(P) - m
              /\ SamePaths(P, R) /\ R.asset = P.asset
      BY <1>0, <2>1, <3>1, <3>2, MintLocalKeeps
    <3> QED BY <2>1, <3>3
  <2>2. CASE m = 0
    <3>1. M = P
      BY <2>2
    <3>2. PriceKept(P, P)
      BY <1>0 DEF PriceKept
    <3>3. Net(P) = Net(P) - m
      BY <1>0, <2>2
    <3>4. SamePaths(P, P)
      BY DEF SamePaths, SameSettings
    <3> HIDE DEF M
    <3>5. P.asset = P.asset /\ PoolOK(P)
      OBVIOUS
    <3> QED BY <3>1, <3>2, <3>3, <3>4, <3>5
  <2>3. m > 0 \/ m = 0
    OBVIOUS
  <2> HIDE DEF M
  <2> QED BY <2>1, <2>2, <2>3
<1>2. Q = [M EXCEPT !.chainPaths[q].lkb = @ - n, !.asset = @ - n]
  BY DEF RedeemLocalCallback
<1> HIDE DEF M, Q
<1>3. M \in PoolState /\ y \in ChainPath /\ y.lkb = P.chainPaths[q].lkb
      /\ y.lkb \in Nat /\ y.credits \in Nat /\ y.balance \in Nat
  BY <1>1, PathTypes DEF PoolOK, SamePaths
<1> DEFINE rest == M.asset - n
<1>4. l \in Nat /\ rest \in Nat
  <2> HIDE DEF y
  <2> QED BY <1>0, <1>1, <1>3
<1>5. Q = [M EXCEPT !.chainPaths = paths, !.asset = rest]
  <2>1. M.chainPaths \in [Pool -> ChainPath]
    BY <1>3, PoolTypes
  <2> QED BY <1>2, <2>1
<1> HIDE DEF y, l, rest
<1>6. /\ x \in ChainPath /\ x.balance = y.balance /\ x.lkb = l /\ x.credits = y.credits
      /\ x.created = y.created /\ x.ready = y.ready /\ x.weight = y.weight
  BY <1>3, <1>4 DEF ChainPath
<1>7. paths \in [Pool -> ChainPath]
  <2> HIDE DEF x
  <2> QED BY <1>3, <1>6, PoolTypes
<1> HIDE DEF x, paths
<1>8. /\ Q \in PoolState /\ Q.chainPaths = paths /\ Q.asset = rest
      /\ Q.totalLiquidity = M.totalLiquidity /\ Q.lp = M.lp
      /\ Q.eqFeePool = M.eqFeePool /\ Q.protocolFeeBalance = M.protocolFeeBalance
      /\ Q.mintFeeBalance = M.mintFeeBalance /\ Q.deltaCredit = M.deltaCredit
  BY <1>3, <1>4, <1>5, <1>7 DEF PoolState
<1>9. /\ PathsMoved(M, Q, q, x.balance - y.balance, x.lkb - y.lkb)
      /\ Total(LkbOf(Q)) + y.lkb = Total(LkbOf(M)) + x.lkb
      /\ Total(CreditMap(Q)) + y.credits = Total(CreditMap(M)) + x.credits
  BY <1>3, <1>6, <1>8, PathReplaced DEF paths, y
<1>10. Q.asset = Booked(Q)
  <2>1. /\ Total(LkbOf(Q)) \in Nat /\ Total(LkbOf(M)) \in Nat
        /\ Total(CreditMap(Q)) \in Nat /\ Total(CreditMap(M)) \in Nat
    BY <1>3, <1>8, MapTypes
  <2>2. Total(LkbOf(Q)) = Total(LkbOf(M)) - n /\ Total(CreditMap(Q)) = Total(CreditMap(M))
    <3>1. /\ Total(LkbOf(Q)) + y.lkb = Total(LkbOf(M)) + (y.lkb - n)
          /\ Total(CreditMap(Q)) + y.credits = Total(CreditMap(M)) + y.credits
      BY <1>6, <1>9 DEF l
    <3>2. y.lkb \in Nat /\ y.credits \in Nat
      BY <1>3
    <3> QED BY <2>1, <3>1, <3>2
  <2>3. M.asset = M.eqFeePool + M.protocolFeeBalance + M.mintFeeBalance
                  + M.deltaCredit + Total(LkbOf(M)) + Total(CreditMap(M))
    BY <1>1, <1>3, MapTypes DEF PoolOK
  <2>4. Booked(Q) = Q.eqFeePool + Q.protocolFeeBalance + Q.mintFeeBalance
                    + Q.deltaCredit + Total(LkbOf(Q)) + Total(CreditMap(Q))
    BY <1>8, MapTypes
  <2> QED BY <1>3, <1>8, <2>1, <2>2, <2>3, <2>4, PoolTypes DEF rest
<1>11. TotalSupply(Q) = TotalSupply(M)
  BY <1>8 DEF TotalSupply
<1>12. PoolOK(Q)
  BY <1>1, <1>8, <1>10, <1>11 DEF PoolOK, SharesBacked
<1>13. PriceKept(P, Q)
  BY <1>1, <1>8, <1>11 DEF PriceKept
<1>14. Net(Q) = Net(P) - n - m
  <2>1. Net(Q) = Net(M) - n
    BY <1>3, <1>8, PoolTypes DEF Net, rest
  <2> QED BY <1>0, <1>1, <2>1
<1>15. PathsMoved(P, Q, q, 0, 0 - n)
  <2>1. x.balance - y.balance = 0 /\ x.lkb - y.lkb = 0 - n
    BY <1>3, <1>6 DEF l
  <2>2. PathsMoved(M, Q, q, 0, 0 - n)
    BY <1>9, <2>1
  <2> QED BY <1>1, <2>2 DEF PathsMoved, SamePaths, SameSettings
<1> QED BY <1>12, <1>13, <1>14, <1>15 DEF Q
-----------------------------------------------------------------------------
(* Calls of the DAO. *)

\* Fees are withdrawn from what is booked for them.
LEMMA WithdrawKeeps ==
  ASSUME NEW P, PoolOK(P), NEW Q,
         Q \in {WithdrawMintFeeBalance(P), WithdrawProtocolFeeBalance(P)}
  PROVE  PoolOK(Q) /\ SameShares(P, Q) /\ Net(Q) = Net(P) /\ SamePaths(P, Q)
<1>1. P \in PoolState
  BY DEF PoolOK
<1>2. P.asset - P.mintFeeBalance \in Nat /\ P.asset - P.protocolFeeBalance \in Nat
  BY <1>1, BookedCovered, PoolTypes
<1>3. /\ Q \in PoolState /\ Q.chainPaths = P.chainPaths
      /\ Q.totalLiquidity = P.totalLiquidity /\ Q.lp = P.lp
      /\ Q.eqFeePool = P.eqFeePool /\ Q.deltaCredit = P.deltaCredit
      /\ Q.asset - Q.mintFeeBalance - Q.protocolFeeBalance
           = P.asset - P.mintFeeBalance - P.protocolFeeBalance
  <2>1. CASE Q = WithdrawMintFeeBalance(P)
    <3>1. /\ Q \in PoolState /\ Q.chainPaths = P.chainPaths
          /\ Q.totalLiquidity = P.totalLiquidity /\ Q.lp = P.lp
          /\ Q.eqFeePool = P.eqFeePool /\ Q.deltaCredit = P.deltaCredit
          /\ Q.asset = P.asset - P.mintFeeBalance /\ Q.mintFeeBalance = 0
          /\ Q.protocolFeeBalance = P.protocolFeeBalance
      BY <1>1, <1>2, <2>1 DEF WithdrawMintFeeBalance, PoolState
    <3> QED BY <1>1, <3>1, PoolTypes
  <2>2. CASE Q = WithdrawProtocolFeeBalance(P)
    <3>1. /\ Q \in PoolState /\ Q.chainPaths = P.chainPaths
          /\ Q.totalLiquidity = P.totalLiquidity /\ Q.lp = P.lp
          /\ Q.eqFeePool = P.eqFeePool /\ Q.deltaCredit = P.deltaCredit
          /\ Q.asset = P.asset - P.protocolFeeBalance /\ Q.protocolFeeBalance = 0
          /\ Q.mintFeeBalance = P.mintFeeBalance
      BY <1>1, <1>2, <2>2 DEF WithdrawProtocolFeeBalance, PoolState
    <3> QED BY <1>1, <3>1, PoolTypes
  <2> QED BY <2>1, <2>2
<1>4. Q.asset = Booked(Q)
  <2>1. LkbOf(Q) = LkbOf(P) /\ CreditMap(Q) = CreditMap(P)
    BY <1>3, NoPathChanges
  <2>2. P.asset = P.eqFeePool + P.protocolFeeBalance + P.mintFeeBalance
                  + P.deltaCredit + Total(LkbOf(P)) + Total(CreditMap(P))
    BY <1>1, MapTypes DEF PoolOK
  <2>3. Booked(Q) = Q.eqFeePool + Q.protocolFeeBalance + Q.mintFeeBalance
                    + Q.deltaCredit + Total(LkbOf(Q)) + Total(CreditMap(Q))
    BY <1>3, MapTypes
  <2>4. /\ P.asset \in Nat /\ P.eqFeePool \in Nat /\ P.protocolFeeBalance \in Nat
        /\ P.mintFeeBalance \in Nat /\ P.deltaCredit \in Nat
        /\ Q.asset \in Nat /\ Q.protocolFeeBalance \in Nat /\ Q.mintFeeBalance \in Nat
        /\ Total(LkbOf(P)) \in Nat /\ Total(CreditMap(P)) \in Nat
    BY <1>1, <1>3, MapTypes, PoolTypes
  <2> QED BY <1>3, <2>1, <2>2, <2>3, <2>4
<1>5. PoolOK(Q)
  BY <1>3, <1>4 DEF PoolOK, SharesBacked, TotalSupply
<1>6. Net(Q) = Net(P)
  BY <1>1, <1>3, PoolTypes DEF Net
<1> QED BY <1>3, <1>5, <1>6 DEF SameShares, SamePaths, SameSettings
=============================================================================
