------------------------ MODULE StargatePartsProofs ------------------------
(***************************************************************************)
(* Theorems about the parts of Stargate that share no state with the       *)
(* others: the Delta algorithm of one pool, the token on all chains, the   *)
(* staking of LP tokens and the fees of a swap.                            *)
(***************************************************************************)
EXTENDS StargatePoolProofs, StargateDelta, StargateFees, OmnichainToken, LPStaking,
        SequenceTheorems

(* The Delta algorithm. *)

\* A pool whose paths all have a weight, as the DAO gives them.
Weighted(P) == P \in PoolState /\ \A q \in Pool : P.chainPaths[q].weight > 0

\* The weights of such a pool, if it has a path.
LEMMA WeightedTotal ==
  ASSUME NEW P, Weighted(P), Pool # {}
  PROVE  TotalWeight(P) \in Nat \ {0}
<1>1. PICK q \in Pool : TRUE
  OBVIOUS
<1>2. WeightsOf(P) \in [Pool -> Nat] /\ TotalWeight(P) = Total(WeightsOf(P))
      /\ TotalWeight(P) \in Nat /\ IsFiniteSet(Pool)
  BY MapTypes, PoolTypes DEF Weighted
<1>3. WeightsOf(P)[q] > 0
  BY DEF Weighted, WeightsOf
<1>4. WeightsOf(P)[q] <= Total(WeightsOf(P))
  BY <1>2, TotalMember
<1> QED BY <1>2, <1>3, <1>4

\* What one call does to a pool: credits grow by what each path is due.
LEMMA DeltaStep ==
  ASSUME NEW P, Weighted(P), Pool # {}, NEW mode \in BOOLEAN
  PROVE  /\ Weighted(Delta(P, mode))
         /\ Spent(P, mode) \in Nat /\ Spent(P, mode) <= P.deltaCredit
         /\ Delta(P, mode).deltaCredit = P.deltaCredit - Spent(P, mode)
         /\ Delta(P, mode).totalLiquidity = P.totalLiquidity
         /\ \A q \in Pool :
              /\ Delta(P, mode).chainPaths[q].weight = P.chainPaths[q].weight
              /\ Delta(P, mode).chainPaths[q].lkb = P.chainPaths[q].lkb
              /\ Delta(P, mode).chainPaths[q].credits =
                   P.chainPaths[q].credits
                     + (IF DeltaRuns(P) THEN AmtToCredit(P, mode, q) ELSE 0)
<1>0. P \in PoolState /\ P.chainPaths \in [Pool -> ChainPath] /\ P.deltaCredit \in Nat
  BY PoolTypes DEF Weighted
<1>1. CASE ~DeltaRuns(P)
  BY <1>0, <1>1, PathTypes DEF Delta, Spent
<1>2. CASE DeltaRuns(P)
  <2> DEFINE amt == [q \in Pool |-> AmtToCredit(P, mode, q)]
             Q == Delta(P, mode)
             paths == [q \in Pool |->
               [P.chainPaths[q] EXCEPT !.credits = @ + AmtToCredit(P, mode, q)]]
  <2>1. amt \in [Pool -> Nat] /\ Total(amt) \in Nat /\ Total(amt) <= P.deltaCredit
    BY <1>0, <1>2, CreditsBounded
  <2>2. Spent(P, mode) = Total(amt)
    BY <1>2 DEF Spent
  <2>3. Q = [P EXCEPT !.chainPaths = paths, !.deltaCredit = @ - Spent(P, mode)]
    BY <1>2 DEF Delta
  <2>4. ASSUME NEW q \in Pool
        PROVE  /\ paths[q] \in ChainPath
               /\ paths[q].weight = P.chainPaths[q].weight
               /\ paths[q].lkb = P.chainPaths[q].lkb
               /\ paths[q].credits = P.chainPaths[q].credits + AmtToCredit(P, mode, q)
    <3>1. amt[q] = AmtToCredit(P, mode, q) /\ amt[q] \in Nat
      BY <2>1
    <3> HIDE DEF amt
    <3>2. P.chainPaths[q] \in ChainPath
      BY <1>0
    <3> QED BY <3>1, <3>2 DEF ChainPath
  <2> HIDE DEF paths, amt, Q
  <2>5. paths \in [Pool -> ChainPath]
    <3>1. \A q \in Pool : paths[q] \in ChainPath
      BY <2>4
    <3> QED BY <3>1 DEF paths
  <2>6. Q \in PoolState /\ Q.chainPaths = paths /\ Q.totalLiquidity = P.totalLiquidity
        /\ Q.deltaCredit = P.deltaCredit - Spent(P, mode)
    <3>1. P.deltaCredit - Spent(P, mode) \in Nat
      BY <1>0, <2>1, <2>2
    <3> QED BY <1>0, <2>3, <2>5, <3>1 DEF PoolState
  <2>7. \A q \in Pool : Q.chainPaths[q].weight > 0
    BY <2>4, <2>6 DEF Weighted
  <2> QED BY <1>2, <2>1, <2>2, <2>4, <2>6, <2>7 DEF Weighted, Q
<1> QED BY <1>1, <1>2

\* The sum that is subtracted from deltaCredit never exceeds it, in any state
\* that calls of Delta lead to: _delta cannot revert its caller.
LEMMA SpentCovered ==
  ASSUME NEW P \in PoolState, NEW mode \in BOOLEAN
  PROVE  Spent(P, mode) <= P.deltaCredit
<1>1. P.deltaCredit \in Nat
  BY PoolTypes
<1> QED BY <1>1, CreditsBounded DEF Spent

\* Without a deficit each path gets its share, in the full mode only.
LEMMA EvenShares ==
  ASSUME NEW P \in PoolState, NEW mode \in BOOLEAN, NEW q \in Pool, TotalDeficit(P) = 0
  PROVE  AmtToCredit(P, mode, q) = IF mode THEN Portion(P, P.deltaCredit, q) ELSE 0
<1>1. P.deltaCredit \in Nat
  BY PoolTypes
<1> QED BY <1>1 DEF AmtToCredit

\* What a call leaves when there is nothing to fill, or not enough to fill it, is
\* less than one unit for each path.
LEMMA DeltaLeaves ==
  ASSUME NEW P, Weighted(P), Pool # {}, NEW full \in BOOLEAN, full,
         TotalDeficit(P) = 0 \/ TotalDeficit(P) > P.deltaCredit
  PROVE  Delta(P, full).deltaCredit < Cardinality(Pool)
<1>0. P \in PoolState /\ TotalWeight(P) \in Nat \ {0} /\ P.deltaCredit \in Nat
      /\ IsFiniteSet(Pool)
  BY WeightedTotal, PoolTypes DEF Weighted
<1>1. Cardinality(Pool) \in Nat \ {0}
  BY <1>0, FS_CardinalityType, FS_EmptySet
<1>2. CASE P.deltaCredit = 0
  <2>1. ~DeltaRuns(P)
    BY <1>2 DEF DeltaRuns
  <2> QED BY <1>1, <1>2, <2>1 DEF Delta
<1>3. CASE P.deltaCredit > 0
  <2> DEFINE amt == [q \in Pool |-> AmtToCredit(P, full, q)]
             n == P.deltaCredit
             rest == Delta(P, full).deltaCredit
  <2>1. DeltaRuns(P)
    BY <1>0, <1>3 DEF DeltaRuns
  <2>2. amt \in [Pool -> Nat] /\ Total(amt) \in Nat
    BY <1>0, <2>1, CreditsBounded
  <2>3. n < Total(amt) + Cardinality(Pool)
    <3>1. CASE TotalDeficit(P) = 0
      <4> DEFINE w == WeightsOf(P)
      <4>1. w \in [Pool -> Nat] /\ Total(w) = TotalWeight(P) /\ Total(w) > 0
        BY <1>0, MapTypes
      <4>2. ASSUME NEW q \in Pool PROVE amt[q] = (w[q] * n) \div Total(w)
        <5>1. amt[q] = Portion(P, n, q)
          <6>1. amt[q] = AmtToCredit(P, full, q)
            OBVIOUS
          <6>2. AmtToCredit(P, full, q) = IF full THEN Portion(P, P.deltaCredit, q) ELSE 0
            BY <1>0, <3>1, EvenShares
          <6>3. (IF full THEN Portion(P, P.deltaCredit, q) ELSE 0) = Portion(P, P.deltaCredit, q)
            BY Zenon
          <6> QED BY <6>1, <6>2, <6>3
        <5>2. Portion(P, n, q) = (n * P.chainPaths[q].weight) \div TotalWeight(P)
          BY DEF Portion
        <5>3. P.chainPaths[q].weight \in Nat /\ w[q] = P.chainPaths[q].weight
          BY <1>0, PathTypes DEF WeightsOf
        <5>4. n * P.chainPaths[q].weight = P.chainPaths[q].weight * n
          BY <1>0, <5>3
        <5> QED BY <5>1, <5>2, <5>3, <5>4, <4>1
      <4> HIDE DEF amt, w, n
      <4> QED BY <1>0, <2>2, <4>1, <4>2, TotalSharesLeave DEF n
    <3>2. CASE TotalDeficit(P) > n
      <4> DEFINE w == [q \in Pool |-> Deficit(P, q)]
      <4>1. w \in [Pool -> Nat] /\ Total(w) = TotalDeficit(P) /\ TotalDeficit(P) \in Nat
        BY <1>0, DeficitTypes
      <4>2. TotalDeficit(P) # 0 /\ Total(w) > 0
        BY <1>0, <3>2, <4>1
      <4>3. ASSUME NEW q \in Pool PROVE amt[q] = (w[q] * n) \div Total(w)
        BY <3>2, <4>1, <4>2 DEF AmtToCredit
      <4> HIDE DEF amt, w, n
      <4> QED BY <1>0, <2>2, <4>1, <4>2, <4>3, TotalSharesLeave DEF n
    <3> QED BY <3>1, <3>2
  <2>4. rest = n - Total(amt)
    <3>1. Spent(P, full) = Total(amt)
      BY <2>1 DEF Spent
    <3> HIDE DEF amt
    <3> QED BY <3>1, DeltaStep
  <2> HIDE DEF amt, n, rest
  <2>5. n \in Nat
    BY <1>0 DEF n
  <2>6. rest < Cardinality(Pool)
    BY <1>1, <2>2, <2>3, <2>4, <2>5
  <2> QED BY <2>6 DEF rest
<1>4. P.deltaCredit = 0 \/ P.deltaCredit > 0
  BY <1>0
<1> QED BY <1>2, <1>3, <1>4, Zenon
\* Enough for all deficits: one call, in either mode, leaves none.
LEMMA DeficitsFilled ==
  ASSUME NEW P, Weighted(P), Pool # {}, NEW mode \in BOOLEAN,
         TotalDeficit(P) <= P.deltaCredit
  PROVE  TotalDeficit(Delta(P, mode)) = 0
<1> DEFINE Q == Delta(P, mode)
           def == [q \in Pool |-> Deficit(P, q)]
           left == [q \in Pool |-> Deficit(Q, q)]
<1>0. /\ P \in PoolState /\ TotalWeight(P) \in Nat \ {0} /\ P.deltaCredit \in Nat
      /\ Q \in PoolState /\ TotalWeight(Q) \in Nat \ {0} /\ IsFiniteSet(Pool)
  BY WeightedTotal, DeltaStep, PoolTypes DEF Weighted
<1>1. /\ def \in [Pool -> Nat] /\ TotalDeficit(P) \in Nat /\ TotalDeficit(P) = Total(def)
      /\ left \in [Pool -> Nat] /\ TotalDeficit(Q) = Total(left)
  <2> HIDE DEF Q
  <2> QED BY <1>0, DeficitTypes
<1>2. TotalWeight(Q) = TotalWeight(P)
  <2>1. \A q \in Pool : Q.chainPaths[q].weight = P.chainPaths[q].weight
    BY DeltaStep
  <2> HIDE DEF Q
  <2> QED BY <2>1 DEF TotalWeight
<1>5. TotalWeight(P) > 0
  BY <1>0
<1>3. ASSUME NEW q \in Pool PROVE left[q] = 0
  <2> DEFINE b == Portion(P, P.totalLiquidity, q)
             x == P.chainPaths[q].lkb + P.chainPaths[q].credits
             a == IF DeltaRuns(P) THEN AmtToCredit(P, mode, q) ELSE 0
             e == IF mode THEN Portion(P, P.deltaCredit - TotalDeficit(P), q) ELSE 0
  <2>1. Deficit(P, q) = IF b > x THEN b - x ELSE 0
    BY DEF Deficit
  <2>2. Deficit(Q, q) = IF b > x + a THEN b - (x + a) ELSE 0
    <3>1. /\ Q.totalLiquidity = P.totalLiquidity
          /\ Q.chainPaths[q].weight = P.chainPaths[q].weight
          /\ Q.chainPaths[q].lkb = P.chainPaths[q].lkb
          /\ Q.chainPaths[q].credits = P.chainPaths[q].credits + a
      BY DeltaStep
    <3>2. P.chainPaths[q].lkb \in Nat /\ P.chainPaths[q].credits \in Nat /\ a \in Nat
      <4>1. P.chainPaths[q].lkb \in Nat /\ P.chainPaths[q].credits \in Nat
        BY <1>0, PathTypes
      <4>2. DeltaRuns(P) => AmtToCredit(P, mode, q) \in Nat
        <5>1. ASSUME DeltaRuns(P)
              PROVE  [r \in Pool |-> AmtToCredit(P, mode, r)] \in [Pool -> Nat]
          BY <1>0, <5>1, CreditsBounded
        <5> QED BY <5>1
      <4> QED BY <4>1, <4>2
    <3> HIDE DEF Q, a
    <3>3. Q.chainPaths[q].lkb + Q.chainPaths[q].credits = x + a
      BY <3>1, <3>2
    <3>4. Portion(Q, Q.totalLiquidity, q) = b
      BY <1>2, <3>1 DEF Portion
    <3> HIDE DEF x, b
    <3> QED BY <3>3, <3>4 DEF Deficit
  <2>3. b \in Nat /\ x \in Nat /\ a \in Nat /\ Deficit(P, q) \in Nat
    <3>1. b \in Nat
      <4>1. P.totalLiquidity \in Nat
        BY <1>0, PoolTypes
      <4> QED BY <1>0, <1>5, <4>1, PortionsBounded
    <3>2. x \in Nat
      BY <1>0, PathTypes
    <3>3. Deficit(P, q) \in Nat
      BY <1>1
    <3>4. CASE DeltaRuns(P)
      <4>1. [r \in Pool |-> AmtToCredit(P, mode, r)] \in [Pool -> Nat]
        BY <1>0, <3>4, CreditsBounded
      <4>2. a = AmtToCredit(P, mode, q)
        BY <3>4
      <4> QED BY <3>1, <3>2, <3>3, <4>1, <4>2
    <3>5. CASE ~DeltaRuns(P)
      BY <3>1, <3>2, <3>3, <3>5
    <3> QED BY <3>4, <3>5
  <2>4. Deficit(P, q) <= a
    <3>1. Deficit(P, q) <= TotalDeficit(P)
      <4>1. def[q] <= Total(def)
        <5> HIDE DEF def
        <5> QED BY <1>0, <1>1, TotalMember
      <4> QED BY <1>1, <4>1
    <3>2. CASE TotalDeficit(P) = 0
      <4> HIDE DEF a
      <4> QED BY <1>1, <2>3, <3>1, <3>2
    <3>3. CASE TotalDeficit(P) # 0
      <4>1. DeltaRuns(P)
        BY <1>0, <1>1, <3>3 DEF DeltaRuns
      <4>2. AmtToCredit(P, mode, q) = IF Deficit(P, q) = 0 THEN 0 ELSE Deficit(P, q) + e
        BY <1>0, <1>1, <3>3 DEF AmtToCredit
      <4>3. e \in Nat
        <5>1. P.deltaCredit - TotalDeficit(P) \in Nat
          BY <1>0, <1>1
        <5>2. Portion(P, P.deltaCredit - TotalDeficit(P), q) \in Nat
          BY <1>0, <1>5, <5>1, PortionsBounded
        <5> QED BY <5>2
      <4>4. a = AmtToCredit(P, mode, q)
        BY <4>1
      <4> HIDE DEF e, a
      <4> QED BY <2>3, <4>2, <4>3, <4>4
    <3> QED BY <3>2, <3>3
  <2>5. left[q] = Deficit(Q, q)
    OBVIOUS
  <2> HIDE DEF b, x, a, e, left, Q
  <2> QED BY <2>1, <2>2, <2>3, <2>4, <2>5
<1>4. Total(left) = 0
  <2> HIDE DEF left
  <2> QED BY <1>1, <1>3, TotalZero
<1> QED BY <1>1, <1>4

\* Every pool that calls of Delta lead to has its weights.
DeltaInv == Weighted(pl)

\* The invariant of the calls of one pool.
LEMMA DeltaInvariant == DeltaSpec => []DeltaInv
<1>1. DeltaInit => DeltaInv
  <2> SUFFICES ASSUME NEW t \in 0 .. MaxLiquidity, NEW d \in 1 .. MaxCredit,
                      NEW lkb \in [Pool -> 0 .. MaxOnPath], NEW w \in [Pool -> 1 .. MaxWeight]
               PROVE  Weighted(PoolOf(t, d, lkb, w))
    BY DEF DeltaInit, DeltaInv
  <2> DEFINE paths == [q \in Pool |->
        [NoChainPath EXCEPT !.created = TRUE, !.ready = TRUE, !.weight = w[q], !.lkb = lkb[q]]]
  <2>1. ASSUME NEW q \in Pool PROVE paths[q] \in ChainPath /\ paths[q].weight > 0
    <3>1. w[q] \in 1 .. MaxWeight /\ lkb[q] \in 0 .. MaxOnPath
      OBVIOUS
    <3>2. MaxWeight \in Nat /\ MaxOnPath \in Nat
      BY DeltaAssumption
    <3>3. w[q] \in Nat /\ w[q] > 0 /\ lkb[q] \in Nat
      BY <3>1, <3>2
    <3>4. paths[q] = [ created |-> TRUE, ready |-> TRUE, weight |-> w[q], balance |-> 0,
                       lkb |-> lkb[q], credits |-> 0, idealBalance |-> 0 ]
      BY DEF NoChainPath
    <3> HIDE DEF paths
    <3> QED BY <3>3, <3>4 DEF ChainPath
  <2>2. PoolOf(t, d, lkb, w) =
          [NewPool EXCEPT !.totalLiquidity = t, !.deltaCredit = d, !.chainPaths = paths]
    BY DEF PoolOf
  <2> HIDE DEF paths
  <2>3. paths \in [Pool -> ChainPath]
    <3>1. \A q \in Pool : paths[q] \in ChainPath
      BY <2>1
    <3> QED BY <3>1 DEF paths
  <2>4. NewPool \in PoolState
    BY PoolAssumption DEF NewPool, PoolState, NoChainPath, ChainPath
  <2>5. t \in Nat /\ d \in Nat
    BY DeltaAssumption
  <2>6. PoolOf(t, d, lkb, w) \in PoolState /\ PoolOf(t, d, lkb, w).chainPaths = paths
    BY <2>2, <2>3, <2>4, <2>5 DEF PoolState
  <2> QED BY <2>1, <2>6 DEF Weighted
<1>2. DeltaInv /\ [DeltaNext]_pl => DeltaInv'
  <2> SUFFICES ASSUME Weighted(pl), [DeltaNext]_pl PROVE Weighted(pl')
    BY DEF DeltaInv
  <2>1. CASE UNCHANGED pl
    BY <2>1
  <2>2. ASSUME NEW mode \in BOOLEAN, CallDelta(mode) PROVE Weighted(pl')
    <3>1. CASE Pool = {}
      <4>1. pl' \in PoolState
        <5>1. pl \in PoolState /\ Total(WeightsOf(pl)) = TotalWeight(pl)
          BY MapTypes DEF Weighted
        <5>2. DOMAIN WeightsOf(pl) = {}
          BY <3>1 DEF WeightsOf
        <5>3. TotalWeight(pl) = 0
          BY <5>1, <5>2, TotalEmpty
        <5> QED BY <2>2, <5>1, <5>3 DEF CallDelta, Delta, DeltaRuns
      <4> QED BY <3>1, <4>1 DEF Weighted
    <3>2. CASE Pool # {}
      BY <2>2, <3>2, DeltaStep DEF CallDelta
    <3> QED BY <3>1, <3>2
  <2> QED BY <2>1, <2>2 DEF DeltaNext
<1> QED BY <1>1, <1>2, PTL DEF DeltaSpec

\* Rounding and the split in two tranches never hand out more than there is, for
\* any number of paths, weights, credits and deficits: the subtraction at the end
\* of _delta cannot revert the deposits and swaps that call it.
THEOREM DeltaNeverOverspends == DeltaSpec => []NeverOverspends
<1>1. DeltaInv => NeverOverspends
  BY SpentCovered DEF DeltaInv, Weighted, NeverOverspends
<1> QED BY <1>1, DeltaInvariant, PTL

\* If a pool has a path at all, credits are put to use: enough for all deficits
\* fills them in one call, and two calls in full mode leave less than one unit
\* for each path.
THEOREM DeltaLeavesNothing ==
  ASSUME Pool # {}
  PROVE  DeltaSpec => []NothingStaysBehind
<1>1. DeltaInv => NothingStaysBehind
  <2> SUFFICES ASSUME NEW P, Weighted(P), NEW full, full = TRUE
               PROVE  /\ Delta(Delta(P, full), full).deltaCredit < Cardinality(Pool)
                      /\ P.deltaCredit >= TotalDeficit(P) =>
                           \A mode \in BOOLEAN : TotalDeficit(Delta(P, mode)) = 0
    BY DEF DeltaInv, NothingStaysBehind
  <2> DEFINE Q == Delta(P, full)
  <2>0. full \in BOOLEAN /\ full
    OBVIOUS
  <2>1. /\ Weighted(Q) /\ P.deltaCredit \in Nat /\ Q.deltaCredit \in Nat
        /\ TotalDeficit(P) \in Nat /\ TotalWeight(P) > 0
    <3>1. Weighted(Q)
      BY <2>0, DeltaStep
    <3>2. P \in PoolState /\ Q \in PoolState
      BY <3>1 DEF Weighted
    <3> HIDE DEF Q
    <3>3. P.deltaCredit \in Nat /\ Q.deltaCredit \in Nat
      BY <3>2, PoolTypes
    <3>4. TotalWeight(P) \in Nat \ {0}
      BY WeightedTotal
    <3>5. TotalWeight(P) > 0
      BY <3>4
    <3>6. TotalDeficit(P) \in Nat
      BY <3>2, <3>5, DeficitTypes
    <3> QED BY <3>1, <3>3, <3>5, <3>6
  <2>2. Delta(Q, full).deltaCredit = Q.deltaCredit - Spent(Q, full) /\ Spent(Q, full) \in Nat
    <3> HIDE DEF Q
    <3> QED BY <2>0, <2>1, DeltaStep
  <2>3. Cardinality(Pool) \in Nat
    BY PoolAssumption, FS_CardinalityType
  <2>4. ASSUME TotalDeficit(P) = 0 \/ TotalDeficit(P) > P.deltaCredit
        PROVE  Delta(Q, full).deltaCredit < Cardinality(Pool)
    <3>1. Q.deltaCredit < Cardinality(Pool)
      BY <2>0, <2>4, DeltaLeaves
    <3> DEFINE a == Q.deltaCredit
               b == Delta(Q, full).deltaCredit
               s == Spent(Q, full)
    <3>2. a \in Nat /\ s \in Nat /\ b = a - s /\ a < Cardinality(Pool)
      BY <2>1, <2>2, <3>1
    <3> HIDE DEF a, b, s
    <3>3. b < Cardinality(Pool)
      BY <2>3, <3>2
    <3> QED BY <3>3 DEF b
  <2>5. ASSUME TotalDeficit(P) <= P.deltaCredit
        PROVE  Delta(Q, full).deltaCredit < Cardinality(Pool)
    <3>1. TotalDeficit(Q) = 0
      BY <2>0, <2>5, DeficitsFilled
    <3> HIDE DEF Q
    <3> QED BY <2>0, <2>1, <3>1, DeltaLeaves
  <2>6. TotalDeficit(P) > P.deltaCredit \/ TotalDeficit(P) <= P.deltaCredit
    BY <2>1
  <2>7. P.deltaCredit >= TotalDeficit(P) => TotalDeficit(P) <= P.deltaCredit
    BY <2>1
  <2> QED BY <2>4, <2>5, <2>6, <2>7, DeficitsFilled, Zenon
<1> QED BY <1>1, DeltaInvariant, PTL

-----------------------------------------------------------------------------
(* The Stargate token. *)

TokenMessage == [to : Recipient, qty : Nat]

TokenTypes ==
  /\ balanceOf \in [Chain -> [Account -> Nat]]
  /\ channel \in [Channel -> Seq(TokenMessage)]

\* By chain what exists there outside the contract of the main chain, by channel
\* what is on its way.
Elsewhere(balances) == [c \in Chain |-> IF c = MainChain THEN 0 ELSE Total(balances[c])]
Quantities(messages) == [i \in DOMAIN messages |-> messages[i].qty]
OnTheWay(channels) == [k \in Channel |-> Total(Quantities(channels[k]))]

\* Equal amounts are left out on both sides.
LEMMA Cancel ==
  ASSUME NEW a \in Nat, NEW b \in Nat, NEW x \in Nat, NEW y \in Nat, NEW q \in Nat,
         b + x = a + y, x = q + y
  PROVE  b + q = a
OBVIOUS

TokenInv ==
  /\ TokenTypes
  /\ Total(Elsewhere(balanceOf)) + Total(OnTheWay(channel)) <= balanceOf[MainChain][Contract]

\* The sets of keys are finite.
LEMMA TokenKeys == IsFiniteSet(Account) /\ IsFiniteSet(Channel) /\ IsFiniteSet(Chain)
<1>1. IsFiniteSet(Chain) /\ IsFiniteSet(Account)
  BY TokenAssumption, FS_AddElement DEF Account
<1>2. IsFiniteSet(Chain \X Chain)
  BY <1>1, FS_Product
<1>3. Channel \subseteq Chain \X Chain
  BY DEF Channel
<1> QED BY <1>1, <1>2, <1>3, FS_Subset

\* The ledgers have totals.
LEMMA ElsewhereTypes ==
  ASSUME NEW B \in [Chain -> [Account -> Nat]]
  PROVE  /\ Elsewhere(B) \in [Chain -> Nat] /\ Total(Elsewhere(B)) \in Nat
         /\ \A c \in Chain : Total(B[c]) \in Nat
<1>1. ASSUME NEW c \in Chain PROVE Total(B[c]) \in Nat
  BY TokenKeys, TotalType
<1>2. Elsewhere(B) \in [Chain -> Nat]
  BY <1>1 DEF Elsewhere
<1> QED BY <1>1, <1>2, TokenKeys, TotalType

\* The amounts of the messages of a channel.
LEMMA QuantitiesTypes ==
  ASSUME NEW s \in Seq(TokenMessage)
  PROVE  /\ Quantities(s) \in [1 .. Len(s) -> Nat] /\ Total(Quantities(s)) \in Nat
<1>1. DOMAIN s = 1 .. Len(s) /\ Len(s) \in Nat /\ \A i \in 1 .. Len(s) : s[i] \in TokenMessage
  OBVIOUS
<1>2. Quantities(s) \in [1 .. Len(s) -> Nat]
  BY <1>1 DEF Quantities, TokenMessage
<1>3. IsFiniteSet(1 .. Len(s))
  BY <1>1, FS_Interval
<1> QED BY <1>2, <1>3, TotalType

\* The amounts on all channels.
LEMMA OnTheWayTypes ==
  ASSUME NEW C \in [Channel -> Seq(TokenMessage)]
  PROVE  OnTheWay(C) \in [Channel -> Nat] /\ Total(OnTheWay(C)) \in Nat
<1>1. OnTheWay(C) \in [Channel -> Nat]
  BY QuantitiesTypes DEF OnTheWay
<1> QED BY <1>1, TokenKeys, TotalType

\* A message that is sent is on its way.
LEMMA SentOnTheWay ==
  ASSUME NEW C \in [Channel -> Seq(TokenMessage)], NEW k \in Channel,
         NEW m \in TokenMessage, NEW D, D = [C EXCEPT ![k] = Append(@, m)]
  PROVE  /\ D \in [Channel -> Seq(TokenMessage)]
         /\ Total(OnTheWay(D)) = Total(OnTheWay(C)) + m.qty
<1> DEFINE s == C[k]
           t == Append(s, m)
           f == Quantities(s)
           g == Quantities(t)
<1>1. s \in Seq(TokenMessage) /\ t \in Seq(TokenMessage) /\ m.qty \in Nat
  <2>1. s \in Seq(TokenMessage)
    OBVIOUS
  <2>2. t \in Seq(TokenMessage)
    BY <2>1, AppendProperties
  <2>3. m.qty \in Nat
    BY DEF TokenMessage
  <2> QED BY <2>1, <2>2, <2>3
<1>2. D \in [Channel -> Seq(TokenMessage)]
  BY <1>1
<1>3. Total(g) = Total(f) + m.qty
  <2>1. Len(t) = Len(s) + 1 /\ Len(s) \in Nat /\ t[Len(s) + 1] = m
        /\ \A i \in 1 .. Len(s) : t[i] = s[i]
    <3> HIDE DEF s
    <3> QED BY <1>1, AppendProperties
  <2> HIDE DEF s, t
  <2>2. /\ f \in [1 .. Len(s) -> Nat] /\ g \in [1 .. Len(t) -> Nat]
        /\ DOMAIN s = 1 .. Len(s) /\ DOMAIN t = 1 .. Len(t)
    BY <1>1, QuantitiesTypes
  <2> DEFINE n == Len(s)
  <2>3. OneMore(g, f, n)
    <3>1. \A i \in 1 .. n : g[i] = f[i]
      BY <2>1, <2>2 DEF Quantities
    <3> QED BY <2>1, <2>2, <3>1 DEF OneMore
  <2>4. g[n + 1] = m.qty
    BY <2>1, <2>2 DEF Quantities
  <2> HIDE DEF n, f, g
  <2>5. Total(g) = Total(f) + g[n + 1]
    BY <2>3, TotalAppend
  <2> QED BY <2>4, <2>5
<1>4. OnTheWay(C)[k] = Total(f) /\ OnTheWay(D)[k] = Total(g)
  BY <1>2 DEF OnTheWay
<1>5. \A j \in Channel \ {k} : OnTheWay(D)[j] = OnTheWay(C)[j]
  BY DEF OnTheWay
<1>6. Total(OnTheWay(D)) + OnTheWay(C)[k] = Total(OnTheWay(C)) + OnTheWay(D)[k]
  <2> DEFINE a == OnTheWay(C)
             b == OnTheWay(D)
  <2>1. a \in [Channel -> Nat] /\ b \in [Channel -> Nat]
    BY <1>2, OnTheWayTypes
  <2> HIDE DEF a, b
  <2>2. \A j \in Channel \ {k} : b[j] = a[j]
    BY <1>5 DEF a, b
  <2>3. Total(b) + a[k] = Total(a) + b[k]
    BY <2>1, <2>2, TokenKeys, TotalChange, ZenonT(40)
  <2> QED BY <2>3 DEF a, b
<1>7. Total(f) \in Nat /\ Total(OnTheWay(D)) \in Nat /\ Total(OnTheWay(C)) \in Nat
  BY <1>1, <1>2, QuantitiesTypes, OnTheWayTypes
<1>8. Total(g) \in Nat
  BY <1>1, <1>3, <1>7
<1> DEFINE tf == Total(f)
           tg == Total(g)
           a == Total(OnTheWay(C))
           b == Total(OnTheWay(D))
           q == m.qty
<1>9. a + tg = b + tf /\ tg = q + tf
  BY <1>1, <1>3, <1>4, <1>6, <1>7, <1>8
<1>10. tf \in Nat /\ tg \in Nat /\ a \in Nat /\ b \in Nat /\ q \in Nat
  BY <1>1, <1>7, <1>8
<1> HIDE DEF tf, tg, a, b, q
<1>11. a + q = b
  BY <1>9, <1>10, Cancel
<1>12. b = a + q
  BY <1>11
<1> QED BY <1>2, <1>12 DEF a, b, q

\* A message that is executed or dropped is on its way no longer.
LEMMA TakenOffTheWay ==
  ASSUME NEW C \in [Channel -> Seq(TokenMessage)], NEW k \in Channel, C[k] # <<>>,
         NEW D, D = [C EXCEPT ![k] = Tail(@)]
  PROVE  /\ D \in [Channel -> Seq(TokenMessage)]
         /\ Head(C[k]) \in TokenMessage /\ Head(C[k]).qty \in Nat
         /\ Total(OnTheWay(D)) + Head(C[k]).qty = Total(OnTheWay(C))
<1> DEFINE s == C[k]
           t == Tail(s)
           f == Quantities(s)
           g == Quantities(t)
<1>1. s \in Seq(TokenMessage) /\ s # <<>>
  OBVIOUS
<1>2. /\ Len(s) \in Nat /\ Len(s) > 0 /\ t \in Seq(TokenMessage) /\ Len(t) = Len(s) - 1
      /\ \A i \in 1 .. Len(t) : t[i] = s[i + 1]
      /\ Head(s) = s[1] /\ s[1] \in TokenMessage
  <2> HIDE DEF s
  <2> QED BY <1>1, HeadTailProperties
<1>3. D \in [Channel -> Seq(TokenMessage)]
  BY <1>2
<1>4. Total(f) = Head(s).qty + Total(g)
  <2> HIDE DEF s, t
  <2>1. f \in [1 .. Len(s) -> Nat] /\ g \in [1 .. Len(s) - 1 -> Nat]
        /\ DOMAIN s = 1 .. Len(s) /\ DOMAIN t = 1 .. Len(t)
    BY <1>1, <1>2, QuantitiesTypes
  <2>2. f[1] = Head(s).qty
    BY <1>2, <2>1 DEF Quantities
  <2>3. \A i \in 1 .. Len(s) - 1 : g[i] = f[i + 1]
    BY <1>2, <2>1 DEF Quantities
  <2> DEFINE n == Len(s)
  <2>4. RestOf(g, f, n)
    BY <1>2, <2>1, <2>3 DEF RestOf
  <2> HIDE DEF n, f, g
  <2>5. Total(f) = f[1] + Total(g)
    BY <2>4, TotalTail
  <2> QED BY <2>2, <2>5
<1>5. OnTheWay(C)[k] = Total(f) /\ OnTheWay(D)[k] = Total(g)
  BY <1>3 DEF OnTheWay
<1>6. \A j \in Channel \ {k} : OnTheWay(D)[j] = OnTheWay(C)[j]
  BY DEF OnTheWay
<1>7. Total(OnTheWay(D)) + OnTheWay(C)[k] = Total(OnTheWay(C)) + OnTheWay(D)[k]
  <2> DEFINE a == OnTheWay(C)
             b == OnTheWay(D)
  <2>1. a \in [Channel -> Nat] /\ b \in [Channel -> Nat]
    BY <1>3, OnTheWayTypes
  <2> HIDE DEF a, b
  <2>2. \A j \in Channel \ {k} : b[j] = a[j]
    BY <1>6 DEF a, b
  <2>3. Total(b) + a[k] = Total(a) + b[k]
    BY <2>1, <2>2, TokenKeys, TotalChange, ZenonT(40)
  <2> QED BY <2>3 DEF a, b
<1>8. Total(f) \in Nat /\ Total(g) \in Nat /\ Total(OnTheWay(D)) \in Nat /\ Total(OnTheWay(C)) \in Nat
  BY <1>1, <1>2, <1>3, QuantitiesTypes, OnTheWayTypes
<1>9. Head(s).qty \in Nat /\ Head(s) \in TokenMessage
  BY <1>2 DEF TokenMessage
<1> DEFINE tf == Total(f)
           tg == Total(g)
           a == Total(OnTheWay(C))
           b == Total(OnTheWay(D))
           q == Head(s).qty
<1>10. b + tf = a + tg /\ tf = q + tg
  BY <1>4, <1>5, <1>7
<1>11. tf \in Nat /\ tg \in Nat /\ a \in Nat /\ b \in Nat /\ q \in Nat
  BY <1>8, <1>9
<1> HIDE DEF tf, tg, a, b, q
<1>12. b + q = a
  BY <1>10, <1>11, Cancel
<1> QED BY <1>3, <1>9, <1>12 DEF a, b, q

\* A change of balances on a chain that is not the main one.
LEMMA ElsewhereChange ==
  ASSUME NEW B \in [Chain -> [Account -> Nat]], NEW D \in [Chain -> [Account -> Nat]],
         NEW c \in Chain, c # MainChain, \A x \in Chain \ {c} : D[x] = B[x]
  PROVE  Total(Elsewhere(D)) + Total(B[c]) = Total(Elsewhere(B)) + Total(D[c])
<1>1. \A x \in Chain \ {c} : Elsewhere(D)[x] = Elsewhere(B)[x]
  BY DEF Elsewhere
<1>2. Total(Elsewhere(D)) + Elsewhere(B)[c] = Total(Elsewhere(B)) + Elsewhere(D)[c]
  <2> DEFINE a == Elsewhere(B)
             b == Elsewhere(D)
  <2>1. a \in [Chain -> Nat] /\ b \in [Chain -> Nat]
    BY ElsewhereTypes
  <2> HIDE DEF a, b
  <2>2. \A x \in Chain \ {c} : b[x] = a[x]
    BY <1>1 DEF a, b
  <2>3. OneDiffers(a, b, Chain, c)
    BY <2>1, <2>2, TokenKeys DEF OneDiffers
  <2>4. Total(b) + a[c] = Total(a) + b[c]
    BY <2>3, TotalOfChanged
  <2> QED BY <2>4 DEF a, b
<1> QED BY <1>2 DEF Elsewhere

\* A change of balances on the main chain.
LEMMA MainChange ==
  ASSUME NEW B, NEW D, \A x \in Chain \ {MainChain} : D[x] = B[x]
  PROVE  Elsewhere(D) = Elsewhere(B)
BY DEF Elsewhere

\* A transfer leaves the total of the chain as it is.
LEMMA MoveKeeps ==
  ASSUME NEW b \in [Account -> Nat], NEW from \in Account, NEW to \in Account,
         NEW qty \in Nat, qty <= b[from]
  PROVE  Move(b, from, to, qty) \in [Account -> Nat] /\ Total(Move(b, from, to, qty)) = Total(b)
<1>1. CASE from = to
  BY <1>1 DEF Move
<1>2. CASE from # to
  <2> DEFINE d == [b EXCEPT ![from] = @ - qty]
             e == [d EXCEPT ![to] = @ + qty]
  <2>1. d \in [Account -> Nat] /\ d[from] = b[from] - qty /\ d[to] = b[to]
        /\ \A x \in Account \ {from} : d[x] = b[x]
    BY <1>2
  <2>2. e \in [Account -> Nat] /\ e[to] = d[to] + qty /\ \A x \in Account \ {to} : e[x] = d[x]
    BY <2>1
  <2>3. Move(b, from, to, qty) = e
    BY <1>2 DEF Move
  <2> HIDE DEF d, e
  <2>4. Total(d) + b[from] = Total(b) + d[from] /\ Total(e) + d[to] = Total(d) + e[to]
    BY <2>1, <2>2, TokenKeys, TotalChange
  <2>5. Total(b) \in Nat /\ Total(d) \in Nat /\ Total(e) \in Nat
    BY <2>1, <2>2, TokenKeys, TotalType
  <2> QED BY <2>1, <2>2, <2>3, <2>4, <2>5
<1> QED BY <1>1, <1>2

\* What leaves one chain is on its way.
LEMMA SendKeeps ==
  ASSUME TokenInv, NEW c \in Chain, NEW d \in Chain, NEW from \in Holder,
         NEW to \in Recipient, NEW qty \in Nat, SendTokens(c, d, from, to, qty)
  PROVE  TokenInv'
<1> DEFINE m == [to |-> to, qty |-> qty]
           k == <<c, d>>
           e == Total(Elsewhere(balanceOf))
           f == Total(Elsewhere(balanceOf'))
           w == Total(OnTheWay(channel))
           v == Total(OnTheWay(channel'))
           h == balanceOf[MainChain][Contract]
           i == balanceOf'[MainChain][Contract]
<1>1. /\ balanceOf \in [Chain -> [Account -> Nat]] /\ channel \in [Channel -> Seq(TokenMessage)]
      /\ e + w <= h /\ e \in Nat /\ w \in Nat /\ h \in Nat
      /\ MainChain \in Chain /\ Contract \in Account /\ from \in Account /\ from # Contract
  BY ElsewhereTypes, OnTheWayTypes, TokenAssumption, ZenonT(40) DEF TokenInv, TokenTypes, Account
<1>2. k \in Channel /\ m \in TokenMessage /\ m.qty = qty
  BY DEF SendTokens, Channel, TokenMessage
<1>3. channel' = [channel EXCEPT ![k] = Append(@, m)]
  BY DEF SendTokens
<1>4. channel' \in [Channel -> Seq(TokenMessage)] /\ v = w + qty /\ v \in Nat
  <2> HIDE DEF m, k
  <2>1. channel' \in [Channel -> Seq(TokenMessage)] /\ v = w + m.qty
    BY <1>1, <1>2, <1>3, SentOnTheWay
  <2> QED BY <1>2, <2>1, OnTheWayTypes
<1>5. qty <= balanceOf[c][from] /\ balanceOf' = [balanceOf EXCEPT ![c] = Leave(c, from, qty)]
  BY DEF SendTokens, CanLeave
<1>6. balanceOf[c] \in [Account -> Nat]
  BY <1>1
<1>7. CASE c = MainChain
  <2>1. Leave(c, from, qty) = Move(balanceOf[c], from, Contract, qty)
    BY <1>7 DEF Leave
  <2>2. Leave(c, from, qty) \in [Account -> Nat]
    <3> DEFINE b == balanceOf[c]
    <3>1. /\ b \in [Account -> Nat] /\ from \in Account /\ Contract \in Account
          /\ qty \in Nat /\ qty <= b[from]
      BY <1>1, <1>5, <1>6
    <3> HIDE DEF b
    <3>2. Move(b, from, Contract, qty) \in [Account -> Nat]
      BY <3>1, MoveKeeps
    <3> QED BY <2>1, <3>2 DEF b
  <2>3. Leave(c, from, qty)[Contract] = h + qty
    <3>1. Move(balanceOf[c], from, Contract, qty)
            = [balanceOf[c] EXCEPT ![from] = @ - qty, ![Contract] = @ + qty]
      BY <1>1 DEF Move
    <3> QED BY <1>1, <1>6, <1>7, <2>1, <3>1
  <2>4. balanceOf' \in [Chain -> [Account -> Nat]] /\ i = h + qty
        /\ \A x \in Chain \ {MainChain} : balanceOf'[x] = balanceOf[x]
    BY <1>1, <1>5, <1>7, <2>2, <2>3
  <2>5. f = e
    BY <2>4, MainChange
  <2> HIDE DEF e, f, w, v, h, i
  <2>6. f + v <= i
    BY <1>1, <1>4, <2>4, <2>5
  <2> QED BY <1>4, <2>4, <2>6 DEF TokenInv, TokenTypes, f, v, i
<1>8. CASE c # MainChain
  <2> DEFINE b == [balanceOf[c] EXCEPT ![from] = balanceOf[c][from] - qty]
             t == Total(balanceOf[c])
             u == Total(b)
  <2>1. Leave(c, from, qty) = b
    BY <1>1, <1>6, <1>8 DEF Leave
  <2>2. balanceOf[c][from] - qty \in Nat /\ balanceOf[c][from] \in Nat
    BY <1>1, <1>5, <1>6
  <2>3. b \in [Account -> Nat] /\ u \in Nat /\ t \in Nat
        /\ u + balanceOf[c][from] = t + (balanceOf[c][from] - qty)
    <3> DEFINE o == balanceOf[c]
               n == balanceOf[c][from] - qty
    <3>1. o \in [Account -> Nat] /\ from \in Account /\ n \in Nat /\ b = [o EXCEPT ![from] = n]
      BY <1>1, <1>6, <2>2
    <3> HIDE DEF b, o, n
    <3>2. /\ b \in [Account -> Nat] /\ Total(b) \in Nat /\ Total(o) \in Nat
          /\ Total(b) + o[from] = Total(o) + n
      <4>1. /\ b \in [Account -> Nat] /\ b[from] = n
            /\ \A y \in Account \ {from} : b[y] = o[y]
        BY <3>1
      <4>2. OneDiffers(o, b, Account, from)
        BY <3>1, <4>1, TokenKeys DEF OneDiffers
      <4>3. Total(b) + o[from] = Total(o) + b[from]
        BY <4>2, TotalOfChanged
      <4> QED BY <3>1, <4>1, <4>3, TokenKeys, TotalType
    <3> QED BY <3>2 DEF o, n
  <2>4. balanceOf' \in [Chain -> [Account -> Nat]] /\ balanceOf'[c] = b /\ i = h
        /\ \A x \in Chain \ {c} : balanceOf'[x] = balanceOf[x]
    <3> HIDE DEF b
    <3> QED BY <1>1, <1>5, <1>8, <2>1, <2>3
  <2>5. f + t = e + u /\ f \in Nat
    <3> HIDE DEF b
    <3> QED BY <1>1, <1>8, <2>4, ElsewhereChange, ElsewhereTypes
  <2> HIDE DEF e, f, w, v, h, i, t, u, b
  <2>6. t = u + qty
    BY <2>2, <2>3
  <2>7. f + v <= i
    BY <1>1, <1>4, <2>3, <2>4, <2>5, <2>6
  <2> QED BY <1>4, <2>4, <2>7 DEF TokenInv, TokenTypes, f, v, i
<1> QED BY <1>7, <1>8

\* What arrives was on its way.
LEMMA ReceiveKeeps ==
  ASSUME TokenInv, NEW k \in Channel, LzReceive(k)
  PROVE  TokenInv'
<1> DEFINE m == Head(channel[k])
           d == k[2]
           qty == m.qty
           to == m.to
           e == Total(Elsewhere(balanceOf))
           f == Total(Elsewhere(balanceOf'))
           w == Total(OnTheWay(channel))
           v == Total(OnTheWay(channel'))
           h == balanceOf[MainChain][Contract]
           i == balanceOf'[MainChain][Contract]
<1>1. /\ balanceOf \in [Chain -> [Account -> Nat]] /\ channel \in [Channel -> Seq(TokenMessage)]
      /\ e + w <= h /\ e \in Nat /\ w \in Nat /\ h \in Nat
      /\ MainChain \in Chain /\ Contract \in Account /\ d \in Chain
  <2>1. d \in Chain
    BY DEF Channel
  <2>2. /\ balanceOf \in [Chain -> [Account -> Nat]] /\ channel \in [Channel -> Seq(TokenMessage)]
        /\ e + w <= h
    BY DEF TokenInv, TokenTypes
  <2>3. MainChain \in Chain /\ Contract \in Account
    BY TokenAssumption DEF Account
  <2> QED BY <2>1, <2>2, <2>3, ElsewhereTypes, OnTheWayTypes
<1>2. /\ channel' \in [Channel -> Seq(TokenMessage)] /\ v \in Nat
      /\ m \in TokenMessage /\ qty \in Nat /\ v + qty = w
  <2>1. channel[k] # <<>> /\ channel' = [channel EXCEPT ![k] = Tail(@)]
    BY DEF LzReceive
  <2> QED BY <1>1, <2>1, TakenOffTheWay, OnTheWayTypes
<1>3. to \in Account
  BY <1>2 DEF LzReceive, TokenMessage, Recipient
<1>4. balanceOf[d] \in [Account -> Nat]
  BY <1>1
<1>5. CASE d = MainChain
  <2>1. qty <= h /\ balanceOf' = [balanceOf EXCEPT ![d] = Move(balanceOf[d], Contract, to, qty)]
    BY <1>1, <1>5 DEF LzReceive
  <2> HIDE DEF m, d, qty, to
  <2>2. Move(balanceOf[d], Contract, to, qty) \in [Account -> Nat]
    BY <1>1, <1>2, <1>3, <1>4, <1>5, <2>1, MoveKeeps
  <2>3. Move(balanceOf[d], Contract, to, qty)[Contract] >= h - qty
    <3>1. CASE to = Contract
      BY <1>1, <1>2, <1>5, <3>1 DEF Move
    <3>2. CASE to # Contract
      <4>1. Move(balanceOf[d], Contract, to, qty)
              = [balanceOf[d] EXCEPT ![Contract] = @ - qty, ![to] = @ + qty]
        BY <3>2 DEF Move
      <4>2. Move(balanceOf[d], Contract, to, qty)[Contract] = h - qty
        BY <1>1, <1>3, <1>4, <1>5, <3>2, <4>1
      <4> QED BY <1>1, <1>2, <4>2
    <3> QED BY <3>1, <3>2
  <2>4. balanceOf' \in [Chain -> [Account -> Nat]] /\ i >= h - qty /\ i \in Nat
        /\ \A x \in Chain \ {MainChain} : balanceOf'[x] = balanceOf[x]
    BY <1>1, <1>5, <2>1, <2>2, <2>3
  <2>5. f = e
    BY <2>4, MainChange
  <2> HIDE DEF e, f, w, v, h, i
  <2>6. f + v <= i
    BY <1>1, <1>2, <2>4, <2>5
  <2> QED BY <1>2, <2>4, <2>6 DEF TokenInv, TokenTypes, f, v, i
<1>6. CASE d # MainChain
  <2> DEFINE b == [balanceOf[d] EXCEPT ![to] = balanceOf[d][to] + qty]
             t == Total(balanceOf[d])
             u == Total(b)
  <2>1. balanceOf' = [balanceOf EXCEPT ![d][to] = @ + qty]
    BY <1>6 DEF LzReceive
  <2> HIDE DEF m, d, qty, to
  <2>2. balanceOf[d][to] + qty \in Nat /\ balanceOf[d][to] \in Nat
    BY <1>2, <1>3, <1>4
  <2>3. b \in [Account -> Nat] /\ u \in Nat /\ t \in Nat
        /\ u + balanceOf[d][to] = t + (balanceOf[d][to] + qty)
    <3> DEFINE o == balanceOf[d]
               n == balanceOf[d][to] + qty
    <3>1. o \in [Account -> Nat] /\ to \in Account /\ n \in Nat /\ b = [o EXCEPT ![to] = n]
      BY <1>3, <1>4, <2>2
    <3> HIDE DEF b, o, n
    <3>2. /\ b \in [Account -> Nat] /\ Total(b) \in Nat /\ Total(o) \in Nat
          /\ Total(b) + o[to] = Total(o) + n
      <4>1. /\ b \in [Account -> Nat] /\ b[to] = n
            /\ \A y \in Account \ {to} : b[y] = o[y]
        BY <3>1
      <4>2. OneDiffers(o, b, Account, to)
        BY <3>1, <4>1, TokenKeys DEF OneDiffers
      <4>3. Total(b) + o[to] = Total(o) + b[to]
        BY <4>2, TotalOfChanged
      <4> QED BY <3>1, <4>1, <4>3, TokenKeys, TotalType
    <3> QED BY <3>2 DEF o, n
  <2>4. balanceOf' = [balanceOf EXCEPT ![d] = b]
    BY <1>1, <1>4, <2>1
  <2>5. balanceOf' \in [Chain -> [Account -> Nat]] /\ balanceOf'[d] = b /\ i = h
        /\ \A x \in Chain \ {d} : balanceOf'[x] = balanceOf[x]
    <3> HIDE DEF b
    <3> QED BY <1>1, <1>6, <2>3, <2>4
  <2>6. f + t = e + u /\ f \in Nat
    <3> HIDE DEF b
    <3> QED BY <1>1, <1>6, <2>5, ElsewhereChange, ElsewhereTypes
  <2> HIDE DEF e, f, w, v, h, i, t, u, b
  <2>7. u = t + qty
    BY <1>2, <2>2, <2>3
  <2>8. f + v <= i
    BY <1>1, <1>2, <2>3, <2>5, <2>6, <2>7
  <2> QED BY <1>2, <2>5, <2>8 DEF TokenInv, TokenTypes, f, v, i
<1> QED BY <1>5, <1>6

\* A message that the owner drops only leaves more locked than is needed.
LEMMA DropKeeps ==
  ASSUME TokenInv, NEW k \in Channel, ForceResumeReceive(k)
  PROVE  TokenInv'
<1> DEFINE e == Total(Elsewhere(balanceOf))
           w == Total(OnTheWay(channel))
           v == Total(OnTheWay(channel'))
           h == balanceOf[MainChain][Contract]
           q == Head(channel[k]).qty
<1>1. /\ balanceOf \in [Chain -> [Account -> Nat]] /\ channel \in [Channel -> Seq(TokenMessage)]
      /\ e + w <= h /\ e \in Nat /\ w \in Nat /\ h \in Nat
  BY ElsewhereTypes, OnTheWayTypes, TokenAssumption, ZenonT(40) DEF TokenInv, TokenTypes, Account
<1>2. channel' \in [Channel -> Seq(TokenMessage)] /\ v \in Nat /\ q \in Nat /\ v + q = w
  <2>1. channel[k] # <<>> /\ channel' = [channel EXCEPT ![k] = Tail(@)]
    BY DEF ForceResumeReceive
  <2> QED BY <1>1, <2>1, TakenOffTheWay, OnTheWayTypes
<1>3. balanceOf' = balanceOf
  BY DEF ForceResumeReceive
<1> HIDE DEF e, w, v, h, q
<1>4. e + v <= h
  BY <1>1, <1>2
<1> QED BY <1>1, <1>2, <1>3, <1>4 DEF TokenInv, TokenTypes, e, v, h

\* A transfer between holders, or to the contract.
LEMMA TransferKeeps ==
  ASSUME TokenInv, NEW c \in Chain, NEW from \in Holder, NEW to \in Account, NEW qty \in Nat,
         Transfer(c, from, to, qty)
  PROVE  TokenInv'
<1> DEFINE e == Total(Elsewhere(balanceOf))
           f == Total(Elsewhere(balanceOf'))
           w == Total(OnTheWay(channel))
           h == balanceOf[MainChain][Contract]
           i == balanceOf'[MainChain][Contract]
           b == Move(balanceOf[c], from, to, qty)
<1>1. /\ balanceOf \in [Chain -> [Account -> Nat]] /\ channel \in [Channel -> Seq(TokenMessage)]
      /\ e + w <= h /\ e \in Nat /\ w \in Nat /\ h \in Nat
      /\ MainChain \in Chain /\ Contract \in Account /\ from \in Account /\ from # Contract
  BY ElsewhereTypes, OnTheWayTypes, TokenAssumption, ZenonT(40) DEF TokenInv, TokenTypes, Account
<1>2. channel' = channel /\ qty <= balanceOf[c][from] /\ balanceOf' = [balanceOf EXCEPT ![c] = b]
  BY DEF Transfer
<1>3. balanceOf[c] \in [Account -> Nat]
  BY <1>1
<1>4. b \in [Account -> Nat] /\ Total(b) = Total(balanceOf[c])
  BY <1>1, <1>2, <1>3, MoveKeeps, SMTT(20)
<1>5. balanceOf' \in [Chain -> [Account -> Nat]] /\ balanceOf'[c] = b
      /\ \A x \in Chain \ {c} : balanceOf'[x] = balanceOf[x]
  <2> HIDE DEF b
  <2> QED BY <1>1, <1>2, <1>4
<1>6. f = e
  <2>1. CASE c = MainChain
    <3> HIDE DEF b
    <3> QED BY <1>5, <2>1, MainChange
  <2>2. CASE c # MainChain
    <3> HIDE DEF b
    <3>1. f + Total(balanceOf[c]) = e + Total(b)
      BY <1>1, <1>5, <2>2, ElsewhereChange
    <3>2. f \in Nat /\ Total(balanceOf[c]) \in Nat
      BY <1>1, <1>5, ElsewhereTypes
    <3> QED BY <1>1, <1>4, <3>1, <3>2
  <2> QED BY <2>1, <2>2
<1>7. i \in Nat /\ i >= h
  <2>1. b[Contract] >= balanceOf[c][Contract]
    <3>1. CASE from = to
      BY <1>1, <1>3, <3>1 DEF Move
    <3>2. CASE from # to
      <4>1. b = [balanceOf[c] EXCEPT ![from] = @ - qty, ![to] = @ + qty]
        BY <3>2 DEF Move
      <4>2. balanceOf[c][Contract] \in Nat
        BY <1>1, <1>3
      <4>3. b[Contract] = IF to = Contract THEN balanceOf[c][Contract] + qty ELSE balanceOf[c][Contract]
        BY <1>1, <1>3, <3>2, <4>1
      <4> QED BY <4>2, <4>3
    <3> QED BY <3>1, <3>2
  <2> HIDE DEF b
  <2>2. CASE c = MainChain
    BY <1>1, <1>4, <1>5, <2>1, <2>2
  <2>3. CASE c # MainChain
    BY <1>1, <1>5, <2>3
  <2> QED BY <2>2, <2>3
<1> HIDE DEF e, f, w, h, i
<1>8. f + w <= i
  BY <1>1, <1>6, <1>7
<1> QED BY <1>1, <1>2, <1>5, <1>8 DEF TokenInv, TokenTypes, f, w, i

\* Types, and that what exists elsewhere or is on its way is locked.
LEMMA TokenInvariant == TokenSpec => []TokenInv
<1>1. TokenInit => TokenInv
  <2> SUFFICES ASSUME TokenInit PROVE TokenInv
    OBVIOUS
  <2>1. TokenTypes
    <3>1. InitialSupply \in Nat
      BY TokenAssumption
    <3> QED BY <3>1 DEF TokenInit, TokenTypes
  <2>2. \A c \in Chain \ {MainChain} : \A x \in Account : balanceOf[c][x] = 0
    BY DEF TokenInit
  <2>3. \A k \in Channel : channel[k] = <<>>
    BY DEF TokenInit
  <2>4. ASSUME NEW c \in Chain PROVE Elsewhere(balanceOf)[c] = 0
    <3>1. CASE c = MainChain
      BY <3>1 DEF Elsewhere
    <3>2. CASE c # MainChain
      <4>1. balanceOf[c] \in [Account -> Nat] /\ \A x \in Account : balanceOf[c][x] = 0
        BY <2>1, <2>2, <3>2 DEF TokenTypes
      <4>2. Total(balanceOf[c]) = 0
        BY <4>1, TotalZero
      <4> QED BY <4>2 DEF Elsewhere
    <3> QED BY <3>1, <3>2
  <2>5. ASSUME NEW k \in Channel PROVE OnTheWay(channel)[k] = 0
    <3>1. channel[k] = <<>>
      BY <2>3
    <3>2. Quantities(channel[k]) = [i \in {} |-> channel[k][i].qty]
      BY <3>1 DEF Quantities
    <3>3. Total(Quantities(channel[k])) = 0
      BY <3>2, TotalEmpty
    <3> QED BY <3>3 DEF OnTheWay
  <2>6. Total(Elsewhere(balanceOf)) = 0
    BY <2>1, <2>4, ElsewhereTypes, TotalZero DEF TokenTypes
  <2>7. Total(OnTheWay(channel)) = 0
    BY <2>1, <2>5, OnTheWayTypes, TotalZero DEF TokenTypes
  <2>8. balanceOf[MainChain][Contract] \in Nat
    BY <2>1, TokenAssumption DEF TokenTypes, Account
  <2> QED BY <2>1, <2>6, <2>7, <2>8 DEF TokenInv
<1>2. TokenInv /\ [TokenNext]_tokenVars => TokenInv'
  <2> SUFFICES ASSUME TokenInv, [TokenNext]_tokenVars PROVE TokenInv'
    OBVIOUS
  <2>0. ASSUME NEW qty \in 1 .. InitialSupply PROVE qty \in Nat
    BY <2>0, TokenAssumption
  <2>1. ASSUME NEW c \in Chain, NEW from \in Holder, NEW qty \in 1 .. InitialSupply,
               NEW d \in Chain, NEW to \in Recipient, SendTokens(c, d, from, to, qty)
        PROVE  TokenInv'
    BY <2>0, <2>1, SendKeeps
  <2>2. ASSUME NEW c \in Chain, NEW from \in Holder, NEW qty \in 1 .. InitialSupply,
               NEW to \in Account, Transfer(c, from, to, qty)
        PROVE  TokenInv'
    BY <2>0, <2>2, TransferKeeps
  <2>3. ASSUME NEW c \in Chain, NEW pause \in BOOLEAN, PauseSendTokens(c, pause)
        PROVE  TokenInv'
    BY <2>3 DEF PauseSendTokens, TokenInv, TokenTypes
  <2>4. CASE UNCHANGED tokenVars
    BY <2>4 DEF tokenVars, TokenInv, TokenTypes
  <2> QED BY <2>1, <2>2, <2>3, <2>4, ReceiveKeeps, DropKeeps DEF TokenNext
<1> QED BY <1>1, <1>2, PTL DEF TokenSpec

\* For any chains, holders and amounts, in any order of deliveries and after any
\* dropped messages, what comes back to the main chain can be unlocked there.
THEOREM TokenBacked == TokenSpec => []Backed
<1>1. TokenInv => Backed
  <2>1. Elsewhere(balanceOf) = [c \in Chain |-> IF c = MainChain THEN 0 ELSE Total(balanceOf[c])]
    BY DEF Elsewhere
  <2>2. OnTheWay(channel) = [k \in Channel |-> InTransit(k)]
    BY DEF OnTheWay, Quantities, InTransit
  <2> QED BY <2>1, <2>2 DEF TokenInv, Backed
<1> QED BY <1>1, TokenInvariant, PTL
-----------------------------------------------------------------------------
(* The staking of LP tokens. *)

PoolInfo == [added: BOOLEAN, allocPoint: Nat, lastRewardBlock: Nat, accPerShare: Nat]

UserInfo == [Staker -> [amount: Nat, rewardDebt: Nat]]

Amounts(info) == [u \in Staker |-> info[u].amount]

PointsOf(pools) == [t \in LPToken |-> pools[t].allocPoint]

\* What the stakers of a pool can claim, in units of 1/PRECISION.
Claims(pi, info) ==
  [u \in Staker |-> info[u].amount * pi.accPerShare - PRECISION * info[u].rewardDebt]

ClaimsOf(pools, users) == [t \in LPToken |-> Total(Claims(pools[t], users[t]))]

\* The points of a pool for the blocks that it was not updated for.
Passed(pi, b) ==
  IF b > pi.lastRewardBlock THEN (b - pi.lastRewardBlock) * pi.allocPoint ELSE 0

Open(pools, b) == [t \in LPToken |-> Passed(pools[t], b)]

\* What a pool and its stakers look like, at every time.
SoundPool(pi, info) ==
  /\ pi \in PoolInfo /\ info \in UserInfo
  /\ \A u \in Staker : PRECISION * info[u].rewardDebt <= info[u].amount * pi.accPerShare
  /\ pi.added => startBlock <= pi.lastRewardBlock
  /\ ~pi.added => /\ pi = NoPool
                  /\ \A u \in Staker : info[u].amount = 0 /\ info[u].rewardDebt = 0

\* What is claimed and paid is covered by x rewards; so is what is claimed, paid
\* and due for the blocks for which a pool was not updated yet.
Covered(claims, open, points, rate, due, x) ==
  /\ claims \in Nat /\ open \in Nat /\ points \in Nat /\ rate \in Nat
  /\ due \in Nat /\ x \in Nat
  /\ PRECISION * due + claims <= PRECISION * x
  /\ points * (PRECISION * due + claims) + PRECISION * (rate * open) <= points * (PRECISION * x)

Budget(pools, users, points, rate, b, due, x) ==
  /\ pools \in [LPToken -> PoolInfo] /\ users \in [LPToken -> UserInfo] /\ b \in Nat
  /\ \A t \in LPToken : SoundPool(pools[t], users[t])
  /\ points = Total(PointsOf(pools))
  /\ Covered(Total(ClaimsOf(pools, users)), Total(Open(pools, b)), points, rate, due, x)

\* The contract holds what is staked.
Held(users, held) == held = [t \in LPToken |-> Total(Amounts(users[t]))]

StakingInv ==
  /\ {emitted, restakes} \subseteq Nat
  /\ Held(userInfo, lpHeld)
  /\ Budget(poolInfo, userInfo, totalAllocPoint, stargatePerBlock, block, paid,
            emitted + restakes)

\* The sums of a well-formed pool.
LEMMA ClaimsTypes ==
  ASSUME NEW pi, NEW info, SoundPool(pi, info)
  PROVE  /\ Claims(pi, info) \in [Staker -> Nat] /\ Total(Claims(pi, info)) \in Nat
         /\ Amounts(info) \in [Staker -> Nat] /\ Total(Amounts(info)) \in Nat
<1>1. ASSUME NEW u \in Staker
      PROVE  /\ info[u].amount \in Nat
             /\ info[u].amount * pi.accPerShare - PRECISION * info[u].rewardDebt \in Nat
  <2> DEFINE x == info[u].amount * pi.accPerShare
             y == PRECISION * info[u].rewardDebt
  <2>1. info[u].amount \in Nat /\ pi.accPerShare \in Nat /\ info[u].rewardDebt \in Nat
        /\ PRECISION \in Nat
    BY StakingAssumption DEF SoundPool, PoolInfo, UserInfo
  <2>2. x \in Nat /\ y \in Nat /\ y <= x
    BY <2>1 DEF SoundPool
  <2> HIDE DEF x, y
  <2>3. x - y \in Nat
    BY <2>2
  <2> QED BY <2>1, <2>3 DEF x, y
<1>2. Claims(pi, info) \in [Staker -> Nat] /\ Amounts(info) \in [Staker -> Nat]
  BY <1>1 DEF Claims, Amounts
<1> QED BY <1>2, TotalType, StakingAssumption

\* The sums over the pools.
LEMMA SumTypes ==
  ASSUME NEW pools, NEW users, NEW b \in Nat, \A t \in LPToken : SoundPool(pools[t], users[t])
  PROVE  /\ ClaimsOf(pools, users) \in [LPToken -> Nat] /\ Total(ClaimsOf(pools, users)) \in Nat
         /\ Open(pools, b) \in [LPToken -> Nat] /\ Total(Open(pools, b)) \in Nat
         /\ PointsOf(pools) \in [LPToken -> Nat] /\ Total(PointsOf(pools)) \in Nat
<1>1. ClaimsOf(pools, users) \in [LPToken -> Nat]
  BY ClaimsTypes DEF ClaimsOf
<1>2. ASSUME NEW t \in LPToken
      PROVE  Passed(pools[t], b) \in Nat /\ pools[t].allocPoint \in Nat
  <2>1. pools[t].lastRewardBlock \in Nat /\ pools[t].allocPoint \in Nat
    BY DEF SoundPool, PoolInfo
  <2> QED BY <2>1 DEF Passed
<1>3. Open(pools, b) \in [LPToken -> Nat] /\ PointsOf(pools) \in [LPToken -> Nat]
  BY <1>2 DEF Open, PointsOf
<1> QED BY <1>1, <1>3, TotalType, StakingAssumption

\* With shares that grow, every claim grows by what is staked.
LEMMA ClaimsGrow ==
  ASSUME NEW pi, NEW info, NEW new, SoundPool(pi, info), SoundPool(new, info),
         NEW d \in Nat, new.accPerShare = pi.accPerShare + d
  PROVE  Total(Claims(new, info)) = Total(Claims(pi, info)) + d * Total(Amounts(info))
<1> DEFINE f == Claims(pi, info)
           h == Claims(new, info)
           a == Amounts(info)
           g == [u \in Staker |-> d * a[u]]
<1>1. f \in [Staker -> Nat] /\ h \in [Staker -> Nat] /\ a \in [Staker -> Nat]
  BY ClaimsTypes
<1>2. ASSUME NEW u \in Staker PROVE h[u] = f[u] + g[u]
  <2>1. info[u].amount \in Nat /\ pi.accPerShare \in Nat /\ info[u].rewardDebt \in Nat
        /\ PRECISION \in Nat
    BY StakingAssumption DEF SoundPool, PoolInfo, UserInfo
  <2>2. h[u] = info[u].amount * (pi.accPerShare + d) - PRECISION * info[u].rewardDebt
        /\ f[u] = info[u].amount * pi.accPerShare - PRECISION * info[u].rewardDebt
        /\ g[u] = d * info[u].amount
    BY DEF Claims, Amounts
  <2>3. info[u].amount * (pi.accPerShare + d) = info[u].amount * pi.accPerShare + d * info[u].amount
    BY <2>1
  <2> QED BY <2>1, <2>2, <2>3
<1> HIDE DEF f, h, a
<1>3. g \in [Staker -> Nat] /\ \A u \in Staker : g[u] = d * a[u]
  BY <1>1
<1> HIDE DEF g
<1>4. IsFiniteSet(Staker)
  BY StakingAssumption
<1>5. Total(g) = d * Total(a)
  BY <1>1, <1>3, <1>4, TotalScale
<1>6. Total(h) = Total(f) + Total(g)
  BY <1>1, <1>2, <1>3, <1>4, TotalAdd
<1> QED BY <1>5, <1>6 DEF f, h, a

\* Division rounds down.
LEMMA RoundsDown ==
  ASSUME NEW a \in Nat, NEW b \in Nat, b > 0
  PROVE  a \div b \in Nat /\ b * (a \div b) <= a /\ a < b * (a \div b) + b
OBVIOUS

\* A product of three factors rounded down twice.
LEMMA RewardBound ==
  ASSUME NEW n \in Nat, NEW A \in Nat, A > 0, NEW L \in Nat, L > 0,
         NEW R, R = n \div A, NEW d, d = (R * PRECISION) \div L
  PROVE  d \in Nat /\ R \in Nat /\ A * (d * L) <= PRECISION * n
<1>0. PRECISION \in Nat
  BY StakingAssumption
<1>1. R \in Nat /\ A * R <= n
  BY RoundsDown
<1>2. R * PRECISION \in Nat
  BY <1>0, <1>1
<1>3. d \in Nat /\ L * d <= R * PRECISION
  BY <1>2, RoundsDown
<1>4. A * (L * d) <= A * (R * PRECISION)
  <2> DEFINE x == L * d
             y == R * PRECISION
  <2>1. x \in Nat /\ y \in Nat /\ x <= y
    BY <1>2, <1>3
  <2> HIDE DEF x, y
  <2>2. A * x <= A * y
    BY <2>1
  <2> QED BY <2>2 DEF x, y
<1>5. A * (R * PRECISION) = PRECISION * (A * R)
  BY <1>0, <1>1
<1>6. PRECISION * (A * R) <= PRECISION * n
  <2> DEFINE x == A * R
  <2>1. x \in Nat /\ x <= n
    BY <1>1
  <2> HIDE DEF x
  <2>2. PRECISION * x <= PRECISION * n
    BY <1>0, <2>1
  <2> QED BY <2>2 DEF x
<1>7. A * (d * L) = A * (L * d)
  BY <1>3
<1>8. A * (d * L) \in Nat /\ A * (L * d) \in Nat /\ A * (R * PRECISION) \in Nat
      /\ PRECISION * (A * R) \in Nat /\ PRECISION * n \in Nat
  BY <1>0, <1>1, <1>3
<1> QED BY <1>1, <1>3, <1>4, <1>5, <1>6, <1>7, <1>8

\* A pool with more rewards per share, up to a later block.
Grown(pi, info, d, last, new) ==
  /\ SoundPool(pi, info) /\ pi.added /\ d \in Nat /\ last \in Nat /\ pi.lastRewardBlock <= last
  /\ new = [pi EXCEPT !.accPerShare = pi.accPerShare + d, !.lastRewardBlock = last]

\* Shares that grow leave a pool well-formed.
LEMMA GrownPool ==
  ASSUME NEW pi, NEW info, NEW d, NEW last, NEW new, Grown(pi, info, d, last, new)
  PROVE  /\ SoundPool(new, info) /\ new.added /\ new.allocPoint = pi.allocPoint
         /\ new.accPerShare = pi.accPerShare + d /\ new.lastRewardBlock = last
<1>1. /\ pi \in PoolInfo /\ info \in UserInfo /\ PRECISION \in Nat /\ startBlock \in Nat
      /\ d \in Nat /\ last \in Nat /\ pi.added
  BY StakingAssumption DEF SoundPool, Grown
<1>0. pi.accPerShare + d \in Nat
  BY <1>1 DEF PoolInfo
<1>2. /\ new \in PoolInfo /\ new.added /\ new.allocPoint = pi.allocPoint
      /\ new.accPerShare = pi.accPerShare + d /\ new.lastRewardBlock = last
  <2> DEFINE x == pi.accPerShare + d
  <2>1. x \in Nat /\ new = [pi EXCEPT !.accPerShare = x, !.lastRewardBlock = last]
    BY <1>0 DEF Grown
  <2> HIDE DEF x
  <2>2. /\ new \in PoolInfo /\ new.added /\ new.allocPoint = pi.allocPoint
        /\ new.accPerShare = x /\ new.lastRewardBlock = last
    BY <1>1, <2>1 DEF PoolInfo
  <2> QED BY <2>2 DEF x
<1>3. ASSUME NEW u \in Staker
      PROVE  PRECISION * info[u].rewardDebt <= info[u].amount * new.accPerShare
  <2>1. info[u].amount \in Nat /\ info[u].rewardDebt \in Nat /\ pi.accPerShare \in Nat
    BY <1>1 DEF PoolInfo, UserInfo
  <2> DEFINE x == PRECISION * info[u].rewardDebt
             y == info[u].amount * pi.accPerShare
             z == info[u].amount * d
  <2>2. x \in Nat /\ y \in Nat /\ z \in Nat /\ x <= y
    BY <1>1, <2>1 DEF SoundPool, Grown
  <2>3. info[u].amount * new.accPerShare = y + z
    BY <1>1, <1>2, <2>1
  <2> HIDE DEF x, y, z
  <2>4. x <= y + z
    BY <2>2
  <2> QED BY <2>3, <2>4 DEF x
<1>4. startBlock <= last
  BY <1>1 DEF SoundPool, PoolInfo, Grown
<1> QED BY <1>1, <1>2, <1>3, <1>4 DEF SoundPool

\* What updatePool does to a pool: its stakers gain no more than its part of what
\* the blocks since its last update emitted.
LEMMA UpdatedPool ==
  ASSUME StakingInv, NEW t \in LPToken, CanUpdate(t)
  PROVE  /\ SoundPool(Updated(t), userInfo[t])
         /\ Updated(t).added = poolInfo[t].added
         /\ Updated(t).allocPoint = poolInfo[t].allocPoint
         /\ Passed(Updated(t), block) = 0
         /\ Updated(t).added => block <= Updated(t).lastRewardBlock
         /\ \E d \in Nat :
              /\ Updated(t).accPerShare = poolInfo[t].accPerShare + d
              /\ totalAllocPoint * (d * lpHeld[t])
                   <= PRECISION * (stargatePerBlock * Passed(poolInfo[t], block))
              /\ totalAllocPoint = 0 => d * lpHeld[t] = 0
<1> DEFINE pi == poolInfo[t]
           new == Updated(t)
           info == userInfo[t]
           L == lpHeld[t]
           A == totalAllocPoint
           r == stargatePerBlock
           n == (block - pi.lastRewardBlock) * r * pi.allocPoint
<1>1. /\ SoundPool(pi, info) /\ pi \in PoolInfo /\ block \in Nat /\ r \in Nat /\ A \in Nat
      /\ pi.accPerShare \in Nat /\ pi.lastRewardBlock \in Nat /\ pi.allocPoint \in Nat
  BY DEF StakingInv, Budget, Covered, SoundPool, PoolInfo
<1>2. L \in Nat
  <2>1. L = Total(Amounts(info))
    BY DEF StakingInv, Held
  <2> QED BY <1>1, <2>1, ClaimsTypes
<1>3. Passed(pi, block) \in Nat /\ PRECISION \in Nat
  BY <1>1, StakingAssumption DEF Passed
<1>4. CASE ~Due(t)
  <2>1. new = pi
    BY <1>4 DEF Updated
  <2>2. Passed(pi, block) = 0
    <3>1. CASE ~pi.added
      BY <1>1, <3>1 DEF SoundPool, NoPool, Passed
    <3>2. CASE pi.added
      BY <1>1, <1>4, <3>2 DEF Due, Passed
    <3> QED BY <3>1, <3>2
  <2>3. pi.accPerShare = pi.accPerShare + 0 /\ 0 * L = 0 /\ A * (0 * L) = 0
        /\ PRECISION * (r * Passed(pi, block)) = 0
    BY <1>1, <1>2, <1>3, <2>2
  <2>4. pi.added => block <= pi.lastRewardBlock
    BY <1>1, <1>4 DEF Due
  <2> QED BY <1>1, <2>1, <2>2, <2>3, <2>4
<1>5. CASE Due(t) /\ L = 0
  <2>1. new = [pi EXCEPT !.accPerShare = pi.accPerShare + 0, !.lastRewardBlock = block]
    <3>1. new = [pi EXCEPT !.lastRewardBlock = block]
      BY <1>5 DEF Updated
    <3>2. pi.accPerShare + 0 = pi.accPerShare
      BY <1>1
    <3>3. pi = [pi EXCEPT !.accPerShare = pi.accPerShare]
      BY <1>1 DEF PoolInfo
    <3> HIDE DEF pi, new
    <3> QED BY <1>1, <3>1, <3>2, <3>3 DEF PoolInfo
  <2>2. pi.added /\ pi.lastRewardBlock <= block
    BY <1>1, <1>5 DEF Due
  <2>3. /\ SoundPool(new, info) /\ new.added /\ new.allocPoint = pi.allocPoint
        /\ new.accPerShare = pi.accPerShare + 0 /\ new.lastRewardBlock = block
    <3>1. Grown(pi, info, 0, block, new)
      BY <1>1, <2>1, <2>2 DEF Grown
    <3> HIDE DEF new, pi, info
    <3> QED BY <3>1, GrownPool
  <2>4. Passed(new, block) = 0
    BY <1>1, <2>3 DEF Passed
  <2>5. 0 * L = 0 /\ A * (0 * L) = 0 /\ 0 <= PRECISION * (r * Passed(pi, block))
    <3>1. r * Passed(pi, block) \in Nat
      BY <1>1, <1>3
    <3> QED BY <1>1, <1>2, <1>3, <3>1
  <2> QED BY <1>1, <2>2, <2>3, <2>4, <2>5
<1>6. CASE Due(t) /\ L # 0
  <2> DEFINE d == (Reward(t) * PRECISION) \div L
  <2>1. new = [pi EXCEPT !.accPerShare = pi.accPerShare + d, !.lastRewardBlock = block]
    BY <1>6 DEF Updated
  <2>2. pi.added /\ block > pi.lastRewardBlock /\ L > 0 /\ A > 0
    BY <1>1, <1>2, <1>6 DEF Due, CanUpdate
  <2>3. n \in Nat /\ n = r * Passed(pi, block)
    <3> DEFINE k == block - pi.lastRewardBlock
    <3>1. k \in Nat /\ Passed(pi, block) = k * pi.allocPoint
      BY <1>1, <2>2 DEF Passed
    <3> HIDE DEF k
    <3>2. k * r * pi.allocPoint = r * (k * pi.allocPoint) /\ k * r * pi.allocPoint \in Nat
      BY <1>1, <3>1
    <3> QED BY <3>1, <3>2 DEF k
  <2>4. Reward(t) = n \div A
    BY DEF Reward
  <2>5. d \in Nat /\ A * (d * L) <= PRECISION * n
    <3> HIDE DEF n
    <3> QED BY <1>1, <1>2, <2>2, <2>3, <2>4, RewardBound
  <2> HIDE DEF d, n
  <2>6. /\ SoundPool(new, info) /\ new.added /\ new.allocPoint = pi.allocPoint
        /\ new.accPerShare = pi.accPerShare + d /\ new.lastRewardBlock = block
    <3>1. Grown(pi, info, d, block, new)
      BY <1>1, <2>1, <2>2, <2>5 DEF Grown
    <3> HIDE DEF new, pi, info
    <3> QED BY <3>1, GrownPool
  <2>7. Passed(new, block) = 0
    BY <1>1, <2>6 DEF Passed
  <2> QED BY <1>1, <2>2, <2>3, <2>5, <2>6, <2>7
<1> QED BY <1>4, <1>5, <1>6

\* A greater factor.
LEMMA FactorsOrder ==
  ASSUME NEW k \in Nat, k > 0, NEW a \in Nat, NEW b \in Nat, k * a <= k * b
  PROVE  a <= b
OBVIOUS

\* Claims that grow by what the passed blocks emitted stay covered.
LEMMA CoveredGrows ==
  ASSUME NEW c, NEW o, NEW A, NEW r, NEW due, NEW x, Covered(c, o, A, r, due, x),
         NEW G \in Nat, NEW new \in Nat,
         A * G + PRECISION * (r * new) <= PRECISION * (r * o),
         A = 0 => G = 0
  PROVE  Covered(c + G, new, A, r, due, x)
<1> DEFINE E == PRECISION * due + c
           X == PRECISION * x
           n == PRECISION * (r * new)
           m == PRECISION * (r * o)
<1>1. /\ c \in Nat /\ o \in Nat /\ A \in Nat /\ r \in Nat /\ due \in Nat /\ x \in Nat
      /\ PRECISION \in Nat
  BY StakingAssumption DEF Covered
<1>2. E \in Nat /\ X \in Nat /\ n \in Nat /\ m \in Nat
  <2>1. r * new \in Nat /\ r * o \in Nat
    BY <1>1
  <2> QED BY <1>1, <2>1
<1>3. E <= X /\ A * E + m <= A * X
  BY DEF Covered
<1>4. A * G + n <= m
  OBVIOUS
<1>5. PRECISION * due + (c + G) = E + G
  BY <1>1
<1> HIDE DEF E, X, n, m
<1>6. A * (E + G) = A * E + A * G /\ A * E \in Nat /\ A * G \in Nat /\ A * X \in Nat
      /\ E + G \in Nat
  BY <1>1, <1>2
<1>7. A * (E + G) + n <= A * X
  BY <1>2, <1>3, <1>4, <1>6
<1>8. E + G <= X
  <2>1. CASE A = 0
    BY <1>2, <1>3, <2>1
  <2>2. CASE A # 0
    <3>1. A * (E + G) <= A * X /\ A > 0
      <4>1. A * (E + G) \in Nat
        BY <1>1, <1>6
      <4> QED BY <1>1, <1>2, <1>6, <1>7, <2>2, <4>1
    <3> QED BY <1>1, <1>2, <1>6, <3>1, FactorsOrder
  <2> QED BY <2>1, <2>2
<1> QED BY <1>1, <1>5, <1>7, <1>8 DEF Covered, X, n

\* The pools after an update of some of them, of one or of all.
UpdatedPools(T) == [t \in LPToken |-> IF t \in T THEN Updated(t) ELSE poolInfo[t]]

\* They are as well-formed and as covered as before.
LEMMA UpdatesKeep ==
  ASSUME StakingInv, NEW T \in SUBSET LPToken, \A t \in T : CanUpdate(t), NEW pools,
         pools = UpdatedPools(T)
  PROVE  /\ Budget(pools, userInfo, totalAllocPoint, stargatePerBlock, block, paid,
                   emitted + restakes)
         /\ \A t \in T : Passed(pools[t], block) = 0
<1> DEFINE A == totalAllocPoint
           r == stargatePerBlock
           x == emitted + restakes
           c == ClaimsOf(poolInfo, userInfo)
           d == ClaimsOf(pools, userInfo)
           o == Open(poolInfo, block)
           p == Open(pools, block)
           g == [t \in LPToken |-> d[t] - c[t]]
           k == PRECISION * r
           kg == [t \in LPToken |-> A * g[t]]
           kp == [t \in LPToken |-> k * p[t]]
           ko == [t \in LPToken |-> k * o[t]]
           h == [t \in LPToken |-> kg[t] + kp[t]]
<1>1. /\ poolInfo \in [LPToken -> PoolInfo] /\ userInfo \in [LPToken -> UserInfo]
      /\ block \in Nat /\ A \in Nat /\ r \in Nat /\ PRECISION \in Nat /\ k \in Nat
      /\ \A t \in LPToken : SoundPool(poolInfo[t], userInfo[t])
      /\ A = Total(PointsOf(poolInfo)) /\ Covered(Total(c), Total(o), A, r, paid, x)
  BY StakingAssumption DEF StakingInv, Budget, Covered
<1>2. ASSUME NEW t \in LPToken
      PROVE  /\ SoundPool(pools[t], userInfo[t]) /\ pools[t] \in PoolInfo
             /\ pools[t].allocPoint = poolInfo[t].allocPoint
             /\ t \in T => Passed(pools[t], block) = 0
             /\ g[t] \in Nat /\ A * g[t] + k * p[t] <= k * o[t]
             /\ A = 0 => g[t] = 0
  <2>0. d[t] = Total(Claims(pools[t], userInfo[t]))
        /\ c[t] = Total(Claims(poolInfo[t], userInfo[t]))
        /\ p[t] = Passed(pools[t], block) /\ o[t] = Passed(poolInfo[t], block)
    BY DEF ClaimsOf, Open
  <2>1. c[t] \in Nat /\ o[t] \in Nat
    BY <1>1, SumTypes
  <2>2. CASE t \in T
    <3>1. pools[t] = Updated(t)
      BY <2>2 DEF UpdatedPools
    <3>2. PICK e \in Nat :
            /\ Updated(t).accPerShare = poolInfo[t].accPerShare + e
            /\ A * (e * lpHeld[t]) <= PRECISION * (r * Passed(poolInfo[t], block))
            /\ A = 0 => e * lpHeld[t] = 0
      BY <2>2, UpdatedPool
    <3>3. /\ SoundPool(pools[t], userInfo[t]) /\ Passed(pools[t], block) = 0
          /\ pools[t].allocPoint = poolInfo[t].allocPoint
      BY <2>2, <3>1, UpdatedPool
    <3>4. lpHeld[t] = Total(Amounts(userInfo[t])) /\ lpHeld[t] \in Nat
      <4>1. lpHeld[t] = Total(Amounts(userInfo[t]))
        BY DEF StakingInv, Held
      <4> QED BY <1>1, <4>1, ClaimsTypes
    <3>5. d[t] = c[t] + e * lpHeld[t]
      BY <1>1, <2>0, <3>1, <3>2, <3>3, <3>4, ClaimsGrow
    <3>6. g[t] = e * lpHeld[t] /\ g[t] \in Nat
      <4> DEFINE y == e * lpHeld[t]
      <4>1. y \in Nat
        BY <3>2, <3>4
      <4> HIDE DEF y
      <4>2. d[t] - c[t] = y
        BY <2>1, <3>5, <4>1 DEF y
      <4> QED BY <4>1, <4>2 DEF y
    <3>7. PRECISION * (r * o[t]) = k * o[t] /\ k * p[t] = 0
      BY <1>1, <2>0, <2>1, <3>3
    <3>8. A * g[t] \in Nat /\ A * g[t] <= k * o[t]
      <4> HIDE DEF g, k
      <4> QED BY <1>1, <2>0, <3>2, <3>6, <3>7
    <3> HIDE DEF g, k, p, o, A
    <3>9. A * g[t] + k * p[t] <= k * o[t]
      BY <3>7, <3>8
    <3> QED BY <3>2, <3>3, <3>6, <3>9 DEF SoundPool, A
  <2>3. CASE t \notin T
    <3>1. pools[t] = poolInfo[t]
      BY <2>3 DEF UpdatedPools
    <3>2. g[t] = 0 /\ p[t] = o[t]
      BY <2>0, <2>1, <3>1
    <3>3. A * g[t] + k * p[t] <= k * o[t]
      <4> HIDE DEF g, k, p, o, A
      <4>1. k * p[t] = k * o[t] /\ k * o[t] \in Nat /\ A * g[t] = 0
        BY <1>1, <2>1, <3>2
      <4> QED BY <4>1
    <3> QED BY <1>1, <2>3, <3>1, <3>2, <3>3
  <2> QED BY <2>2, <2>3
<1>3. pools \in [LPToken -> PoolInfo] /\ PointsOf(pools) = PointsOf(poolInfo)
  <2>1. pools \in [LPToken -> PoolInfo]
    BY <1>2 DEF UpdatedPools
  <2> QED BY <1>2, <2>1 DEF PointsOf
<1>4. /\ c \in [LPToken -> Nat] /\ d \in [LPToken -> Nat]
      /\ o \in [LPToken -> Nat] /\ p \in [LPToken -> Nat]
  BY <1>1, <1>2, SumTypes
<1>5. /\ \A t \in LPToken : d[t] = c[t] + g[t]
      /\ g \in [LPToken -> Nat]
  <2>1. g \in [LPToken -> Nat]
    BY <1>2
  <2> QED BY <1>4, <2>1
<1>6. IsFiniteSet(LPToken)
  BY StakingAssumption
<1> HIDE DEF c, d, o, p, g, k, A, x
<1>7. /\ kg \in [LPToken -> Nat] /\ \A t \in LPToken : kg[t] = A * g[t]
      /\ kp \in [LPToken -> Nat] /\ \A t \in LPToken : kp[t] = k * p[t]
      /\ ko \in [LPToken -> Nat] /\ \A t \in LPToken : ko[t] = k * o[t]
  BY <1>1, <1>4, <1>5
<1> HIDE DEF kg, kp, ko
<1>8. h \in [LPToken -> Nat] /\ \A t \in LPToken : h[t] = kg[t] + kp[t]
  BY <1>7
<1> HIDE DEF h
<1>9. Total(d) = Total(c) + Total(g)
  BY <1>4, <1>5, <1>6, TotalAdd
<1>10. Total(kg) = A * Total(g) /\ Total(kp) = k * Total(p) /\ Total(ko) = k * Total(o)
  <2>1. A \in Nat /\ k \in Nat
    BY <1>1
  <2>2. Total(kg) = A * Total(g)
    <3>1. /\ g \in [LPToken -> Nat] /\ kg \in [LPToken -> Nat]
          /\ \A t \in LPToken : kg[t] = A * g[t]
      BY <1>5, <1>7
    <3> QED BY <1>6, <2>1, <3>1, TotalScale
  <2>3. Total(kp) = k * Total(p)
    <3>1. /\ p \in [LPToken -> Nat] /\ kp \in [LPToken -> Nat]
          /\ \A t \in LPToken : kp[t] = k * p[t]
      BY <1>4, <1>7
    <3> QED BY <1>6, <2>1, <3>1, TotalScale
  <2>4. Total(ko) = k * Total(o)
    <3>1. /\ o \in [LPToken -> Nat] /\ ko \in [LPToken -> Nat]
          /\ \A t \in LPToken : ko[t] = k * o[t]
      BY <1>4, <1>7
    <3> QED BY <1>6, <2>1, <3>1, TotalScale
  <2> QED BY <2>2, <2>3, <2>4
<1>11. Total(h) = Total(kg) + Total(kp)
  BY <1>6, <1>7, <1>8, TotalAdd
<1>12. Total(h) <= Total(ko)
  <2>1. \A t \in LPToken : h[t] <= ko[t]
    BY <1>2, <1>7, <1>8
  <2> QED BY <1>6, <1>7, <1>8, <2>1, TotalMonotonic
<1>13. Total(g) \in Nat /\ Total(p) \in Nat /\ Total(o) \in Nat
  BY <1>4, <1>5, <1>6, TotalType
<1>14. A = 0 => Total(g) = 0
  BY <1>2, <1>5, TotalZero
<1>15. A * Total(g) + PRECISION * (r * Total(p)) <= PRECISION * (r * Total(o))
  <2> DEFINE P == Total(p)
             O == Total(o)
  <2>1. P \in Nat /\ O \in Nat
    BY <1>13
  <2> HIDE DEF P, O
  <2>2. k * P = PRECISION * (r * P) /\ k * O = PRECISION * (r * O)
    BY <1>1, <2>1 DEF k
  <2> QED BY <1>10, <1>11, <1>12, <2>2 DEF P, O
<1>16. Covered(Total(c) + Total(g), Total(p), A, r, paid, x)
  BY <1>1, <1>13, <1>14, <1>15, CoveredGrows
<1>17. Covered(Total(d), Total(p), A, r, paid, x)
  BY <1>9, <1>16
<1>18. Budget(pools, userInfo, A, r, block, paid, x)
  BY <1>1, <1>2, <1>3, <1>17 DEF Budget, d, p
<1> QED BY <1>2, <1>18 DEF A, x

\* When no pool waits for an update, points and rate may change.
LEMMA CoveredIdle ==
  ASSUME NEW c, NEW o, NEW A, NEW r, NEW due, NEW x, Covered(c, o, A, r, due, x),
         NEW B \in Nat, NEW s \in Nat
  PROVE  Covered(c, 0, B, s, due, x)
<1> DEFINE E == PRECISION * due + c
           X == PRECISION * x
<1>1. /\ c \in Nat /\ due \in Nat /\ x \in Nat /\ PRECISION \in Nat
  BY StakingAssumption DEF Covered
<1>2. E \in Nat /\ X \in Nat /\ E <= X
  BY <1>1 DEF Covered
<1>3. PRECISION * (s * 0) = 0
  BY <1>1
<1> HIDE DEF E, X
<1>4. B * E <= B * X /\ B * E \in Nat /\ B * X \in Nat
  BY <1>2
<1>5. B * E + PRECISION * (s * 0) <= B * X
  BY <1>3, <1>4
<1> QED BY <1>1, <1>2, <1>5 DEF Covered, E, X

\* A block emits at most what its pools share.
LEMMA CoveredBlock ==
  ASSUME NEW c, NEW o, NEW A, NEW r, NEW due, NEW x, Covered(c, o, A, r, due, x),
         NEW new \in Nat, NEW y \in Nat,
         \/ new <= o /\ y = 0
         \/ new <= o + A /\ y = r
  PROVE  Covered(c, new, A, r, due, x + y)
<1> DEFINE E == PRECISION * due + c
           X == PRECISION * x
           Y == PRECISION * y
           n == PRECISION * (r * new)
           m == PRECISION * (r * o)
<1>1. /\ c \in Nat /\ o \in Nat /\ A \in Nat /\ r \in Nat /\ due \in Nat /\ x \in Nat
      /\ PRECISION \in Nat
  BY StakingAssumption DEF Covered
<1>2. E \in Nat /\ X \in Nat /\ Y \in Nat /\ n \in Nat /\ m \in Nat
  <2>1. r * new \in Nat /\ r * o \in Nat
    BY <1>1
  <2> QED BY <1>1, <2>1
<1>3. E <= X /\ A * E + m <= A * X
  BY DEF Covered
<1>4. n <= m + A * Y
  <2>1. r * new <= r * o + A * y
    <3>1. CASE new <= o /\ y = 0
      <4>1. r * new <= r * o /\ A * y = 0
        BY <1>1, <3>1
      <4> QED BY <1>1, <4>1
    <3>2. CASE new <= o + A /\ y = r
      <4>1. r * new <= r * (o + A) /\ r * (o + A) = r * o + A * r
        BY <1>1, <3>2
      <4> QED BY <1>1, <3>2, <4>1
    <3> QED BY <3>1, <3>2
  <2> DEFINE u == r * new
             v == r * o
             w == A * y
  <2>2. u \in Nat /\ v \in Nat /\ w \in Nat /\ u <= v + w
    BY <1>1, <2>1
  <2>3. PRECISION * w = A * Y
    BY <1>1
  <2> HIDE DEF u, v, w, Y
  <2>4. PRECISION * u <= PRECISION * (v + w) /\ PRECISION * (v + w) = PRECISION * v + PRECISION * w
    BY <1>1, <2>2
  <2>5. PRECISION * u \in Nat /\ PRECISION * v \in Nat /\ PRECISION * w \in Nat
    BY <1>1, <2>2
  <2>6. PRECISION * u <= PRECISION * v + A * Y
    BY <2>3, <2>4, <2>5
  <2> QED BY <2>6 DEF u, v
<1>5. PRECISION * (x + y) = X + Y
  BY <1>1
<1> HIDE DEF E, X, Y, n, m
<1>6. A * (X + Y) = A * X + A * Y /\ A * E \in Nat /\ A * X \in Nat /\ A * Y \in Nat
  BY <1>1, <1>2
<1>7. A * E + n <= A * (X + Y)
  BY <1>2, <1>3, <1>4, <1>6
<1>8. E <= X + Y /\ x + y \in Nat
  BY <1>1, <1>2, <1>3
<1> QED BY <1>1, <1>5, <1>7, <1>8 DEF Covered, E, n

\* A new stake: what is paid leaves the claims, and the rounding of the new debt is
\* less than one reward.
LEMMA CoveredRestake ==
  ASSUME NEW c, NEW o, NEW A, NEW r, NEW due, NEW x, Covered(c, o, A, r, due, x),
         NEW old \in Nat, NEW left \in Nat, left <= PRECISION, NEW pay \in Nat,
         PRECISION * pay <= old, NEW d \in Nat, d + old = c + left
  PROVE  Covered(d, o, A, r, due + pay, x + 1)
<1> DEFINE E == PRECISION * due + c
           F == PRECISION * (due + pay) + d
           X == PRECISION * x
           m == PRECISION * (r * o)
<1>1. /\ c \in Nat /\ o \in Nat /\ A \in Nat /\ r \in Nat /\ due \in Nat /\ x \in Nat
      /\ PRECISION \in Nat
  BY StakingAssumption DEF Covered
<1>2. E \in Nat /\ X \in Nat /\ m \in Nat /\ F \in Nat
  <2>1. r * o \in Nat
    BY <1>1
  <2> QED BY <1>1, <2>1
<1>3. E <= X /\ A * E + m <= A * X
  BY DEF Covered
<1>4. F <= E + PRECISION
  <2> DEFINE u == PRECISION * due
             v == PRECISION * pay
  <2>1. u \in Nat /\ v \in Nat /\ PRECISION * (due + pay) = u + v /\ v <= old
    BY <1>1
  <2> HIDE DEF u, v
  <2>2. u + v + d <= u + c + PRECISION
    BY <1>1, <2>1
  <2> QED BY <2>1, <2>2 DEF u
<1>5. PRECISION * (x + 1) = X + PRECISION
  BY <1>1
<1> HIDE DEF E, F, X, m
<1>6. A * F <= A * (E + PRECISION) /\ A * (E + PRECISION) = A * E + A * PRECISION
      /\ A * (X + PRECISION) = A * X + A * PRECISION
      /\ A * F \in Nat /\ A * E \in Nat /\ A * X \in Nat /\ A * PRECISION \in Nat
  BY <1>1, <1>2, <1>4
<1>7. A * F + m <= A * (X + PRECISION)
  BY <1>2, <1>3, <1>6
<1>8. F <= X + PRECISION /\ x + 1 \in Nat /\ due + pay \in Nat
  BY <1>1, <1>2, <1>3, <1>4
<1> QED BY <1>1, <1>5, <1>7, <1>8 DEF Covered, F, m

\* Claims that are given up.
LEMMA CoveredLess ==
  ASSUME NEW c, NEW o, NEW A, NEW r, NEW due, NEW x, Covered(c, o, A, r, due, x),
         NEW d \in Nat, d <= c
  PROVE  Covered(d, o, A, r, due, x)
<1> DEFINE E == PRECISION * due + c
           F == PRECISION * due + d
           X == PRECISION * x
           m == PRECISION * (r * o)
<1>1. /\ c \in Nat /\ o \in Nat /\ A \in Nat /\ r \in Nat /\ due \in Nat /\ x \in Nat
      /\ PRECISION \in Nat
  BY StakingAssumption DEF Covered
<1>2. E \in Nat /\ X \in Nat /\ m \in Nat /\ F \in Nat /\ F <= E
  <2>1. r * o \in Nat
    BY <1>1
  <2> QED BY <1>1, <2>1
<1>3. E <= X /\ A * E + m <= A * X
  BY DEF Covered
<1> HIDE DEF E, F, X, m
<1>4. A * F <= A * E /\ A * F \in Nat /\ A * E \in Nat /\ A * X \in Nat
  BY <1>1, <1>2
<1>5. F <= X /\ A * F + m <= A * X
  BY <1>2, <1>3, <1>4
<1> QED BY <1>1, <1>5 DEF Covered, F, X, m

\* The claim of one user.
Claim1(pi, info) == info.amount * pi.accPerShare - PRECISION * info.rewardDebt

\* A user of a pool whose stake changes.
NewStake(pools, users, t, u, new, after) ==
  /\ pools \in [LPToken -> PoolInfo] /\ users \in [LPToken -> UserInfo]
  /\ \A y \in LPToken : SoundPool(pools[y], users[y])
  /\ t \in LPToken /\ u \in Staker
  /\ new \in [amount: Nat, rewardDebt: Nat]
  /\ PRECISION * new.rewardDebt <= new.amount * pools[t].accPerShare
  /\ pools[t].added \/ (new.amount = 0 /\ new.rewardDebt = 0)
  /\ after = [users EXCEPT ![t][u] = new]

\* It leaves every pool well-formed, and changes the sums by what it is.
LEMMA NewStakeSums ==
  ASSUME NEW pools, NEW users, NEW t, NEW u, NEW new, NEW after,
         NewStake(pools, users, t, u, new, after)
  PROVE  /\ after \in [LPToken -> UserInfo]
         /\ \A y \in LPToken : SoundPool(pools[y], after[y])
         /\ Claim1(pools[t], users[t][u]) \in Nat /\ Claim1(pools[t], new) \in Nat
         /\ Total(ClaimsOf(pools, after)) + Claim1(pools[t], users[t][u])
              = Total(ClaimsOf(pools, users)) + Claim1(pools[t], new)
         /\ \A y \in LPToken \ {t} : after[y] = users[y]
         /\ Total(Amounts(after[t])) + users[t][u].amount = Total(Amounts(users[t])) + new.amount
<1> DEFINE pi == pools[t]
           i == users[t]
           j == after[t]
<1>1. /\ pools \in [LPToken -> PoolInfo] /\ users \in [LPToken -> UserInfo]
      /\ t \in LPToken /\ u \in Staker /\ new \in [amount: Nat, rewardDebt: Nat]
      /\ after = [users EXCEPT ![t][u] = new]
      /\ SoundPool(pi, i)
  BY DEF NewStake
<1>2. /\ j = [i EXCEPT ![u] = new] /\ i \in UserInfo /\ j \in UserInfo
      /\ \A y \in LPToken \ {t} : after[y] = users[y]
      /\ after \in [LPToken -> UserInfo]
  BY <1>1 DEF UserInfo
<1>3. j[u] = new /\ \A y \in Staker \ {u} : j[y] = i[y]
  BY <1>1, <1>2 DEF UserInfo
<1>4. SoundPool(pi, j)
  <2>1. \A y \in Staker : PRECISION * j[y].rewardDebt <= j[y].amount * pi.accPerShare
    BY <1>1, <1>3 DEF NewStake, SoundPool
  <2>2. ~pi.added => pi = NoPool /\ \A y \in Staker : j[y].amount = 0 /\ j[y].rewardDebt = 0
    BY <1>1, <1>3 DEF NewStake, SoundPool
  <2> QED BY <1>1, <1>2, <2>1, <2>2 DEF SoundPool
<1>5. \A y \in LPToken : SoundPool(pools[y], after[y])
  BY <1>2, <1>4 DEF NewStake
<1>6. IsFiniteSet(Staker) /\ IsFiniteSet(LPToken)
  BY StakingAssumption
<1>7. Total(Amounts(j)) + i[u].amount = Total(Amounts(i)) + new.amount
  <2> DEFINE a == Amounts(i)
             b == Amounts(j)
  <2>1. a \in [Staker -> Nat] /\ b \in [Staker -> Nat]
    BY <1>1, <1>4, ClaimsTypes
  <2>2. a[u] = i[u].amount /\ b[u] = new.amount /\ \A y \in Staker \ {u} : b[y] = a[y]
    BY <1>1, <1>3 DEF Amounts
  <2> HIDE DEF a, b
  <2>3. OneDiffers(a, b, Staker, u)
    BY <1>1, <1>6, <2>1, <2>2 DEF OneDiffers
  <2>4. Total(b) + a[u] = Total(a) + b[u]
    BY <2>3, TotalOfChanged
  <2> QED BY <2>2, <2>4 DEF a, b
<1>8. /\ Total(Claims(pi, j)) + Claim1(pi, i[u]) = Total(Claims(pi, i)) + Claim1(pi, new)
      /\ Claim1(pi, i[u]) \in Nat /\ Claim1(pi, new) \in Nat
  <2> DEFINE a == Claims(pi, i)
             b == Claims(pi, j)
  <2>1. a \in [Staker -> Nat] /\ b \in [Staker -> Nat]
    BY <1>1, <1>4, ClaimsTypes
  <2>2. a[u] = Claim1(pi, i[u]) /\ b[u] = Claim1(pi, new) /\ \A y \in Staker \ {u} : b[y] = a[y]
    BY <1>1, <1>3 DEF Claims, Claim1
  <2> HIDE DEF a, b
  <2>3. OneDiffers(a, b, Staker, u)
    BY <1>1, <1>6, <2>1, <2>2 DEF OneDiffers
  <2>4. Total(b) + a[u] = Total(a) + b[u]
    BY <2>3, TotalOfChanged
  <2>5. a[u] \in Nat /\ b[u] \in Nat
    BY <1>1, <2>1
  <2> QED BY <2>2, <2>4, <2>5 DEF a, b
<1>9. Total(ClaimsOf(pools, after)) + Total(Claims(pi, i))
        = Total(ClaimsOf(pools, users)) + Total(Claims(pi, j))
  <2> DEFINE a == ClaimsOf(pools, users)
             b == ClaimsOf(pools, after)
  <2>1. a \in [LPToken -> Nat] /\ b \in [LPToken -> Nat]
    <3>1. 0 \in Nat /\ \A y \in LPToken : SoundPool(pools[y], users[y])
      BY DEF NewStake
    <3> QED BY <1>5, <3>1, SumTypes
  <2>2. a[t] = Total(Claims(pi, i)) /\ b[t] = Total(Claims(pi, j))
        /\ \A y \in LPToken \ {t} : b[y] = a[y]
    BY <1>1, <1>2 DEF ClaimsOf
  <2> HIDE DEF a, b
  <2>3. OneDiffers(a, b, LPToken, t)
    BY <1>1, <1>6, <2>1, <2>2 DEF OneDiffers
  <2>4. Total(b) + a[t] = Total(a) + b[t]
    BY <2>3, TotalOfChanged
  <2> QED BY <2>2, <2>4 DEF a, b
<1>10. Total(ClaimsOf(pools, after)) \in Nat /\ Total(ClaimsOf(pools, users)) \in Nat
       /\ Total(Claims(pi, i)) \in Nat /\ Total(Claims(pi, j)) \in Nat
  <2>1. 0 \in Nat /\ \A y \in LPToken : SoundPool(pools[y], users[y])
    BY DEF NewStake
  <2> QED BY <1>1, <1>4, <1>5, <2>1, SumTypes, ClaimsTypes
<1>11. Total(ClaimsOf(pools, after)) + Claim1(pi, i[u])
         = Total(ClaimsOf(pools, users)) + Claim1(pi, new)
  <2> DEFINE A == Total(ClaimsOf(pools, after))
             B == Total(ClaimsOf(pools, users))
             c == Total(Claims(pi, i))
             d == Total(Claims(pi, j))
             e == Claim1(pi, i[u])
             f == Claim1(pi, new)
  <2>1. A + c = B + d /\ d + e = c + f
    BY <1>8, <1>9
  <2>2. A \in Nat /\ B \in Nat /\ c \in Nat /\ d \in Nat /\ e \in Nat /\ f \in Nat
    BY <1>8, <1>10
  <2> HIDE DEF A, B, c, d, e, f
  <2>3. A + e = B + f
    BY <2>1, <2>2
  <2> QED BY <2>3 DEF A, B, e, f
<1> QED BY <1>2, <1>5, <1>7, <1>8, <1>11

\* A debt is what a stake has accrued, but for its rounding.
LEMMA DebtOfStake ==
  ASSUME NEW pi \in PoolInfo, NEW n \in Nat
  PROVE  /\ Accrued(pi, n) \in Nat
         /\ PRECISION * Accrued(pi, n) <= n * pi.accPerShare
         /\ n * pi.accPerShare < PRECISION * Accrued(pi, n) + PRECISION
<1>1. PRECISION \in Nat /\ PRECISION > 0 /\ n * pi.accPerShare \in Nat
  BY StakingAssumption DEF PoolInfo
<1> QED BY <1>1, RoundsDown DEF Accrued

\* What a user is due is not negative, and is claimed.
LEMMA PendingCovered ==
  ASSUME NEW pi \in PoolInfo, NEW n \in Nat, NEW f \in Nat,
         PRECISION * f <= n * pi.accPerShare
  PROVE  /\ Accrued(pi, n) - f \in Nat
         /\ PRECISION * (Accrued(pi, n) - f) <= n * pi.accPerShare - PRECISION * f
<1> DEFINE e == Accrued(pi, n)
           z == n * pi.accPerShare
<1>1. /\ e \in Nat /\ PRECISION * e <= z /\ z < PRECISION * e + PRECISION /\ z \in Nat
      /\ PRECISION * f <= z /\ PRECISION \in Nat
  BY DebtOfStake, StakingAssumption DEF PoolInfo
<1> HIDE DEF e, z
<1>2. PRECISION * (e + 1) = PRECISION * e + PRECISION
      /\ PRECISION * f \in Nat /\ PRECISION * e \in Nat
  BY <1>1
<1>3. f <= e
  <2>1. CASE e + 1 <= f
    <3>1. PRECISION * (e + 1) <= PRECISION * f
      BY <1>1, <2>1
    <3> QED BY <1>1, <1>2, <3>1
  <2> QED BY <1>1, <2>1
<1>4. PRECISION * (e - f) = PRECISION * e - PRECISION * f
  BY <1>1
<1>5. e - f \in Nat /\ PRECISION * (e - f) <= z - PRECISION * f
  BY <1>1, <1>2, <1>3, <1>4
<1> QED BY <1>5 DEF e, z

\* What a user has staked and owes after a deposit, a withdrawal and an exit.
Staked(pools, t, n, new) == new = [amount |-> n, rewardDebt |-> Accrued(pools[t], n)]
Left(new) == new = [amount |-> 0, rewardDebt |-> 0]
WithStake(users, t, u, new, after) == after = [users EXCEPT ![t][u] = new]

\* A user whose rewards are paid and whose stake becomes another one.
LEMMA RestakeKeeps ==
  ASSUME NEW pools, NEW users, NEW A, NEW r, NEW b, NEW due, NEW x,
         Budget(pools, users, A, r, b, due, x),
         NEW t \in LPToken, NEW u \in Staker, pools[t].added, NEW n \in Nat,
         NEW new, Staked(pools, t, n, new), NEW pay,
         pay = Accrued(pools[t], users[t][u].amount) - users[t][u].rewardDebt,
         NEW after, WithStake(users, t, u, new, after)
  PROVE  /\ pay \in Nat
         /\ NewStake(pools, users, t, u, new, after)
         /\ Budget(pools, after, A, r, b, due + pay, x + 1)
<1> DEFINE pi == pools[t]
           i == users[t][u]
           old == Claim1(pi, i)
           left == Claim1(pi, new)
           c == Total(ClaimsOf(pools, users))
           d == Total(ClaimsOf(pools, after))
           o == Total(Open(pools, b))
<1>1. /\ pools \in [LPToken -> PoolInfo] /\ users \in [LPToken -> UserInfo] /\ b \in Nat
      /\ \A y \in LPToken : SoundPool(pools[y], users[y])
      /\ A = Total(PointsOf(pools)) /\ Covered(c, o, A, r, due, x)
      /\ PRECISION \in Nat /\ PRECISION > 0
  BY StakingAssumption DEF Budget
<1>2. /\ pi \in PoolInfo /\ i \in [amount: Nat, rewardDebt: Nat]
      /\ PRECISION * i.rewardDebt <= i.amount * pi.accPerShare
  BY <1>1 DEF UserInfo, SoundPool
<1>3. NewStake(pools, users, t, u, new, after)
  <2>1. new \in [amount: Nat, rewardDebt: Nat]
        /\ PRECISION * new.rewardDebt <= new.amount * pi.accPerShare
    BY <1>2, DebtOfStake DEF Staked
  <2> QED BY <1>1, <2>1 DEF NewStake, WithStake
<1>4. pay \in Nat /\ PRECISION * pay <= old
  <2>1. i.amount \in Nat /\ i.rewardDebt \in Nat
    BY <1>2
  <2> QED BY <1>2, <2>1, PendingCovered DEF Claim1
<1>5. left \in Nat /\ left <= PRECISION
  <2> DEFINE e == PRECISION * Accrued(pi, n)
             z == n * pi.accPerShare
  <2>1. e \in Nat /\ z \in Nat /\ e <= z /\ z < e + PRECISION /\ left = z - e
    BY <1>1, <1>2, DebtOfStake DEF PoolInfo, Claim1, Staked
  <2> HIDE DEF e, z, left
  <2> QED BY <1>1, <2>1
<1>6. /\ after \in [LPToken -> UserInfo]
      /\ \A y \in LPToken : SoundPool(pools[y], after[y])
      /\ old \in Nat /\ d + old = c + left
  <2>1. /\ after \in [LPToken -> UserInfo]
        /\ \A y \in LPToken : SoundPool(pools[y], after[y])
        /\ Claim1(pools[t], users[t][u]) \in Nat
        /\ Total(ClaimsOf(pools, after)) + Claim1(pools[t], users[t][u])
             = Total(ClaimsOf(pools, users)) + Claim1(pools[t], new)
    BY <1>3, NewStakeSums
  <2> QED BY <2>1
<1>7. d \in Nat
  BY <1>1, <1>6, SumTypes
<1> HIDE DEF old, left, c, d, o
<1>8. Covered(d, o, A, r, due + pay, x + 1)
  BY <1>1, <1>4, <1>5, <1>6, <1>7, CoveredRestake
<1> QED BY <1>1, <1>3, <1>4, <1>6, <1>8 DEF Budget, d, o

\* A user who leaves without rewards.
LEMMA LeaveKeeps ==
  ASSUME NEW pools, NEW users, NEW A, NEW r, NEW b, NEW due, NEW x,
         Budget(pools, users, A, r, b, due, x),
         NEW t \in LPToken, NEW u \in Staker,
         NEW new, Left(new), NEW after, WithStake(users, t, u, new, after)
  PROVE  /\ NewStake(pools, users, t, u, new, after)
         /\ Budget(pools, after, A, r, b, due, x)
<1> DEFINE pi == pools[t]
           old == Claim1(pi, users[t][u])
           c == Total(ClaimsOf(pools, users))
           d == Total(ClaimsOf(pools, after))
           o == Total(Open(pools, b))
<1>1. /\ pools \in [LPToken -> PoolInfo] /\ users \in [LPToken -> UserInfo] /\ b \in Nat
      /\ \A y \in LPToken : SoundPool(pools[y], users[y])
      /\ A = Total(PointsOf(pools)) /\ Covered(c, o, A, r, due, x)
      /\ PRECISION \in Nat
  BY StakingAssumption DEF Budget
<1>2. pi.accPerShare \in Nat /\ PRECISION * 0 = 0 /\ 0 * pi.accPerShare = 0
  BY <1>1 DEF PoolInfo
<1>3. NewStake(pools, users, t, u, new, after)
  <2>1. new \in [amount: Nat, rewardDebt: Nat] /\ new.amount = 0 /\ new.rewardDebt = 0
    BY DEF Left
  <2>2. PRECISION * new.rewardDebt <= new.amount * pools[t].accPerShare
    BY <1>2, <2>1
  <2> QED BY <1>1, <2>1, <2>2 DEF NewStake, WithStake
<1>4. Claim1(pi, new) = 0
  BY <1>2 DEF Claim1, Left
<1>5. /\ after \in [LPToken -> UserInfo]
      /\ \A y \in LPToken : SoundPool(pools[y], after[y])
      /\ old \in Nat /\ d + old = c + Claim1(pi, new)
  <2>1. /\ after \in [LPToken -> UserInfo]
        /\ \A y \in LPToken : SoundPool(pools[y], after[y])
        /\ Claim1(pools[t], users[t][u]) \in Nat
        /\ Total(ClaimsOf(pools, after)) + Claim1(pools[t], users[t][u])
             = Total(ClaimsOf(pools, users)) + Claim1(pools[t], new)
    BY <1>3, NewStakeSums
  <2> QED BY <2>1
<1>6. d \in Nat /\ c \in Nat
  BY <1>1, <1>5, SumTypes
<1> HIDE DEF old, c, d, o
<1>7. d <= c
  BY <1>4, <1>5, <1>6
<1>8. Covered(d, o, A, r, due, x)
  BY <1>1, <1>6, <1>7, CoveredLess
<1> QED BY <1>1, <1>3, <1>5, <1>8 DEF Budget, d, o

\* Pools that are all updated and get other points or another rate.
Reallocated(pools, users, b, new) ==
  /\ new \in [LPToken -> PoolInfo]
  /\ \A t \in LPToken : /\ SoundPool(new[t], users[t]) /\ Passed(new[t], b) = 0
                        /\ new[t].accPerShare = pools[t].accPerShare

\* They are as covered as before.
LEMMA ReallocateKeeps ==
  ASSUME NEW pools, NEW users, NEW A, NEW r, NEW b, NEW due, NEW x,
         Budget(pools, users, A, r, b, due, x),
         NEW new, Reallocated(pools, users, b, new),
         NEW B, B = Total(PointsOf(new)), NEW s \in Nat
  PROVE  Budget(new, users, B, s, b, due, x)
<1>1. /\ users \in [LPToken -> UserInfo] /\ b \in Nat
      /\ \A t \in LPToken : SoundPool(pools[t], users[t])
      /\ Covered(Total(ClaimsOf(pools, users)), Total(Open(pools, b)), A, r, due, x)
  BY DEF Budget
<1>2. new \in [LPToken -> PoolInfo] /\ \A t \in LPToken : SoundPool(new[t], users[t])
  BY DEF Reallocated
<1>3. ClaimsOf(new, users) = ClaimsOf(pools, users)
  <2>1. ASSUME NEW t \in LPToken PROVE Claims(new[t], users[t]) = Claims(pools[t], users[t])
    BY DEF Reallocated, Claims
  <2> QED BY <2>1 DEF ClaimsOf
<1>4. Total(Open(new, b)) = 0
  <2>1. Open(new, b) \in [LPToken -> Nat]
    BY <1>1, <1>2, SumTypes
  <2>2. \A t \in LPToken : Open(new, b)[t] = 0
    BY DEF Reallocated, Open
  <2> QED BY <2>1, <2>2, TotalZero
<1>5. B \in Nat
  BY <1>1, <1>2, SumTypes
<1>6. Covered(Total(ClaimsOf(pools, users)), 0, B, s, due, x)
  BY <1>1, <1>5, CoveredIdle
<1> QED BY <1>1, <1>2, <1>3, <1>4, <1>6 DEF Budget

\* A new block: what it emits covers what the pools have earned by it.
LEMMA BlockKeeps ==
  ASSUME NEW pools, NEW users, NEW A, NEW r, NEW b, NEW due, NEW x,
         Budget(pools, users, A, r, b, due, x),
         NEW y, y = IF b + 1 > startBlock THEN r ELSE 0
  PROVE  y \in Nat /\ Budget(pools, users, A, r, b + 1, due, x + y)
<1> DEFINE o == Open(pools, b)
           p == Open(pools, b + 1)
           a == PointsOf(pools)
           h == [t \in LPToken |-> o[t] + a[t]]
<1>1. /\ users \in [LPToken -> UserInfo] /\ b \in Nat /\ b + 1 \in Nat
      /\ \A t \in LPToken : SoundPool(pools[t], users[t])
      /\ Covered(Total(ClaimsOf(pools, users)), Total(o), A, r, due, x)
      /\ A = Total(a) /\ r \in Nat /\ startBlock \in Nat
  BY StakingAssumption DEF Budget, Covered
<1>2. /\ o \in [LPToken -> Nat] /\ p \in [LPToken -> Nat] /\ a \in [LPToken -> Nat]
      /\ Total(o) \in Nat /\ Total(p) \in Nat
  BY <1>1, SumTypes
<1>3. ASSUME NEW t \in LPToken
      PROVE  /\ p[t] <= o[t] + a[t]
             /\ b + 1 <= startBlock => p[t] <= o[t]
  <2> DEFINE pi == pools[t]
  <2>1. /\ SoundPool(pi, users[t]) /\ pi.lastRewardBlock \in Nat /\ pi.allocPoint \in Nat
        /\ o[t] = Passed(pi, b) /\ p[t] = Passed(pi, b + 1) /\ a[t] = pi.allocPoint
    BY <1>1 DEF SoundPool, PoolInfo, Open, PointsOf
  <2>2. CASE ~pi.added
    BY <1>1, <2>1, <2>2 DEF SoundPool, NoPool, Passed
  <2>3. CASE pi.added
    <3>1. startBlock <= pi.lastRewardBlock
      BY <2>1, <2>3 DEF SoundPool
    <3> DEFINE last == pi.lastRewardBlock
               n == pi.allocPoint
    <3>2. last \in Nat /\ n \in Nat
      BY <2>1
    <3> HIDE DEF pi, last, n
    <3>3. CASE b + 1 <= last
      BY <1>1, <2>1, <3>1, <3>2, <3>3 DEF Passed, last, n
    <3>4. CASE b + 1 > last
      <4>0. \A z \in Nat : Passed(pi, z) = IF z > last THEN (z - last) * n ELSE 0
        BY DEF Passed, last, n
      <4>1. Passed(pi, b + 1) = ((b + 1) - last) * n
        <5> DEFINE z == b + 1
        <5>1. z \in Nat /\ z > last
          BY <1>1, <3>4
        <5> HIDE DEF z
        <5>2. Passed(pi, z) = (z - last) * n
          BY <4>0, <5>1
        <5> QED BY <5>2 DEF z
      <4>2. Passed(pi, b) = (b - last) * n
        <5>1. CASE b > last
          BY <1>1, <4>0, <5>1
        <5>2. CASE b = last
          BY <1>1, <3>2, <4>0, <5>2
        <5> QED BY <1>1, <3>2, <3>4, <5>1, <5>2
      <4>3. ((b + 1) - last) * n = (b - last) * n + n
        BY <1>1, <3>2
      <4>4. (b - last) * n \in Int /\ ~(b + 1 <= startBlock)
        BY <1>1, <3>1, <3>2, <3>4 DEF last
      <4> QED BY <2>1, <3>2, <4>1, <4>2, <4>3, <4>4 DEF last, n
    <3> QED BY <1>1, <3>2, <3>3, <3>4
  <2> QED BY <2>2, <2>3
<1>4. IsFiniteSet(LPToken)
  BY StakingAssumption
<1> HIDE DEF o, p, a
<1>5. h \in [LPToken -> Nat] /\ \A t \in LPToken : h[t] = o[t] + a[t]
  BY <1>2
<1> HIDE DEF h
<1>6. Total(h) = Total(o) + A
  BY <1>1, <1>2, <1>4, <1>5, TotalAdd
<1>7. Total(p) <= Total(h)
  BY <1>2, <1>3, <1>4, <1>5, TotalMonotonic
<1>8. b + 1 <= startBlock => Total(p) <= Total(o)
  BY <1>2, <1>3, <1>4, TotalMonotonic
<1>9. y \in Nat /\ \/ Total(p) <= Total(o) /\ y = 0
                   \/ Total(p) <= Total(o) + A /\ y = r
  BY <1>1, <1>6, <1>7, <1>8
<1>10. Covered(Total(ClaimsOf(pools, users)), Total(p), A, r, due, x + y)
  BY <1>1, <1>2, <1>9, CoveredBlock
<1> QED BY <1>1, <1>9, <1>10 DEF Budget, p

\* After a change of one stake, the contract holds what is staked.
LEMMA HeldKeeps ==
  ASSUME NEW pools, NEW users, NEW t, NEW u, NEW new, NEW after,
         NewStake(pools, users, t, u, new, after), NEW held, Held(users, held),
         NEW more \in Int, new.amount = users[t][u].amount + more,
         NEW now, now = [held EXCEPT ![t] = @ + more]
  PROVE  Held(after, now)
<1>1. /\ t \in LPToken /\ u \in Staker
      /\ users \in [LPToken -> UserInfo] /\ \A y \in LPToken : SoundPool(pools[y], users[y])
  BY DEF NewStake
<1>2. /\ \A y \in LPToken : SoundPool(pools[y], after[y])
      /\ \A y \in LPToken \ {t} : after[y] = users[y]
      /\ Total(Amounts(after[t])) + users[t][u].amount = Total(Amounts(users[t])) + new.amount
  BY NewStakeSums
<1>3. Total(Amounts(after[t])) \in Nat /\ Total(Amounts(users[t])) \in Nat
  BY <1>1, <1>2, ClaimsTypes
<1>4. users[t][u].amount \in Nat
  BY <1>1 DEF UserInfo
<1>5. Total(Amounts(after[t])) = Total(Amounts(users[t])) + more
  BY <1>2, <1>3, <1>4
<1>6. held = [y \in LPToken |-> Total(Amounts(users[y]))]
  BY DEF Held
<1> QED BY <1>1, <1>2, <1>5, <1>6 DEF Held

\* All pools updated, in a form that the calls of the owner start from.
LEMMA AllUpdatedFacts ==
  ASSUME StakingInv, \A t \in LPToken : CanUpdate(t)
  PROVE  /\ Budget(AllUpdated, userInfo, totalAllocPoint, stargatePerBlock, block, paid,
                   emitted + restakes)
         /\ AllUpdated \in [LPToken -> PoolInfo]
         /\ \A t \in LPToken :
              /\ SoundPool(AllUpdated[t], userInfo[t]) /\ Passed(AllUpdated[t], block) = 0
              /\ AllUpdated[t].added = poolInfo[t].added
              /\ AllUpdated[t].allocPoint = poolInfo[t].allocPoint
              /\ poolInfo[t].added => block <= AllUpdated[t].lastRewardBlock
<1>1. AllUpdated = UpdatedPools(LPToken)
  BY DEF AllUpdated, UpdatedPools
<1>2. /\ Budget(AllUpdated, userInfo, totalAllocPoint, stargatePerBlock, block, paid,
                emitted + restakes)
      /\ \A t \in LPToken : Passed(AllUpdated[t], block) = 0
  <2>1. LPToken \in SUBSET LPToken
    OBVIOUS
  <2> QED BY <1>1, <2>1, UpdatesKeep
<1>3. AllUpdated \in [LPToken -> PoolInfo] /\ \A t \in LPToken : SoundPool(AllUpdated[t], userInfo[t])
  BY <1>2 DEF Budget
<1>4. \A t \in LPToken : AllUpdated[t] = Updated(t)
  BY DEF AllUpdated
<1>5. \A t \in LPToken : /\ Updated(t).added = poolInfo[t].added
                         /\ Updated(t).allocPoint = poolInfo[t].allocPoint
                         /\ Updated(t).added => block <= Updated(t).lastRewardBlock
  BY UpdatedPool
<1> QED BY <1>2, <1>3, <1>4, <1>5

\* The owner gives a pool other points.
LEMMA SetKeeps ==
  ASSUME StakingInv, NEW t \in LPToken, NEW points \in Nat, Set(t, points)
  PROVE  StakingInv'
<1> DEFINE new == [AllUpdated EXCEPT ![t].allocPoint = points]
           B == totalAllocPoint - poolInfo[t].allocPoint + points
           x == emitted + restakes
<1>1. /\ poolInfo[t].added /\ \A y \in LPToken : CanUpdate(y)
      /\ poolInfo' = new /\ totalAllocPoint' = B
      /\ UNCHANGED <<block, stargatePerBlock, userInfo, lpHeld, paid, restakes, emitted>>
  BY DEF Set, stakes
<1>2. /\ Budget(AllUpdated, userInfo, totalAllocPoint, stargatePerBlock, block, paid, x)
      /\ AllUpdated \in [LPToken -> PoolInfo]
      /\ \A y \in LPToken :
           /\ SoundPool(AllUpdated[y], userInfo[y]) /\ Passed(AllUpdated[y], block) = 0
           /\ AllUpdated[y].added = poolInfo[y].added
           /\ AllUpdated[y].allocPoint = poolInfo[y].allocPoint
           /\ poolInfo[y].added => block <= AllUpdated[y].lastRewardBlock
  BY <1>1, AllUpdatedFacts
<1>3. /\ block \in Nat /\ stargatePerBlock \in Nat
      /\ totalAllocPoint = Total(PointsOf(AllUpdated))
  BY <1>2 DEF Budget, Covered
<1>4. new[t] = [AllUpdated[t] EXCEPT !.allocPoint = points] /\ new[t] \in PoolInfo
      /\ \A y \in LPToken \ {t} : new[y] = AllUpdated[y]
  BY <1>2 DEF PoolInfo
<1>5. new \in [LPToken -> PoolInfo]
  BY <1>2, <1>4 DEF PoolInfo
<1>6. /\ SoundPool(new[t], userInfo[t]) /\ Passed(new[t], block) = 0
      /\ new[t].accPerShare = AllUpdated[t].accPerShare /\ new[t].allocPoint = points
  <2> DEFINE pi == AllUpdated[t]
             nw == new[t]
             info == userInfo[t]
  <2>1. /\ SoundPool(pi, info) /\ pi.added /\ block <= pi.lastRewardBlock /\ pi \in PoolInfo
        /\ nw = [pi EXCEPT !.allocPoint = points] /\ nw \in PoolInfo
    BY <1>1, <1>2, <1>4
  <2> HIDE DEF nw, pi, info, new
  <2>2. /\ nw.added /\ nw.lastRewardBlock = pi.lastRewardBlock /\ nw.allocPoint = points
        /\ nw.accPerShare = pi.accPerShare
    BY <2>1 DEF PoolInfo
  <2>3. SoundPool(nw, info)
    BY <2>1, <2>2 DEF SoundPool
  <2>4. Passed(nw, block) = 0
    BY <1>3, <2>1, <2>2 DEF Passed, PoolInfo
  <2> QED BY <2>2, <2>3, <2>4 DEF nw, pi, info
<1> HIDE DEF new
<1>7. Reallocated(AllUpdated, userInfo, block, new)
  <2>1. ASSUME NEW y \in LPToken
        PROVE  /\ SoundPool(new[y], userInfo[y]) /\ Passed(new[y], block) = 0
               /\ new[y].accPerShare = AllUpdated[y].accPerShare
    <3>1. CASE y = t
      BY <1>2, <1>4, <1>5, <1>6, <3>1
    <3>2. CASE y # t
      BY <1>2, <1>4, <1>5, <1>6, <3>2
    <3> QED BY <3>1, <3>2
  <2> QED BY <1>5, <2>1 DEF Reallocated
<1>8. B = Total(PointsOf(new))
  <2> DEFINE a == PointsOf(AllUpdated)
             b == PointsOf(new)
  <2>1. a \in [LPToken -> Nat] /\ b \in [LPToken -> Nat] /\ Total(a) \in Nat /\ Total(b) \in Nat
    <3>1. \A y \in LPToken : SoundPool(new[y], userInfo[y])
      BY <1>7 DEF Reallocated
    <3> QED BY <1>2, <1>3, <3>1, SumTypes
  <2>2. a[t] = poolInfo[t].allocPoint /\ b[t] = points /\ \A y \in LPToken \ {t} : b[y] = a[y]
    BY <1>2, <1>4, <1>6 DEF PointsOf
  <2>3. a[t] \in Nat
    BY <2>1
  <2>4. IsFiniteSet(LPToken)
    BY StakingAssumption
  <2> HIDE DEF a, b
  <2>5. OneDiffers(a, b, LPToken, t)
    BY <2>1, <2>2, <2>4 DEF OneDiffers
  <2>6. Total(b) + a[t] = Total(a) + b[t]
    BY <2>5, TotalOfChanged
  <2>7. totalAllocPoint = Total(a)
    BY <1>3 DEF a
  <2>8. totalAllocPoint - a[t] + points = Total(b)
    BY <2>1, <2>2, <2>3, <2>6, <2>7
  <2> QED BY <2>2, <2>8 DEF b
<1> HIDE DEF B, x
<1>9. Budget(new, userInfo, B, stargatePerBlock, block, paid, x)
  BY <1>2, <1>3, <1>7, <1>8, ReallocateKeeps
<1> QED BY <1>1, <1>9 DEF StakingInv, Held, x

\* The owner adds a pool.
LEMMA AddKeeps ==
  ASSUME StakingInv, NEW t \in LPToken, NEW points \in Nat, Add(t, points)
  PROVE  StakingInv'
<1> DEFINE last == IF block > startBlock THEN block ELSE startBlock
           nw == [ added |-> TRUE, allocPoint |-> points, accPerShare |-> 0,
                   lastRewardBlock |-> last ]
           new == [AllUpdated EXCEPT ![t] = nw]
           B == totalAllocPoint + points
           x == emitted + restakes
<1>1. /\ ~poolInfo[t].added /\ \A y \in LPToken : CanUpdate(y)
      /\ poolInfo' = new /\ totalAllocPoint' = B
      /\ UNCHANGED <<block, stargatePerBlock, userInfo, lpHeld, paid, restakes, emitted>>
  BY DEF Add, stakes
<1>2. /\ Budget(AllUpdated, userInfo, totalAllocPoint, stargatePerBlock, block, paid, x)
      /\ AllUpdated \in [LPToken -> PoolInfo]
      /\ \A y \in LPToken :
           /\ SoundPool(AllUpdated[y], userInfo[y]) /\ Passed(AllUpdated[y], block) = 0
           /\ AllUpdated[y].added = poolInfo[y].added
           /\ AllUpdated[y].allocPoint = poolInfo[y].allocPoint
  BY <1>1, AllUpdatedFacts
<1>3. /\ block \in Nat /\ stargatePerBlock \in Nat /\ PRECISION \in Nat /\ startBlock \in Nat
      /\ totalAllocPoint = Total(PointsOf(AllUpdated))
  BY <1>2, StakingAssumption DEF Budget, Covered
<1>4. /\ last \in Nat /\ startBlock <= last /\ block <= last
  BY <1>3
<1>5. AllUpdated[t] = NoPool /\ userInfo[t] \in UserInfo
      /\ \A u \in Staker : userInfo[t][u].amount = 0 /\ userInfo[t][u].rewardDebt = 0
  BY <1>1, <1>2 DEF SoundPool
<1> HIDE DEF last
<1>6. /\ nw \in PoolInfo /\ nw.added /\ nw.lastRewardBlock = last
      /\ nw.accPerShare = AllUpdated[t].accPerShare /\ nw.allocPoint = points
      /\ nw.accPerShare = 0
  BY <1>4, <1>5 DEF PoolInfo, NoPool
<1> HIDE DEF nw
<1>7. new[t] = nw /\ new \in [LPToken -> PoolInfo]
      /\ \A y \in LPToken \ {t} : new[y] = AllUpdated[y]
  BY <1>2, <1>6
<1>8. SoundPool(nw, userInfo[t]) /\ Passed(nw, block) = 0
  <2>1. PRECISION * 0 = 0 /\ 0 * 0 = 0
    BY <1>3
  <2>2. \A u \in Staker :
          PRECISION * userInfo[t][u].rewardDebt <= userInfo[t][u].amount * nw.accPerShare
    BY <1>5, <1>6, <2>1
  <2>3. Passed(nw, block) = 0
    BY <1>3, <1>4, <1>6 DEF Passed
  <2> QED BY <1>4, <1>5, <1>6, <2>2, <2>3 DEF SoundPool
<1> HIDE DEF new
<1>9. Reallocated(AllUpdated, userInfo, block, new)
  <2>1. ASSUME NEW y \in LPToken
        PROVE  /\ SoundPool(new[y], userInfo[y]) /\ Passed(new[y], block) = 0
               /\ new[y].accPerShare = AllUpdated[y].accPerShare
    <3>1. CASE y = t
      BY <1>2, <1>6, <1>7, <1>8, <3>1
    <3>2. CASE y # t
      BY <1>2, <1>6, <1>7, <1>8, <3>2
    <3> QED BY <3>1, <3>2
  <2> QED BY <1>7, <2>1 DEF Reallocated
<1>10. B = Total(PointsOf(new))
  <2> DEFINE a == PointsOf(AllUpdated)
             b == PointsOf(new)
  <2>1. a \in [LPToken -> Nat] /\ b \in [LPToken -> Nat] /\ Total(a) \in Nat /\ Total(b) \in Nat
    <3>1. \A y \in LPToken : SoundPool(new[y], userInfo[y])
      BY <1>9 DEF Reallocated
    <3> QED BY <1>2, <1>3, <3>1, SumTypes
  <2>2. a[t] = 0 /\ b[t] = points /\ \A y \in LPToken \ {t} : b[y] = a[y]
    BY <1>5, <1>6, <1>7 DEF PointsOf, NoPool
  <2>4. IsFiniteSet(LPToken)
    BY StakingAssumption
  <2> HIDE DEF a, b
  <2>5. OneDiffers(a, b, LPToken, t)
    BY <2>1, <2>2, <2>4 DEF OneDiffers
  <2>6. Total(b) + a[t] = Total(a) + b[t]
    BY <2>5, TotalOfChanged
  <2>7. totalAllocPoint = Total(a)
    BY <1>3 DEF a
  <2>8. totalAllocPoint + points = Total(b)
    BY <2>1, <2>2, <2>6, <2>7
  <2> QED BY <2>8 DEF b
<1> HIDE DEF B, x
<1>11. Budget(new, userInfo, B, stargatePerBlock, block, paid, x)
  BY <1>2, <1>3, <1>9, <1>10, ReallocateKeeps
<1> QED BY <1>1, <1>11 DEF StakingInv, Held, x

\* The owner sets the rewards per block.
LEMMA RateKeeps ==
  ASSUME StakingInv, NEW rate \in Nat, SetStargatePerBlock(rate)
  PROVE  StakingInv'
<1> DEFINE x == emitted + restakes
<1>1. /\ \A y \in LPToken : CanUpdate(y)
      /\ poolInfo' = AllUpdated /\ stargatePerBlock' = rate
      /\ UNCHANGED <<block, totalAllocPoint, userInfo, lpHeld, paid, restakes, emitted>>
  BY DEF SetStargatePerBlock, MassUpdatePools, stakes
<1>2. /\ Budget(AllUpdated, userInfo, totalAllocPoint, stargatePerBlock, block, paid, x)
      /\ AllUpdated \in [LPToken -> PoolInfo]
      /\ \A y \in LPToken :
           SoundPool(AllUpdated[y], userInfo[y]) /\ Passed(AllUpdated[y], block) = 0
  BY <1>1, AllUpdatedFacts
<1>3. Reallocated(AllUpdated, userInfo, block, AllUpdated)
  BY <1>2 DEF Reallocated
<1>4. totalAllocPoint = Total(PointsOf(AllUpdated))
  BY <1>2 DEF Budget
<1> HIDE DEF x
<1>5. Budget(AllUpdated, userInfo, totalAllocPoint, rate, block, paid, x)
  BY <1>2, <1>3, <1>4, ReallocateKeeps
<1> QED BY <1>1, <1>5 DEF StakingInv, Held, x

\* One pool updated.
LEMMA OneUpdated ==
  ASSUME StakingInv, NEW t \in LPToken, UpdatePool(t)
  PROVE  /\ Budget(poolInfo', userInfo, totalAllocPoint, stargatePerBlock, block, paid,
                   emitted + restakes)
         /\ poolInfo'[t] = Updated(t) /\ poolInfo'[t].added
<1>1. /\ poolInfo[t].added /\ CanUpdate(t) /\ poolInfo' = [poolInfo EXCEPT ![t] = Updated(t)]
  BY DEF UpdatePool
<1>2. poolInfo \in [LPToken -> PoolInfo]
  BY DEF StakingInv, Budget
<1>3. poolInfo' = UpdatedPools({t})
  BY <1>1, <1>2 DEF UpdatedPools
<1>4. {t} \in SUBSET LPToken /\ \A y \in {t} : CanUpdate(y)
  BY <1>1
<1>5. Budget(poolInfo', userInfo, totalAllocPoint, stargatePerBlock, block, paid,
             emitted + restakes)
  <2> DEFINE pools == poolInfo'
  <2>1. pools = UpdatedPools({t})
    BY <1>3
  <2> HIDE DEF pools
  <2>2. Budget(pools, userInfo, totalAllocPoint, stargatePerBlock, block, paid,
               emitted + restakes)
    BY <1>4, <2>1, UpdatesKeep
  <2> QED BY <2>2 DEF pools
<1>6. Updated(t).added
  BY <1>1, UpdatedPool
<1> QED BY <1>1, <1>2, <1>5, <1>6

\* A user who is paid and whose stake changes by more, or less.
Restaked(t, u, n, more, pay) ==
  /\ UpdatePool(t) /\ n \in Nat /\ more \in Int /\ n = userInfo[t][u].amount + more
  /\ pay = Pending(t, u) /\ paid' = paid + pay
  /\ Restake(t, u, n)
  /\ lpHeld' = [lpHeld EXCEPT ![t] = @ + more]
  /\ UNCHANGED <<block, totalAllocPoint, stargatePerBlock, emitted>>

\* The contract stays as covered as before.
LEMMA RestakedKeeps ==
  ASSUME StakingInv, NEW t \in LPToken, NEW u \in Staker, NEW n, NEW more, NEW pay,
         Restaked(t, u, n, more, pay)
  PROVE  StakingInv'
<1> DEFINE pools == poolInfo'
           x == emitted + restakes
           new == [amount |-> n, rewardDebt |-> Accrued(Updated(t), n)]
           after == userInfo'
<1>1. /\ Budget(pools, userInfo, totalAllocPoint, stargatePerBlock, block, paid, x)
      /\ pools[t] = Updated(t) /\ pools[t].added
  BY OneUpdated DEF Restaked
<1>2. /\ n \in Nat /\ more \in Int /\ n = userInfo[t][u].amount + more
      /\ after = [userInfo EXCEPT ![t][u] = new]
      /\ restakes' = restakes + 1 /\ paid' = paid + pay
      /\ lpHeld' = [lpHeld EXCEPT ![t] = @ + more]
      /\ UNCHANGED <<block, totalAllocPoint, stargatePerBlock, emitted>>
      /\ pay = Accrued(Updated(t), userInfo[t][u].amount) - userInfo[t][u].rewardDebt
  BY DEF Restaked, Restake, Pending
<1>3. /\ Staked(pools, t, n, new) /\ WithStake(userInfo, t, u, new, after)
      /\ pay = Accrued(pools[t], userInfo[t][u].amount) - userInfo[t][u].rewardDebt
      /\ new.amount = n
  BY <1>1, <1>2 DEF Staked, WithStake
<1> HIDE DEF new, after, x, pools
<1>4. /\ NewStake(pools, userInfo, t, u, new, after)
      /\ Budget(pools, after, totalAllocPoint, stargatePerBlock, block, paid + pay, x + 1)
  BY <1>1, <1>2, <1>3, RestakeKeeps
<1>5. Held(userInfo, lpHeld) /\ emitted \in Nat /\ restakes \in Nat
  BY DEF StakingInv
<1>6. Held(after, lpHeld')
  <2> DEFINE now == lpHeld'
  <2>1. now = [lpHeld EXCEPT ![t] = @ + more] /\ new.amount = userInfo[t][u].amount + more
    BY <1>2, <1>3
  <2> HIDE DEF now
  <2>2. Held(after, now)
    BY <1>2, <1>4, <1>5, <2>1, HeldKeeps
  <2> QED BY <2>2 DEF now
<1>7. x + 1 = emitted' + restakes' /\ {emitted', restakes'} \subseteq Nat
  BY <1>2, <1>5 DEF x
<1> QED BY <1>2, <1>4, <1>6, <1>7 DEF StakingInv, pools, after

\* A deposit.
LEMMA StakeKeeps ==
  ASSUME StakingInv, NEW t \in LPToken, NEW u \in Staker, NEW amount \in Nat,
         Deposit(t, u, amount)
  PROVE  StakingInv'
<1> DEFINE i == userInfo[t][u]
           pay == IF i.amount > 0 THEN Pending(t, u) ELSE 0
<1>1. /\ i.amount \in Nat /\ i.rewardDebt \in Nat /\ PRECISION \in Nat /\ PRECISION > 0
      /\ PRECISION * i.rewardDebt <= i.amount * poolInfo[t].accPerShare
      /\ poolInfo[t].accPerShare \in Nat
  BY StakingAssumption DEF StakingInv, Budget, SoundPool, UserInfo, PoolInfo
<1>2. pay = Pending(t, u)
  <2>1. CASE i.amount > 0
    BY <2>1
  <2>2. CASE i.amount = 0
    <3>1. i.rewardDebt = 0
      <4> DEFINE f == i.rewardDebt
                 k == PRECISION - 1
      <4>1. PRECISION * f <= 0 /\ f \in Nat /\ k \in Nat
        BY <1>1, <2>2
      <4>2. PRECISION * f = k * f + f
        BY <1>1, <4>1
      <4> HIDE DEF f, k
      <4>3. k * f \in Nat
        BY <4>1
      <4>4. f = 0
        BY <4>1, <4>2, <4>3
      <4> QED BY <4>4 DEF f
    <3>2. Updated(t).accPerShare \in Nat
      <4>1. poolInfo'[t] = Updated(t) /\ poolInfo' \in [LPToken -> PoolInfo]
        BY OneUpdated DEF Deposit, Budget
      <4> QED BY <4>1 DEF PoolInfo
    <3>3. Accrued(Updated(t), 0) = 0
      <4>1. 0 * Updated(t).accPerShare = 0
        BY <3>2
      <4> QED BY <1>1, <4>1 DEF Accrued
    <3> QED BY <2>2, <3>1, <3>3 DEF Pending
  <2> QED BY <1>1, <2>1, <2>2
<1>3. Restaked(t, u, i.amount + amount, amount, pay)
  BY <1>1, <1>2 DEF Deposit, Restaked
<1> QED BY <1>3, RestakedKeeps

\* A withdrawal.
LEMMA UnstakeKeeps ==
  ASSUME StakingInv, NEW t \in LPToken, NEW u \in Staker, NEW amount \in Nat,
         Withdraw(t, u, amount)
  PROVE  StakingInv'
<1>1. userInfo[t][u].amount \in Nat /\ amount <= userInfo[t][u].amount
  BY DEF StakingInv, Budget, UserInfo, Withdraw
<1>2. lpHeld' = [lpHeld EXCEPT ![t] = @ + (0 - amount)]
  <2>1. lpHeld = [y \in LPToken |-> Total(Amounts(userInfo[y]))] /\ lpHeld[t] \in Nat
    <3>1. lpHeld = [y \in LPToken |-> Total(Amounts(userInfo[y]))]
      BY DEF StakingInv, Held
    <3>2. SoundPool(poolInfo[t], userInfo[t])
      BY DEF StakingInv, Budget
    <3> QED BY <3>1, <3>2, ClaimsTypes
  <2>2. lpHeld[t] - amount = lpHeld[t] + (0 - amount)
    BY <2>1
  <2>3. lpHeld' = [lpHeld EXCEPT ![t] = lpHeld[t] - amount]
    BY DEF Withdraw
  <2> QED BY <2>2, <2>3
<1>3. Restaked(t, u, userInfo[t][u].amount - amount, 0 - amount, Pending(t, u))
  <2>1. /\ userInfo[t][u].amount - amount \in Nat /\ 0 - amount \in Int
        /\ userInfo[t][u].amount - amount = userInfo[t][u].amount + (0 - amount)
    BY <1>1
  <2> QED BY <1>2, <2>1 DEF Withdraw, Restaked
<1> QED BY <1>3, RestakedKeeps

\* An exit without rewards.
LEMMA EmergencyKeeps ==
  ASSUME StakingInv, NEW t \in LPToken, NEW u \in Staker, EmergencyWithdraw(t, u)
  PROVE  StakingInv'
<1> DEFINE a == userInfo[t][u].amount
           new == [amount |-> 0, rewardDebt |-> 0]
           after == userInfo'
           x == emitted + restakes
<1>1. /\ Budget(poolInfo, userInfo, totalAllocPoint, stargatePerBlock, block, paid, x)
      /\ userInfo \in [LPToken -> UserInfo] /\ Held(userInfo, lpHeld)
  BY DEF StakingInv, Budget
<1>2. a \in Nat /\ userInfo[t][u] \in [amount: Nat, rewardDebt: Nat]
  BY <1>1 DEF UserInfo
<1>3. /\ after = [userInfo EXCEPT ![t][u] = NothingStaked(userInfo[t][u])]
      /\ lpHeld' = [lpHeld EXCEPT ![t] = lpHeld[t] - a]
      /\ UNCHANGED <<block, poolInfo, totalAllocPoint, stargatePerBlock, paid, emitted, restakes>>
  BY DEF EmergencyWithdraw
<1>4. NothingStaked(userInfo[t][u]) = new
  <2> DEFINE i == userInfo[t][u]
  <2>1. i \in [amount: Nat, rewardDebt: Nat]
    BY <1>2
  <2> HIDE DEF i
  <2>2. \A g, h \in [amount: Nat, rewardDebt: Nat] :
          g.amount = h.amount /\ g.rewardDebt = h.rewardDebt => g = h
    OBVIOUS
  <2>3. /\ [i EXCEPT !.amount = 0, !.rewardDebt = 0] \in [amount: Nat, rewardDebt: Nat]
        /\ [i EXCEPT !.amount = 0, !.rewardDebt = 0].amount = 0
        /\ [i EXCEPT !.amount = 0, !.rewardDebt = 0].rewardDebt = 0
        /\ new \in [amount: Nat, rewardDebt: Nat] /\ new.amount = 0 /\ new.rewardDebt = 0
    BY <2>1
  <2>4. [i EXCEPT !.amount = 0, !.rewardDebt = 0] = new
    BY <2>2, <2>3
  <2> QED BY <2>4 DEF NothingStaked, i
<1>5. Left(new) /\ WithStake(userInfo, t, u, new, after) /\ new.amount = a + (0 - a)
  BY <1>2, <1>3, <1>4 DEF Left, WithStake
<1> HIDE DEF new, after, x
<1>6. /\ NewStake(poolInfo, userInfo, t, u, new, after)
      /\ Budget(poolInfo, after, totalAllocPoint, stargatePerBlock, block, paid, x)
  BY <1>1, <1>5, LeaveKeeps
<1>7. Held(after, lpHeld')
  <2>1. lpHeld = [y \in LPToken |-> Total(Amounts(userInfo[y]))] /\ lpHeld[t] \in Nat
    <3>1. lpHeld = [y \in LPToken |-> Total(Amounts(userInfo[y]))]
      BY <1>1 DEF Held
    <3>2. SoundPool(poolInfo[t], userInfo[t])
      BY <1>1 DEF Budget
    <3> QED BY <3>1, <3>2, ClaimsTypes
  <2> DEFINE now == lpHeld'
             more == 0 - a
  <2>2. lpHeld[t] - a = lpHeld[t] + more /\ more \in Int
    BY <1>2, <2>1
  <2>3. now = [lpHeld EXCEPT ![t] = @ + more]
    BY <1>3, <2>2
  <2>4. new.amount = userInfo[t][u].amount + more
    BY <1>5
  <2> HIDE DEF now, more
  <2>5. Held(after, now)
    BY <1>1, <1>6, <2>2, <2>3, <2>4, HeldKeeps
  <2> QED BY <2>5 DEF now
<1> QED BY <1>3, <1>6, <1>7 DEF StakingInv, x, after

\* A new block.
LEMMA NextBlockKeeps ==
  ASSUME StakingInv, NextBlock
  PROVE  StakingInv'
<1> DEFINE y == IF block + 1 > startBlock THEN stargatePerBlock ELSE 0
           x == emitted + restakes
<1>1. /\ block' = block + 1 /\ emitted' = emitted + y
      /\ UNCHANGED <<poolInfo, totalAllocPoint, stargatePerBlock, userInfo, lpHeld, paid, restakes>>
  BY DEF NextBlock, stakes
<1>2. Budget(poolInfo, userInfo, totalAllocPoint, stargatePerBlock, block, paid, x)
      /\ emitted \in Nat /\ restakes \in Nat
  BY DEF StakingInv
<1>3. y = IF block + 1 > startBlock THEN stargatePerBlock ELSE 0
  OBVIOUS
<1>4. y \in Nat /\ Budget(poolInfo, userInfo, totalAllocPoint, stargatePerBlock, block + 1, paid, x + y)
  <2> HIDE DEF y, x
  <2> QED BY <1>2, <1>3, BlockKeeps
<1>5. x + y = emitted' + restakes' /\ emitted' \in Nat /\ restakes' \in Nat
  <2> HIDE DEF y
  <2> QED BY <1>1, <1>2, <1>4
<1> HIDE DEF x, y
<1> QED BY <1>1, <1>2, <1>4, <1>5 DEF StakingInv, Held

\* The invariant of the staking contract.
LEMMA StakingInvariant == StakingSpec => []StakingInv
<1>1. StakingInit => StakingInv
  <2> SUFFICES ASSUME StakingInit PROVE StakingInv
    OBVIOUS
  <2>0. /\ PRECISION \in Nat /\ startBlock \in Nat /\ stargatePerBlock \in Nat
        /\ PRECISION * 0 = 0 /\ 0 * 0 = 0 /\ PRECISION * (0 + 0) = 0
        /\ PRECISION * (stargatePerBlock * 0) = 0 /\ 0 * (PRECISION * 0) = 0
        /\ 0 * (PRECISION * 0 + 0) = 0
    BY StakingAssumption DEF StakingInit
  <2>1. /\ block = 0 /\ paid = 0 /\ emitted = 0 /\ restakes = 0 /\ totalAllocPoint = 0
        /\ poolInfo \in [LPToken -> PoolInfo] /\ userInfo \in [LPToken -> UserInfo]
    BY DEF StakingInit, NoPool, PoolInfo, UserInfo
  <2>2. ASSUME NEW t \in LPToken
        PROVE  /\ poolInfo[t] = NoPool /\ ~poolInfo[t].added /\ poolInfo[t].allocPoint = 0
               /\ poolInfo[t].accPerShare = 0 /\ poolInfo[t].lastRewardBlock = 0
               /\ \A u \in Staker : userInfo[t][u].amount = 0 /\ userInfo[t][u].rewardDebt = 0
               /\ SoundPool(poolInfo[t], userInfo[t])
    <3>1. /\ poolInfo[t] = NoPool /\ ~poolInfo[t].added /\ poolInfo[t].allocPoint = 0
          /\ poolInfo[t].accPerShare = 0 /\ poolInfo[t].lastRewardBlock = 0
      BY DEF StakingInit, NoPool
    <3>2. \A u \in Staker : userInfo[t][u].amount = 0 /\ userInfo[t][u].rewardDebt = 0
      BY DEF StakingInit
    <3>3. poolInfo[t] \in PoolInfo /\ userInfo[t] \in UserInfo
      BY <2>1
    <3> QED BY <2>0, <3>1, <3>2, <3>3 DEF SoundPool
  <2>3. ASSUME NEW t \in LPToken
        PROVE  /\ Total(Amounts(userInfo[t])) = 0
               /\ Total(Claims(poolInfo[t], userInfo[t])) = 0
    <3>1. /\ Amounts(userInfo[t]) \in [Staker -> Nat]
          /\ Claims(poolInfo[t], userInfo[t]) \in [Staker -> Nat]
      BY <2>2, ClaimsTypes
    <3>2. \A u \in Staker : Amounts(userInfo[t])[u] = 0 /\ Claims(poolInfo[t], userInfo[t])[u] = 0
      BY <2>0, <2>2 DEF Amounts, Claims
    <3> QED BY <3>1, <3>2, TotalZero
  <2>4. /\ ClaimsOf(poolInfo, userInfo) \in [LPToken -> Nat]
        /\ Open(poolInfo, 0) \in [LPToken -> Nat] /\ PointsOf(poolInfo) \in [LPToken -> Nat]
    BY <2>2, SumTypes
  <2>5. \A t \in LPToken : /\ ClaimsOf(poolInfo, userInfo)[t] = 0
                           /\ Open(poolInfo, 0)[t] = 0 /\ PointsOf(poolInfo)[t] = 0
    BY <2>2, <2>3 DEF ClaimsOf, Open, Passed, PointsOf
  <2>6. /\ Total(ClaimsOf(poolInfo, userInfo)) = 0 /\ Total(Open(poolInfo, 0)) = 0
        /\ Total(PointsOf(poolInfo)) = 0
    BY <2>4, <2>5, TotalZero
  <2>7. Covered(0, 0, 0, stargatePerBlock, 0, 0)
    BY <2>0 DEF Covered
  <2>8. Budget(poolInfo, userInfo, totalAllocPoint, stargatePerBlock, block, paid, 0)
    BY <2>1, <2>2, <2>6, <2>7 DEF Budget
  <2>9. Held(userInfo, lpHeld)
    BY <2>3 DEF StakingInit, Held
  <2> QED BY <2>1, <2>8, <2>9 DEF StakingInv
<1>2. StakingInv /\ [StakingNext]_stakingVars => StakingInv'
  <2> SUFFICES ASSUME StakingInv, [StakingNext]_stakingVars PROVE StakingInv'
    OBVIOUS
  <2>1. Points \subseteq Nat /\ Rates \subseteq Nat /\ StakeAmounts \subseteq Nat
    BY StakingAssumption
  <2>2. CASE \E t \in LPToken, points \in Points : Add(t, points) \/ Set(t, points)
    <3>1. PICK t \in LPToken, points \in Points : Add(t, points) \/ Set(t, points)
      BY <2>2
    <3> QED BY <2>1, <3>1, AddKeeps, SetKeeps
  <2>3. ASSUME NEW t \in LPToken, NEW u \in Staker, NEW amount \in StakeAmounts,
               Deposit(t, u, amount)
        PROVE  StakingInv'
    <3>1. amount \in Nat
      BY <2>1
    <3> QED BY <2>3, <3>1, StakeKeeps
  <2>9. ASSUME NEW t \in LPToken, NEW u \in Staker, NEW amount \in StakeAmounts,
               Withdraw(t, u, amount)
        PROVE  StakingInv'
    <3>1. amount \in Nat
      BY <2>1
    <3> QED BY <2>9, <3>1, UnstakeKeeps
  <2>4. CASE \E t \in LPToken, u \in Staker : EmergencyWithdraw(t, u)
    BY <2>4, EmergencyKeeps
  <2>5. ASSUME NEW t \in LPToken, UpdateOnly(t) PROVE StakingInv'
    <3>1. UpdatePool(t) /\ UNCHANGED <<block, totalAllocPoint, stargatePerBlock, userInfo, lpHeld,
                                       paid, emitted, restakes>>
      BY <2>5 DEF UpdateOnly, stakes
    <3>2. Budget(poolInfo', userInfo, totalAllocPoint, stargatePerBlock, block, paid,
                 emitted + restakes)
      BY <3>1, OneUpdated
    <3> QED BY <3>1, <3>2 DEF StakingInv, Held
  <2>6. CASE \E rate \in Rates : SetStargatePerBlock(rate)
    BY <2>1, <2>6, RateKeeps
  <2>7. CASE NextBlock
    BY <2>7, NextBlockKeeps
  <2>8. CASE UNCHANGED stakingVars
    BY <2>8 DEF stakingVars, stakes, StakingInv, Held
  <2> QED BY <2>2, <2>3, <2>4, <2>5, <2>6, <2>7, <2>8, <2>9 DEF StakingNext
<1> QED BY <1>1, <1>2, PTL DEF StakingSpec

\* What is due to a user of a pool that can be updated is not negative, and is
\* part of the claims of the updated pool.
LEMMA PendingFacts ==
  ASSUME StakingInv, NEW t \in LPToken, NEW u \in Staker, CanUpdate(t)
  PROVE  /\ Pending(t, u) \in Nat
         /\ PRECISION * Pending(t, u) <= Claims(Updated(t), userInfo[t])[u]
<1> DEFINE pi == Updated(t)
           i == userInfo[t][u]
<1>1. SoundPool(pi, userInfo[t])
  BY UpdatedPool
<1>2. /\ pi \in PoolInfo /\ i.amount \in Nat /\ i.rewardDebt \in Nat
      /\ PRECISION * i.rewardDebt <= i.amount * pi.accPerShare
  BY <1>1 DEF SoundPool, UserInfo
<1>3. Pending(t, u) = Accrued(pi, i.amount) - i.rewardDebt
      /\ Claims(pi, userInfo[t])[u] = i.amount * pi.accPerShare - PRECISION * i.rewardDebt
  BY DEF Pending, Claims
<1> HIDE DEF pi, i
<1>4. /\ Accrued(pi, i.amount) - i.rewardDebt \in Nat
      /\ PRECISION * (Accrued(pi, i.amount) - i.rewardDebt)
           <= i.amount * pi.accPerShare - PRECISION * i.rewardDebt
  BY <1>2, PendingCovered
<1> QED BY <1>3, <1>4 DEF pi

\* For any pools, stakers, points, rates and amounts, in any order of calls, no
\* user's debt is above what the stake has accrued, so that every withdrawal of a
\* pool that can be updated gets through the subtraction of the debt.
THEOREM StakersLeave == StakingSpec => []NobodyLockedIn
<1>1. StakingInv => NobodyLockedIn
  BY PendingFacts DEF NobodyLockedIn
<1> QED BY <1>1, StakingInvariant, PTL

\* For any pools, stakers, points, rates and amounts, in any order of calls, what
\* was due to users and what is due to them now is no more than the blocks
\* emitted, but for one unit for each change of a stake.
THEOREM RewardsAreEmitted == StakingSpec => []RewardsWithinEmission
<1>1. StakingInv => RewardsWithinEmission
  <2> SUFFICES ASSUME StakingInv, \A t \in LPToken : CanUpdate(t)
               PROVE  paid + Total([t \in LPToken |-> Total([u \in Staker |-> Pending(t, u)])])
                        <= emitted + restakes
    BY DEF RewardsWithinEmission
  <2> DEFINE due == [t \in LPToken |-> Total([u \in Staker |-> Pending(t, u)])]
             scaled == [t \in LPToken |-> PRECISION * due[t]]
             c == ClaimsOf(AllUpdated, userInfo)
             x == emitted + restakes
  <2>1. /\ IsFiniteSet(LPToken) /\ IsFiniteSet(Staker)
        /\ PRECISION \in Nat /\ PRECISION > 0
    BY StakingAssumption
  <2>2. /\ Budget(AllUpdated, userInfo, totalAllocPoint, stargatePerBlock, block, paid, x)
        /\ \A t \in LPToken : SoundPool(AllUpdated[t], userInfo[t])
    BY AllUpdatedFacts
  <2>3. PRECISION * paid + Total(c) <= PRECISION * x /\ paid \in Nat /\ x \in Nat
    BY <2>2 DEF Budget, Covered
  <2>4. ASSUME NEW t \in LPToken
        PROVE  due[t] \in Nat /\ PRECISION * due[t] <= c[t]
    <3> DEFINE f == [u \in Staker |-> Pending(t, u)]
               g == [u \in Staker |-> PRECISION * f[u]]
               h == Claims(Updated(t), userInfo[t])
    <3>1. AllUpdated[t] = Updated(t)
      BY DEF AllUpdated
    <3>2. h \in [Staker -> Nat]
      BY <2>2, <3>1, ClaimsTypes
    <3>3. \A u \in Staker : f[u] \in Nat /\ PRECISION * f[u] <= h[u]
      BY PendingFacts
    <3>4. f \in [Staker -> Nat]
      BY <3>3
    <3> HIDE DEF f, h
    <3>5. g \in [Staker -> Nat] /\ \A u \in Staker : g[u] = PRECISION * f[u] /\ g[u] <= h[u]
      BY <2>1, <3>3, <3>4
    <3> HIDE DEF g
    <3>6. Total(g) = PRECISION * Total(f) /\ Total(f) \in Nat
      BY <2>1, <3>4, <3>5, TotalScale, TotalType
    <3>7. Total(g) <= Total(h)
      BY <2>1, <3>2, <3>5, TotalMonotonic
    <3>8. due[t] = Total(f) /\ c[t] = Total(h)
      BY <3>1 DEF f, h, ClaimsOf
    <3> QED BY <3>6, <3>7, <3>8
  <2>5. c \in [LPToken -> Nat] /\ Total(c) \in Nat
    <3>1. 0 \in Nat
      OBVIOUS
    <3> QED BY <2>2, <3>1, SumTypes
  <2>6. due \in [LPToken -> Nat]
    BY <2>4
  <2> HIDE DEF due, c
  <2>7. scaled \in [LPToken -> Nat]
        /\ \A t \in LPToken : scaled[t] = PRECISION * due[t] /\ scaled[t] <= c[t]
    BY <2>1, <2>4, <2>6
  <2> HIDE DEF scaled, x
  <2>8. Total(scaled) = PRECISION * Total(due) /\ Total(due) \in Nat
    <3>1. /\ IsFiniteSet(LPToken) /\ PRECISION \in Nat /\ scaled \in [LPToken -> Nat]
          /\ \A t \in LPToken : scaled[t] = PRECISION * due[t]
      BY <2>1, <2>7
    <3>2. Total(scaled) = PRECISION * Total(due)
      BY <2>6, <3>1, TotalScale
    <3> QED BY <2>6, <3>1, <3>2, TotalType
  <2>9. Total(scaled) <= Total(c)
    BY <2>1, <2>5, <2>7, TotalMonotonic
  <2>10. PRECISION * (paid + Total(due)) <= PRECISION * x
    <3>1. PRECISION * (paid + Total(due)) = PRECISION * paid + PRECISION * Total(due)
      BY <2>1, <2>3, <2>8
    <3>2. PRECISION * paid \in Nat /\ PRECISION * x \in Nat /\ PRECISION * Total(due) \in Nat
      BY <2>1, <2>3, <2>8
    <3> QED BY <2>3, <2>5, <2>8, <2>9, <3>1, <3>2
  <2>11. paid + Total(due) <= x
    BY <2>1, <2>3, <2>8, <2>10, FactorsOrder
  <2> QED BY <2>11 DEF due, x
<1> QED BY <1>1, StakingInvariant, PTL
-----------------------------------------------------------------------------
(* The fees of a swap. *)

\* A common factor cancels.
LEMMA FactorCancels ==
  ASSUME NEW d \in Nat, d > 0, NEW x \in Int, NEW y \in Int
  PROVE  /\ d * x < d * y => x < y
         /\ d * x <= d * y => x <= y
<1>1. ASSUME x >= y PROVE d * x >= d * y
  <2> DEFINE k == x - y
  <2>1. k \in Nat /\ x = y + k
    BY <1>1
  <2> HIDE DEF k
  <2>2. d * x = d * y + d * k /\ d * k >= 0 /\ d * y \in Int /\ d * k \in Int
    BY <2>1
  <2> QED BY ONLY <2>2
<1>2. ASSUME x > y PROVE d * x > d * y
  <2> DEFINE k == x - y
  <2>1. k \in Nat /\ k >= 1 /\ x = y + k
    BY <1>2
  <2> HIDE DEF k
  <2>2. d * x = d * y + d * k /\ d * k >= d /\ d * y \in Int /\ d * k \in Int /\ d \in Int /\ d > 0
    BY <2>1
  <2> QED BY ONLY <2>2
<1> QED BY <1>1, <1>2

\* Cutting an amount in two saves at most one unit of a rate.
LEMMA RateSplits ==
  ASSUME NEW a1 \in Nat, NEW a2 \in Nat, NEW fee \in Nat
  PROVE  /\ {Rate(a1, fee), Rate(a2, fee), Rate(a1 + a2, fee)} \subseteq Nat
         /\ Rate(a1 + a2, fee) <= Rate(a1, fee) + Rate(a2, fee) + 1
<1> DEFINE d == DENOMINATOR  n1 == a1 * fee  n2 == a2 * fee
           q1 == n1 \div d  q2 == n2 \div d  q == (n1 + n2) \div d
<1>1. d \in Nat /\ d > 0 /\ n1 \in Nat /\ n2 \in Nat /\ (a1 + a2) * fee = n1 + n2
  BY FeeAssumption
<1>2. Rate(a1, fee) = q1 /\ Rate(a2, fee) = q2 /\ Rate(a1 + a2, fee) = q
  BY <1>1 DEF Rate
<1> HIDE DEF d, n1, n2
<1>3. /\ q1 \in Nat /\ q2 \in Nat /\ q \in Nat
      /\ n1 < d * q1 + d /\ n2 < d * q2 + d /\ d * q <= n1 + n2
  BY <1>1, RoundsDown
<1> HIDE DEF q1, q2, q
<1>4. d * q < d * (q1 + q2 + 2)
  BY <1>1, <1>3
<1>5. q < q1 + q2 + 2
  BY <1>1, <1>3, <1>4, FactorCancels
<1> QED BY <1>2, <1>3, <1>5

\* Halved and divided, a number loses less than twice the divisor.
LEMMA HalvedDown ==
  ASSUME NEW x \in Nat, NEW d \in Nat, d > 0, NEW q, q = (x \div 2) \div d
  PROVE  q \in Nat /\ 2 * (d * q) <= x /\ x < 2 * (d * q) + 2 * d
<1> DEFINE h == x \div 2
<1>1. h \in Nat /\ 2 * h <= x /\ x < 2 * h + 2
  OBVIOUS
<1> HIDE DEF h
<1>2. q = h \div d
  BY DEF h
<1>3. q \in Nat /\ d * q <= h /\ h < d * q + d
  BY <1>1, <1>2, RoundsDown
<1>4. d * q \in Nat
  BY <1>3
<1> QED BY <1>1, <1>3, <1>4

\* The heights of a line at three points, rounded down: the one in the middle
\* is at most a unit off the line between the others.
LEMMA HeightsInLine ==
  ASSUME NEW w \in Nat, w > 0, NEW lambda \in Nat, NEW a \in Nat, NEW b \in Nat,
         NEW ks \in Nat, NEW km \in Nat, NEW ke \in Nat,
         km = ks + lambda * a, ke = km + lambda * b,
         NEW gs, gs = ks \div w, NEW gm, gm = km \div w, NEW ge, ge = ke \div w
  PROVE  /\ gs \in Nat /\ gm \in Nat /\ ge \in Nat
         /\ gs * b + ge * a <= gm * (a + b) + (a + b)
<1>1. /\ gs \in Nat /\ w * gs <= ks
      /\ gm \in Nat /\ km < w * gm + w
      /\ ge \in Nat /\ w * ge <= ke
  BY RoundsDown
<1>2. ks * b + ke * a = km * (a + b)
  <2>1. (lambda * a) * b = (lambda * b) * a
    OBVIOUS
  <2>2. ks * b = km * b - (lambda * a) * b
    OBVIOUS
  <2>3. ke * a = km * a + (lambda * b) * a
    OBVIOUS
  <2> QED BY <2>1, <2>2, <2>3
<1>3. (w * gs) * b <= ks * b /\ (w * ge) * a <= ke * a
  BY <1>1
<1>4. km * (a + b) <= (w * gm + w) * (a + b)
  BY <1>1
<1>5. /\ w * (gs * b + ge * a) = (w * gs) * b + (w * ge) * a
      /\ w * (gm * (a + b) + (a + b)) = (w * gm + w) * (a + b)
  BY <1>1
<1>6. w * (gs * b + ge * a) <= w * (gm * (a + b) + (a + b))
  <2> DEFINE l == w * (gs * b + ge * a)
             r == w * (gm * (a + b) + (a + b))
  <2>1. l \in Int /\ r \in Int /\ l <= ks * b + ke * a /\ km * (a + b) <= r
    BY <1>1, <1>3, <1>4, <1>5
  <2> HIDE DEF l, r
  <2> QED BY <1>2, <2>1
<1>7. gs * b + ge * a \in Int /\ gm * (a + b) + (a + b) \in Int
  BY <1>1
<1> QED BY <1>1, <1>6, <1>7, FactorCancels

\* The area of a trapezoid is a number.
LEMMA AreaNat ==
  ASSUME NEW lambda \in Nat, NEW yOffset \in Nat, NEW upper \in Nat, NEW lower \in Nat,
         lower < upper, NEW from \in Nat, NEW to \in Nat, from <= upper, to <= from
  PROVE  TrapezoidArea(lambda, yOffset, upper, lower, from, to) \in Nat
<1> DEFINE d == DENOMINATOR  w == upper - lower
           h(x) == ((upper - x) * lambda) \div w + yOffset
<1>1. d \in Nat /\ d > 0 /\ w \in Nat /\ w > 0
  BY FeeAssumption
<1>2. h(from) \in Nat /\ h(to) \in Nat
  <2>1. (upper - from) * lambda \in Nat /\ (upper - to) * lambda \in Nat
    <3>1. upper - from \in Nat /\ upper - to \in Nat
      OBVIOUS
    <3>2. \A n \in Nat : n * lambda \in Nat
      OBVIOUS
    <3> QED BY <3>1, <3>2
  <2> HIDE DEF w
  <2> QED BY <1>1, <2>1, RoundsDown
<1>3. TrapezoidArea(lambda, yOffset, upper, lower, from, to)
        = (((h(from) + h(to)) * (from - to)) \div 2) \div d
  BY DEF TrapezoidArea, Height
<1> HIDE DEF h, d
<1>4. (h(from) + h(to)) * (from - to) \in Nat
  BY <1>2
<1> QED BY <1>1, <1>3, <1>4, HalvedDown

\* Cutting a trapezoid in two saves at most two units of the area.
LEMMA AreaSplits ==
  ASSUME NEW lambda \in Nat, NEW yOffset \in Nat, NEW upper \in Nat, NEW lower \in Nat,
         lower < upper, NEW from \in Nat, NEW mid \in Nat, NEW to \in Nat,
         from <= upper, mid <= from, to <= mid, from - to <= 2 * DENOMINATOR
  PROVE  TrapezoidArea(lambda, yOffset, upper, lower, from, to)
           <= TrapezoidArea(lambda, yOffset, upper, lower, from, mid)
                + TrapezoidArea(lambda, yOffset, upper, lower, mid, to) + 2
<1> DEFINE d == DENOMINATOR  w == upper - lower  a == from - mid  b == mid - to
           ks == (upper - from) * lambda  km == (upper - mid) * lambda  ke == (upper - to) * lambda
           gs == ks \div w  gm == km \div w  ge == ke \div w
           hs == gs + yOffset  hm == gm + yOffset  he == ge + yOffset
           x == (hs + he) * (a + b)  x1 == (hs + hm) * a  x2 == (hm + he) * b
           q == (x \div 2) \div d  q1 == (x1 \div 2) \div d  q2 == (x2 \div 2) \div d
<1>1. /\ d \in Nat /\ d > 0 /\ w \in Nat /\ w > 0 /\ a \in Nat /\ b \in Nat
      /\ from - to = a + b /\ a + b <= 2 * d
  BY FeeAssumption
<1>2. ks \in Nat /\ km \in Nat /\ ke \in Nat /\ km = ks + lambda * a /\ ke = km + lambda * b
  <2> DEFINE us == upper - from
  <2>1. us \in Nat /\ upper - mid = us + a /\ upper - to = us + a + b /\ a \in Nat /\ b \in Nat
    BY <1>1
  <2> HIDE DEF us, a, b
  <2>2. /\ us * lambda \in Nat /\ (us + a) * lambda = us * lambda + lambda * a
        /\ (us + a + b) * lambda = (us + a) * lambda + lambda * b
        /\ lambda * a \in Nat /\ lambda * b \in Nat
    BY <2>1
  <2>3. ks = us * lambda /\ km = (us + a) * lambda /\ ke = (us + a + b) * lambda
    BY <2>1 DEF us
  <2> HIDE DEF ks, km, ke
  <2> QED BY <2>1, <2>2, <2>3
<1>3. /\ TrapezoidArea(lambda, yOffset, upper, lower, from, to) = q
      /\ TrapezoidArea(lambda, yOffset, upper, lower, from, mid) = q1
      /\ TrapezoidArea(lambda, yOffset, upper, lower, mid, to) = q2
  BY <1>1 DEF TrapezoidArea, Height
<1> HIDE DEF d, w, a, b, ks, km, ke
<1>4. /\ gs \in Nat /\ gm \in Nat /\ ge \in Nat
      /\ gs * b + ge * a <= gm * (a + b) + (a + b)
  BY <1>1, <1>2, HeightsInLine
<1> HIDE DEF gs, gm, ge
<1>5. x <= x1 + x2 + (a + b)
  <2>1. x = hs * a + hs * b + he * a + he * b
    BY <1>1, <1>4
  <2>2. x1 + x2 = hs * a + hm * a + hm * b + he * b
    BY <1>1, <1>4
  <2>3. hs * b + he * a = (gs * b + ge * a) + yOffset * (a + b)
    BY <1>1, <1>4
  <2>4. hm * a + hm * b = gm * (a + b) + yOffset * (a + b)
    BY <1>1, <1>4
  <2>5. /\ hs * a \in Int /\ hs * b \in Int /\ he * a \in Int /\ he * b \in Int /\ hm * a \in Int
        /\ hm * b \in Int /\ gs * b + ge * a \in Int /\ gm * (a + b) \in Int /\ yOffset * (a + b) \in Int
    BY <1>1, <1>4
  <2> HIDE DEF x, x1, x2, hs, hm, he
  <2> QED BY <1>1, <1>4, <2>1, <2>2, <2>3, <2>4, <2>5
<1>6. x \in Nat /\ x1 \in Nat /\ x2 \in Nat
  BY <1>1, <1>4
<1> HIDE DEF x, x1, x2
<1>7. /\ q \in Nat /\ 2 * (d * q) <= x
      /\ q1 \in Nat /\ x1 < 2 * (d * q1) + 2 * d
      /\ q2 \in Nat /\ x2 < 2 * (d * q2) + 2 * d
  BY <1>1, <1>6, HalvedDown
<1> HIDE DEF q, q1, q2
<1>8. d * (2 * q) < d * (2 * (q1 + q2 + 3))
  <2>1. /\ d * (2 * q) = 2 * (d * q)
        /\ d * (2 * (q1 + q2 + 3)) = 2 * (d * q1) + 2 * (d * q2) + 6 * d
        /\ d * q \in Int /\ d * q1 \in Int /\ d * q2 \in Int
    BY <1>1, <1>7
  <2> QED BY <1>1, <1>5, <1>6, <1>7, <2>1
<1>9. 2 * q < 2 * (q1 + q2 + 3)
  BY <1>1, <1>7, <1>8, FactorCancels
<1> QED BY <1>3, <1>7, <1>9

\* The area under the curve between two balances: nothing above the safe zone,
\* then the parts in the safe zone and below it.
CurveArea(from, to) ==
  IF to >= SafeZoneMax THEN 0
  ELSE IF to >= SafeZoneMin THEN SafeArea(from, to)
  ELSE IF from >= SafeZoneMin THEN SafeArea(from, SafeZoneMin) + DangerArea(SafeZoneMin, to)
  ELSE DangerArea(from, to)

\* The zones: the safe one has a width, unless no balance is below it.
LEMMA Zones ==
  ASSUME idealBalance \in Ideals
  PROVE  /\ SafeZoneMax \in Nat /\ SafeZoneMin \in Nat
         /\ SafeZoneMax > 0 => SafeZoneMin < SafeZoneMax
         /\ SafeZoneMin <= SafeZoneMax
<1>1. /\ idealBalance \in Nat /\ DELTA_1 \in Nat /\ DELTA_2 \in Nat /\ DELTA_2 < DELTA_1
      /\ DENOMINATOR \in Nat /\ DENOMINATOR > 0
  BY FeeAssumption
<1>2. SafeZoneMax \in Nat /\ SafeZoneMin \in Nat
  BY <1>1, RateSplits DEF SafeZoneMax, SafeZoneMin
<1>3. SafeZoneMax > 0 => SafeZoneMin < SafeZoneMax
  BY ZoneAssumption DEF SafeZoneMax, SafeZoneMin
<1>4. SafeZoneMax = 0 => SafeZoneMin = 0
  <2> DEFINE d == DENOMINATOR  n1 == idealBalance * DELTA_1  n2 == idealBalance * DELTA_2
             k == DELTA_1 - DELTA_2
  <2>1. k \in Nat /\ DELTA_1 = DELTA_2 + k
    BY <1>1
  <2>2. n1 \in Nat /\ n2 \in Nat /\ n2 <= n1
    <3>1. idealBalance * (DELTA_2 + k) = idealBalance * DELTA_2 + idealBalance * k
      BY <1>1, <2>1
    <3>2. idealBalance * DELTA_2 \in Nat /\ idealBalance * k \in Nat
      BY <1>1, <2>1
    <3> HIDE DEF k
    <3>3. n1 = n2 + idealBalance * k
      BY <2>1, <3>1
    <3> HIDE DEF n1
    <3> QED BY <3>2, <3>3
  <2>3. SafeZoneMax = n1 \div d /\ SafeZoneMin = n2 \div d
    BY DEF SafeZoneMax, SafeZoneMin, Rate
  <2> HIDE DEF n1, n2, d
  <2>4. d \in Nat /\ d > 0
    BY <1>1 DEF d
  <2>5. n1 < d * SafeZoneMax + d /\ d * SafeZoneMin <= n2
    BY <2>2, <2>3, <2>4, RoundsDown
  <2>6. ASSUME SafeZoneMax = 0, SafeZoneMin # 0 PROVE FALSE
    <3>1. d * SafeZoneMin < d * 1
      BY <1>2, <2>2, <2>4, <2>5, <2>6
    <3> QED BY <1>2, <2>4, <2>6, <3>1, FactorCancels
  <2> QED BY <2>6
<1> QED BY <1>2, <1>3, <1>4

\* The fee of a swap is an area under the curve and two rates: what the
\* protocol pays above the safe zone, it pays itself.
LEMMA FeeIsArea ==
  ASSUME idealBalance \in Ideals, NEW before \in Nat, NEW amount \in Nat, amount <= before
  PROVE  UserFee(before, amount) =
           CurveArea(before, before - amount) + Rate(amount, PROTOCOL_FEE) + Rate(amount, LP_FEE)
<1> DEFINE after == before - amount
<1>1. after \in Nat /\ SafeZoneMax \in Nat /\ SafeZoneMin \in Nat /\ SafeZoneMin <= SafeZoneMax
  BY Zones
<1>2. /\ Rate(amount, PROTOCOL_SUBSIDY) \in Nat /\ Rate(amount, PROTOCOL_FEE) \in Nat
      /\ Rate(amount, LP_FEE) \in Nat
  BY FeeAssumption, RateSplits
<1>3. CASE after >= SafeZoneMax
  <2>1. /\ EqFee(before, amount) = Rate(amount, PROTOCOL_SUBSIDY)
        /\ ProtocolSubsidy(before, amount) = Rate(amount, PROTOCOL_SUBSIDY)
        /\ CurveArea(before, after) = 0
    BY <1>1, <1>3 DEF EqFee, ProtocolSubsidy, CurveArea
  <2> HIDE DEF after
  <2> QED BY <1>2, <2>1 DEF UserFee, ProtocolFee, LpFee, after
<1>4. CASE after < SafeZoneMax
  <2>1. EqFee(before, amount) = CurveArea(before, after)
    BY <1>1, <1>4 DEF EqFee, CurveArea
  <2>2. ProtocolSubsidy(before, amount) = 0
    BY <1>1, <1>4 DEF ProtocolSubsidy
  <2> HIDE DEF after
  <2> QED BY <1>2, <2>1, <2>2 DEF UserFee, ProtocolFee, LpFee, after
<1> QED BY <1>1, <1>3, <1>4

\* The area under the curve is a number.
LEMMA CurveNat ==
  ASSUME idealBalance \in Ideals, NEW from \in Nat, NEW to \in Nat, to <= from
  PROVE  CurveArea(from, to) \in Nat
<1> DEFINE max == SafeZoneMax  min == SafeZoneMin
<1>1. max \in Nat /\ min \in Nat /\ (max > 0 => min < max) /\ min <= max
      /\ LAMBDA_1 \in Nat /\ LAMBDA_2 \in Nat /\ 0 \in Nat
  BY Zones, FeeAssumption
<1>2. ASSUME NEW b \in Nat, b <= from, b < max PROVE SafeArea(from, b) \in Nat
  <2> DEFINE proxy == IF from < max THEN from ELSE max
  <2>1. SafeArea(from, b) = TrapezoidArea(LAMBDA_1, 0, max, min, proxy, b)
    BY DEF SafeArea
  <2>2. proxy \in Nat /\ proxy <= max /\ b <= proxy
    BY <1>1, <1>2
  <2> HIDE DEF max, min, proxy
  <2> QED BY <1>1, <1>2, <2>1, <2>2, AreaNat
<1>3. ASSUME NEW a \in Nat, a <= min, to <= a, to < min PROVE DangerArea(a, to) \in Nat
  <2>1. DangerArea(a, to) = TrapezoidArea(LAMBDA_2, LAMBDA_1, min, 0, a, to)
    BY DEF DangerArea
  <2> HIDE DEF min
  <2>2. 0 < min /\ 0 <= to
    BY <1>1, <1>3
  <2> QED BY <1>1, <1>3, <2>1, <2>2, AreaNat
<1>4. CASE to >= max
  BY <1>4 DEF CurveArea
<1>5. CASE to < max /\ to >= min
  <2>1. CurveArea(from, to) = SafeArea(from, to)
    BY <1>1, <1>5 DEF CurveArea
  <2> HIDE DEF max, min
  <2> QED BY <1>2, <1>5, <2>1
<1>6. CASE to < max /\ to < min /\ from >= min
  <2>1. CurveArea(from, to) = SafeArea(from, min) + DangerArea(min, to)
    BY <1>1, <1>6 DEF CurveArea
  <2> HIDE DEF max, min
  <2>2. min < max
    BY <1>1, <1>6
  <2>3. SafeArea(from, min) \in Nat /\ DangerArea(min, to) \in Nat
    BY <1>1, <1>2, <1>3, <1>6, <2>2
  <2> QED BY <2>1, <2>3
<1>7. CASE to < max /\ to < min /\ from < min
  <2>1. CurveArea(from, to) = DangerArea(from, to)
    BY <1>1, <1>7 DEF CurveArea
  <2> HIDE DEF max, min
  <2> QED BY <1>1, <1>3, <1>7, <2>1
<1> HIDE DEF max, min
<1>8. \/ to >= max
      \/ to < max /\ to >= min
      \/ to < max /\ to < min /\ from >= min
      \/ to < max /\ to < min /\ from < min
  BY <1>1
<1> QED BY <1>4, <1>5, <1>6, <1>7, <1>8

\* Cutting a way down the curve in two saves at most two units of the area:
\* only the zone in which it is cut is rounded once more.
LEMMA CurveSplits ==
  ASSUME idealBalance \in Ideals, NEW from \in Nat, NEW mid \in Nat, NEW to \in Nat,
         mid <= from, to <= mid, from - to <= 2 * DENOMINATOR
  PROVE  CurveArea(from, to) <= CurveArea(from, mid) + CurveArea(mid, to) + 2
<1> DEFINE max == SafeZoneMax  min == SafeZoneMin
           proxy == IF from < max THEN from ELSE max
           S(a, b) == TrapezoidArea(LAMBDA_1, 0, max, min, a, b)
           D(a, b) == TrapezoidArea(LAMBDA_2, LAMBDA_1, min, 0, a, b)
<1>1. max \in Nat /\ min \in Nat /\ (max > 0 => min < max) /\ min <= max
  BY Zones
<1>2. \A b : SafeArea(from, b) = S(proxy, b)
  BY DEF SafeArea
<1>3. mid < max => \A b : SafeArea(mid, b) = S(mid, b)
  BY DEF SafeArea
<1>4. mid >= max => \A b : SafeArea(mid, b) = SafeArea(from, b)
  BY <1>1 DEF SafeArea
<1>5. \A a, b : DangerArea(a, b) = D(a, b)
  BY DEF DangerArea
<1>6. proxy \in Nat /\ proxy <= max /\ (mid < max => mid <= proxy) /\ proxy <= from
  BY <1>1
<1>7. LAMBDA_1 \in Nat /\ LAMBDA_2 \in Nat /\ 0 \in Nat /\ DENOMINATOR \in Nat
  BY FeeAssumption
<1>8. ASSUME mid < max, NEW b \in Nat, min <= b, b <= mid, to <= b
      PROVE  S(proxy, b) <= S(proxy, mid) + S(mid, b) + 2
  <2>1. min < max /\ proxy - b <= 2 * DENOMINATOR
    BY <1>1, <1>6, <1>7, <1>8
  <2> HIDE DEF proxy, max, min
  <2> QED BY <1>1, <1>6, <1>7, <1>8, <2>1, AreaSplits
<1>9. ASSUME to < min, NEW a \in Nat, a <= min, mid <= a, a <= from
      PROVE  D(a, to) <= D(a, mid) + D(mid, to) + 2
  <2>1. 0 < min /\ a - to <= 2 * DENOMINATOR
    BY <1>1, <1>7, <1>9
  <2> HIDE DEF min
  <2> QED BY <1>1, <1>7, <1>9, <2>1, AreaSplits
<1>10. /\ \A a \in Nat, b \in Nat : a <= max /\ b <= a /\ max > 0 => S(a, b) \in Nat
       /\ \A a \in Nat, b \in Nat : a <= min /\ b <= a /\ min > 0 => D(a, b) \in Nat
  <2> HIDE DEF max, min
  <2> QED BY <1>1, <1>7, AreaNat
<1> HIDE DEF S, D
<1>11. CASE mid >= max
  <2>1. CurveArea(from, mid) = 0
    BY <1>11 DEF CurveArea
  <2>2. CASE to >= max
    BY <2>1, <2>2 DEF CurveArea
  <2>3. CASE to < max /\ to >= min
    <3>1. /\ CurveArea(from, to) = SafeArea(from, to) /\ CurveArea(mid, to) = SafeArea(from, to)
          /\ SafeArea(from, to) = S(proxy, to)
      BY <1>1, <1>2, <1>4, <1>11, <2>3 DEF CurveArea
    <3>2. proxy = max
      BY <1>1, <1>11
    <3>3. S(proxy, to) \in Nat
      BY <1>1, <1>10, <2>3, <3>2
    <3> QED BY <2>1, <3>1, <3>3
  <2>4. CASE to < max /\ to < min
    <3>1. /\ CurveArea(from, to) = SafeArea(from, min) + DangerArea(min, to)
          /\ CurveArea(mid, to) = SafeArea(from, min) + DangerArea(min, to)
          /\ SafeArea(from, min) = S(proxy, min) /\ DangerArea(min, to) = D(min, to)
      BY <1>1, <1>2, <1>4, <1>5, <1>11, <2>4 DEF CurveArea
    <3>2. proxy = max
      BY <1>1, <1>11
    <3>3. S(proxy, min) \in Nat /\ D(min, to) \in Nat
      BY <1>1, <1>10, <2>4, <3>2
    <3> QED BY <2>1, <3>1, <3>3
  <2> QED BY <1>1, <2>2, <2>3, <2>4
<1>12. CASE mid < max /\ mid >= min
  <2>1. CurveArea(from, mid) = S(proxy, mid) /\ proxy \in Nat /\ proxy <= max /\ mid <= proxy
        /\ S(proxy, mid) \in Nat
    BY <1>1, <1>2, <1>6, <1>10, <1>12 DEF CurveArea
  <2> HIDE DEF proxy
  <2>2. CASE to >= min
    <3>1. CurveArea(from, to) = S(proxy, to) /\ CurveArea(mid, to) = S(mid, to)
      BY <1>1, <1>2, <1>3, <1>12, <2>2 DEF CurveArea
    <3>2. S(proxy, to) <= S(proxy, mid) + S(mid, to) + 2
      BY <1>8, <1>12, <2>2
    <3> QED BY <2>1, <3>1, <3>2
  <2>3. CASE to < min
    <3>1. /\ CurveArea(from, to) = S(proxy, min) + D(min, to)
          /\ CurveArea(mid, to) = S(mid, min) + D(min, to)
      BY <1>1, <1>2, <1>3, <1>5, <1>12, <2>3 DEF CurveArea
    <3>2. S(proxy, min) <= S(proxy, mid) + S(mid, min) + 2
      BY <1>1, <1>8, <1>12, <2>3
    <3>3. S(proxy, min) \in Nat /\ S(mid, min) \in Nat /\ D(min, to) \in Nat
      BY <1>1, <1>10, <1>12, <2>1, <2>3
    <3> QED BY <2>1, <3>1, <3>2, <3>3
  <2> QED BY <1>1, <2>2, <2>3
<1>13. CASE mid < min
  <2>1. CurveArea(mid, to) = D(mid, to) /\ to < min /\ to < max /\ mid < max
    BY <1>1, <1>5, <1>13 DEF CurveArea
  <2>2. CASE from >= min
    <3>1. /\ CurveArea(from, to) = S(proxy, min) + D(min, to)
          /\ CurveArea(from, mid) = S(proxy, min) + D(min, mid)
      BY <1>1, <1>2, <1>5, <1>13, <2>1, <2>2 DEF CurveArea
    <3>2. D(min, to) <= D(min, mid) + D(mid, to) + 2
      BY <1>1, <1>9, <1>13, <2>1, <2>2
    <3>3. min <= proxy
      BY <1>1, <2>2
    <3> HIDE DEF proxy
    <3>4. /\ S(proxy, min) \in Nat /\ D(min, to) \in Nat /\ D(min, mid) \in Nat
          /\ D(mid, to) \in Nat
      BY <1>1, <1>6, <1>10, <1>13, <2>1, <3>3
    <3> QED BY <2>1, <3>1, <3>2, <3>4
  <2>3. CASE from < min
    <3>1. CurveArea(from, to) = D(from, to) /\ CurveArea(from, mid) = D(from, mid)
      BY <1>1, <1>5, <1>13, <2>1, <2>3 DEF CurveArea
    <3>2. D(from, to) <= D(from, mid) + D(mid, to) + 2
      BY <1>1, <1>9, <1>13, <2>1, <2>3
    <3> QED BY <2>1, <3>1, <3>2
  <2> QED BY <1>1, <2>2, <2>3
<1> QED BY <1>1, <1>11, <1>12, <1>13

\* A product grows with its factors.
LEMMA ProductGrows ==
  ASSUME NEW x \in Nat, NEW y \in Nat, NEW n \in Nat, NEW k \in Nat, x <= y, n <= k
  PROVE  x * n \in Nat /\ y * k \in Nat /\ x * n <= y * k
<1>1. PICK i \in Nat, j \in Nat : y = x + i /\ k = n + j
  <2>1. y - x \in Nat /\ y = x + (y - x) /\ k - n \in Nat /\ k = n + (k - n)
    OBVIOUS
  <2> QED BY <2>1
<1>2. (x + i) * (n + j) = x * n + x * j + i * n + i * j
  BY <1>1
<1>3. x * n \in Nat /\ x * j \in Nat /\ i * n \in Nat /\ i * j \in Nat
  BY <1>1
<1> QED BY <1>1, <1>2, <1>3

\* The height of the curve at the two ends of a zone of width w.
LEMMA HeightEnds ==
  ASSUME NEW lambda \in Nat, NEW yOffset \in Nat, NEW w \in Nat, w > 0
  PROVE  Height(lambda, yOffset, w, 0) = yOffset /\ Height(lambda, yOffset, w, w) = lambda + yOffset
<1>1. (0 * lambda) \div w = 0
  OBVIOUS
<1> DEFINE kw == w * lambda  q == kw \div w
<1>2. kw \in Nat
  BY ProductGrows
<1>3. kw = w * lambda
  OBVIOUS
<1> HIDE DEF kw
<1>4. q \in Nat /\ w * q <= kw /\ kw < w * q + w
  BY <1>2, RoundsDown
<1>5. q = kw \div w
  OBVIOUS
<1> HIDE DEF q
<1>6. w * (q + 1) = w * q + w /\ w * q \in Int
  BY <1>4
<1>7. w * q <= w * lambda /\ w * lambda < w * (q + 1)
  BY <1>3, <1>4, <1>6
<1>8. q <= lambda /\ lambda < q + 1
  BY <1>4, <1>7, FactorCancels
<1>9. q = lambda
  BY <1>4, <1>8
<1> QED BY <1>1, <1>3, <1>5, <1>9 DEF Height

\* The height of the curve: it rises from one end of its zone to the other.
LEMMA HeightRises ==
  ASSUME NEW lambda \in Nat, NEW yOffset \in Nat, NEW upper \in Nat, NEW lower \in Nat,
         lower < upper, NEW high \in lower..upper, NEW low \in lower..upper, low <= high
  PROVE  /\ Height(lambda, yOffset, upper - lower, upper - high) \in Nat
         /\ Height(lambda, yOffset, upper - lower, upper - low) \in Nat
         /\ yOffset <= Height(lambda, yOffset, upper - lower, upper - high)
         /\ Height(lambda, yOffset, upper - lower, upper - high)
              <= Height(lambda, yOffset, upper - lower, upper - low)
         /\ Height(lambda, yOffset, upper - lower, upper - low) <= lambda + yOffset
<1> DEFINE w == upper - lower  a == upper - high  b == upper - low
           ka == a * lambda  kb == b * lambda  kw == w * lambda
           ga == ka \div w  gb == kb \div w
<1>1. w \in Nat /\ w > 0 /\ a \in Nat /\ b \in Nat /\ a <= b /\ b <= w
  OBVIOUS
<1>2. /\ Height(lambda, yOffset, upper - lower, upper - high) = ga + yOffset
      /\ Height(lambda, yOffset, upper - lower, upper - low) = gb + yOffset
  BY DEF Height
<1> HIDE DEF w, a, b
<1>3. ka \in Nat /\ kb \in Nat /\ kw \in Nat /\ ka <= kb /\ kb <= kw
  <2>1. PICK i \in Nat, j \in Nat : b = a + i /\ w = b + j
    BY <1>1
  <2>2. /\ (a + i) * lambda = a * lambda + i * lambda /\ (b + j) * lambda = b * lambda + j * lambda
        /\ a * lambda \in Nat /\ b * lambda \in Nat /\ i * lambda \in Nat /\ j * lambda \in Nat
    BY <1>1, <2>1
  <2> QED BY <2>1, <2>2
<1>4. kw = w * lambda
  OBVIOUS
<1> HIDE DEF ka, kb, kw
<1>5. /\ ga \in Nat /\ w * ga <= ka /\ ka < w * ga + w
      /\ gb \in Nat /\ w * gb <= kb /\ kb < w * gb + w
  BY <1>1, <1>3, RoundsDown
<1> HIDE DEF ga, gb
<1>6. ga <= gb
  <2>1. w * ga \in Int /\ w * gb \in Int /\ w * (gb + 1) = w * gb + w
    BY <1>1, <1>5
  <2>2. w * ga < w * (gb + 1)
    BY <1>1, <1>3, <1>5, <2>1
  <2>3. ga < gb + 1
    BY <1>1, <1>5, <2>2, FactorCancels
  <2> QED BY <1>5, <2>3
<1>7. gb <= lambda
  <2>1. w * gb \in Int /\ w * lambda \in Int
    BY <1>1, <1>5
  <2>2. w * gb <= w * lambda
    BY <1>3, <1>4, <1>5, <2>1
  <2> QED BY <1>1, <1>5, <2>2, FactorCancels
<1> QED BY <1>1, <1>2, <1>5, <1>6, <1>7

\* Twice a trapezoid, before it is divided.
Weight(lambda, yOffset, upper, lower, from, to) ==
  (Height(lambda, yOffset, upper - lower, upper - from)
     + Height(lambda, yOffset, upper - lower, upper - to)) * (from - to)

\* The area is half of it over the denominator, rounded down.
LEMMA AreaWeighs ==
  ASSUME NEW lambda \in Nat, NEW yOffset \in Nat, NEW upper \in Nat, NEW lower \in Nat,
         lower < upper, NEW from \in lower..upper, NEW to \in lower..upper, to <= from
  PROVE  LET d == DENOMINATOR
             w == Weight(lambda, yOffset, upper, lower, from, to)
             q == TrapezoidArea(lambda, yOffset, upper, lower, from, to)
         IN  w \in Nat /\ q \in Nat /\ 2 * (d * q) <= w /\ w < 2 * (d * q) + 2 * d
<1> DEFINE hf == Height(lambda, yOffset, upper - lower, upper - from)
           ht == Height(lambda, yOffset, upper - lower, upper - to)
           w == Weight(lambda, yOffset, upper, lower, from, to)
<1>1. hf \in Nat /\ ht \in Nat
  BY HeightRises
<1>2. /\ w = (hf + ht) * (from - to)
      /\ TrapezoidArea(lambda, yOffset, upper, lower, from, to) = (w \div 2) \div DENOMINATOR
  BY DEF TrapezoidArea, Weight
<1>3. from - to \in Nat /\ DENOMINATOR \in Nat /\ DENOMINATOR > 0
  BY FeeAssumption
<1> HIDE DEF w, hf, ht
<1>4. w \in Nat
  BY <1>1, <1>2, <1>3, ProductGrows
<1>5. \A q : q = (w \div 2) \div DENOMINATOR =>
        /\ q \in Nat /\ 2 * (DENOMINATOR * q) <= w
        /\ w < 2 * (DENOMINATOR * q) + 2 * DENOMINATOR
  BY <1>3, <1>4, HalvedDown
<1> QED BY <1>2, <1>4, <1>5 DEF w

\* What weighs at least as much is at least as large; two areas together lose
\* one unit more than one.
LEMMA Weighed ==
  ASSUME NEW q1 \in Nat, NEW q2 \in Nat, NEW w1 \in Nat, NEW w2 \in Nat,
         2 * (DENOMINATOR * q1) <= w1, w1 <= w2,
         w2 < 2 * (DENOMINATOR * q2) + 2 * DENOMINATOR
  PROVE  q1 <= q2
<1> DEFINE d == DENOMINATOR
<1>1. d \in Nat /\ d > 0
  BY FeeAssumption
<1> HIDE DEF d
<1>2. 2 * (d * q1) <= w1 /\ w2 < 2 * (d * q2) + 2 * d
  BY DEF d
<1>3. d * q1 \in Int /\ d * q2 \in Int /\ d * (q2 + 1) = d * q2 + d
  BY <1>1
<1>4. d * q1 < d * (q2 + 1)
  BY <1>1, <1>2, <1>3
<1> QED BY <1>1, <1>4, FactorCancels

\* Longer, and lower down the curve, an area is no smaller.
LEMMA AreaGrows ==
  ASSUME NEW lambda \in Nat, NEW yOffset \in Nat, NEW upper \in Nat, NEW lower \in Nat,
         lower < upper, NEW from \in lower..upper, NEW to \in lower..upper, to <= from,
         NEW from2 \in lower..upper, NEW to2 \in lower..upper, to2 <= from2,
         from2 <= from, to2 <= to, from - to <= from2 - to2
  PROVE  TrapezoidArea(lambda, yOffset, upper, lower, from, to)
           <= TrapezoidArea(lambda, yOffset, upper, lower, from2, to2)
<1> DEFINE h(x) == Height(lambda, yOffset, upper - lower, upper - x)
           w == Weight(lambda, yOffset, upper, lower, from, to)
           w2 == Weight(lambda, yOffset, upper, lower, from2, to2)
<1>1. h(from) \in Nat /\ h(from2) \in Nat /\ h(from) <= h(from2)
  BY HeightRises
<1>2. h(to) \in Nat /\ h(to2) \in Nat /\ h(to) <= h(to2)
  BY HeightRises
<1>3. w = (h(from) + h(to)) * (from - to) /\ w2 = (h(from2) + h(to2)) * (from2 - to2)
  BY DEF Weight
<1>4. from - to \in Nat /\ from2 - to2 \in Nat
  OBVIOUS
<1> HIDE DEF h
<1>5. /\ h(from) + h(to) \in Nat /\ h(from2) + h(to2) \in Nat
      /\ h(from) + h(to) <= h(from2) + h(to2)
  BY <1>1, <1>2
<1>6. w <= w2
  BY <1>3, <1>4, <1>5, ProductGrows
<1> HIDE DEF w, w2
<1>7. /\ w \in Nat /\ TrapezoidArea(lambda, yOffset, upper, lower, from, to) \in Nat
      /\ 2 * (DENOMINATOR * TrapezoidArea(lambda, yOffset, upper, lower, from, to)) <= w
  BY AreaWeighs DEF w
<1>8. /\ w2 \in Nat /\ TrapezoidArea(lambda, yOffset, upper, lower, from2, to2) \in Nat
      /\ w2 < 2 * (DENOMINATOR * TrapezoidArea(lambda, yOffset, upper, lower, from2, to2))
               + 2 * DENOMINATOR
  BY AreaWeighs DEF w2
<1> QED BY <1>6, <1>7, <1>8, Weighed

\* Two areas side by side, weighed against two others, lose one unit.
LEMMA TwoWeighed ==
  ASSUME NEW q1 \in Nat, NEW q2 \in Nat, NEW r1 \in Nat, NEW r2 \in Nat,
         NEW v1 \in Nat, NEW v2 \in Nat, NEW w1 \in Nat, NEW w2 \in Nat,
         2 * (DENOMINATOR * q1) <= v1, 2 * (DENOMINATOR * q2) <= v2, v1 + v2 <= w1 + w2,
         w1 < 2 * (DENOMINATOR * r1) + 2 * DENOMINATOR,
         w2 < 2 * (DENOMINATOR * r2) + 2 * DENOMINATOR
  PROVE  q1 + q2 <= r1 + r2 + 1
<1> DEFINE d == DENOMINATOR
<1>1. d \in Nat /\ d > 0
  BY FeeAssumption
<1> HIDE DEF d
<1>2. /\ 2 * (d * q1) <= v1 /\ 2 * (d * q2) <= v2
      /\ w1 < 2 * (d * r1) + 2 * d /\ w2 < 2 * (d * r2) + 2 * d
  BY DEF d
<1>3. /\ d * (q1 + q2) = d * q1 + d * q2 /\ d * (r1 + r2 + 2) = d * r1 + d * r2 + 2 * d
      /\ d * q1 \in Int /\ d * q2 \in Int /\ d * r1 \in Int /\ d * r2 \in Int
  BY <1>1
<1>4. d * (q1 + q2) < d * (r1 + r2 + 2)
  BY <1>1, <1>2, <1>3
<1>5. q1 + q2 < r1 + r2 + 2
  BY <1>1, <1>4, FactorCancels
<1> QED BY <1>5

\* A piece of the curve, and another of at least its length that starts and ends
\* no higher: its area is no smaller, but for rounding.
LEMMA CurveLower ==
  ASSUME idealBalance \in Ideals, NEW from \in Nat, NEW to \in Nat, to <= from,
         NEW from2 \in Nat, NEW to2 \in Nat, to2 <= from2,
         from2 <= from, to2 <= to, from - to <= from2 - to2
  PROVE  CurveArea(from, to) <= CurveArea(from2, to2) + 1
<1> DEFINE max == SafeZoneMax  min == SafeZoneMin
           p == IF from < max THEN from ELSE max
           p2 == IF from2 < max THEN from2 ELSE max
           S(a, b) == TrapezoidArea(LAMBDA_1, 0, max, min, a, b)
           D(a, b) == TrapezoidArea(LAMBDA_2, LAMBDA_1, min, 0, a, b)
           hS(a) == Height(LAMBDA_1, 0, max - min, max - a)
           hD(a) == Height(LAMBDA_2, LAMBDA_1, min - 0, min - a)
           wS(a, b) == (hS(a) + hS(b)) * (a - b)
           wD(a, b) == (hD(a) + hD(b)) * (a - b)
<1>1. max \in Nat /\ min \in Nat /\ (max > 0 => min < max) /\ min <= max
  BY Zones
<1>2. LAMBDA_1 \in Nat /\ LAMBDA_2 \in Nat /\ 0 \in Nat /\ DENOMINATOR \in Nat /\ DENOMINATOR > 0
  BY FeeAssumption
<1>3. /\ \A b : SafeArea(from, b) = S(p, b)
      /\ \A b : SafeArea(from2, b) = S(p2, b)
      /\ \A a, b : DangerArea(a, b) = D(a, b)
  BY DEF SafeArea, DangerArea
<1>4. ASSUME min < max
      PROVE  /\ hS(max) = 0 /\ hS(min) = LAMBDA_1
             /\ \A a, b \in min..max : b <= a =>
                  /\ hS(a) \in Nat /\ hS(b) \in Nat /\ hS(a) <= hS(b) /\ hS(b) <= LAMBDA_1
                  /\ wS(a, b) \in Nat /\ S(a, b) \in Nat
                  /\ 2 * (DENOMINATOR * S(a, b)) <= wS(a, b)
                  /\ wS(a, b) < 2 * (DENOMINATOR * S(a, b)) + 2 * DENOMINATOR
  <2> HIDE DEF max, min
  <2>1. hS(max) = 0 /\ hS(min) = LAMBDA_1
    <3> DEFINE w == max - min
    <3>1. w \in Nat /\ w > 0 /\ max - max = 0
      BY <1>1, <1>4
    <3> HIDE DEF w
    <3>2. Height(LAMBDA_1, 0, w, 0) = 0 /\ Height(LAMBDA_1, 0, w, w) = LAMBDA_1 + 0
      BY <1>2, <3>1, HeightEnds
    <3> QED BY <1>2, <3>1, <3>2 DEF w
  <2>2. ASSUME NEW a \in min..max, NEW b \in min..max, b <= a
        PROVE  /\ hS(a) \in Nat /\ hS(b) \in Nat /\ hS(a) <= hS(b) /\ hS(b) <= LAMBDA_1
               /\ wS(a, b) \in Nat /\ S(a, b) \in Nat
               /\ 2 * (DENOMINATOR * S(a, b)) <= wS(a, b)
               /\ wS(a, b) < 2 * (DENOMINATOR * S(a, b)) + 2 * DENOMINATOR
    <3>1. /\ hS(a) \in Nat /\ hS(b) \in Nat /\ hS(a) <= hS(b) /\ hS(b) <= LAMBDA_1 + 0
      BY <1>1, <1>2, <1>4, <2>2, HeightRises
    <3>2. wS(a, b) = Weight(LAMBDA_1, 0, max, min, a, b)
      BY DEF Weight
    <3>3. LET w == Weight(LAMBDA_1, 0, max, min, a, b)  q == S(a, b)
          IN  /\ w \in Nat /\ q \in Nat /\ 2 * (DENOMINATOR * q) <= w
              /\ w < 2 * (DENOMINATOR * q) + 2 * DENOMINATOR
      BY <1>1, <1>2, <1>4, <2>2, AreaWeighs
    <3> HIDE DEF hS, wS, S
    <3> QED BY <1>2, <3>1, <3>2, <3>3
  <2> QED BY <2>1, <2>2
<1>5. ASSUME 0 < min
      PROVE  /\ hD(min) = LAMBDA_1
             /\ \A a, b \in 0..min : b <= a =>
                  /\ hD(a) \in Nat /\ hD(b) \in Nat /\ hD(a) <= hD(b) /\ LAMBDA_1 <= hD(a)
                  /\ wD(a, b) \in Nat /\ D(a, b) \in Nat
                  /\ 2 * (DENOMINATOR * D(a, b)) <= wD(a, b)
                  /\ wD(a, b) < 2 * (DENOMINATOR * D(a, b)) + 2 * DENOMINATOR
  <2> HIDE DEF min
  <2>1. hD(min) = LAMBDA_1
    <3> DEFINE w == min - 0
    <3>1. w \in Nat /\ w > 0 /\ min - min = 0
      BY <1>1, <1>5
    <3> HIDE DEF w
    <3>2. Height(LAMBDA_2, LAMBDA_1, w, 0) = LAMBDA_1
      BY <1>2, <3>1, HeightEnds
    <3> QED BY <3>1, <3>2 DEF w
  <2>2. ASSUME NEW a \in 0..min, NEW b \in 0..min, b <= a
        PROVE  /\ hD(a) \in Nat /\ hD(b) \in Nat /\ hD(a) <= hD(b) /\ LAMBDA_1 <= hD(a)
               /\ wD(a, b) \in Nat /\ D(a, b) \in Nat
               /\ 2 * (DENOMINATOR * D(a, b)) <= wD(a, b)
               /\ wD(a, b) < 2 * (DENOMINATOR * D(a, b)) + 2 * DENOMINATOR
    <3>1. /\ hD(a) \in Nat /\ hD(b) \in Nat /\ hD(a) <= hD(b) /\ LAMBDA_1 <= hD(a)
      BY <1>1, <1>2, <1>5, <2>2, HeightRises
    <3>2. wD(a, b) = Weight(LAMBDA_2, LAMBDA_1, min, 0, a, b)
      BY DEF Weight
    <3>3. LET w == Weight(LAMBDA_2, LAMBDA_1, min, 0, a, b)  q == D(a, b)
          IN  /\ w \in Nat /\ q \in Nat /\ 2 * (DENOMINATOR * q) <= w
              /\ w < 2 * (DENOMINATOR * q) + 2 * DENOMINATOR
      BY <1>1, <1>2, <1>5, <2>2, AreaWeighs
    <3> HIDE DEF hD, wD, D
    <3> QED BY <3>1, <3>2, <3>3
  <2> QED BY <2>1, <2>2
<1>6. /\ p \in Nat /\ p <= max /\ p <= from /\ p2 \in Nat /\ p2 <= max /\ p2 <= from2 /\ p2 <= p
      /\ (from >= min => p >= min) /\ (from2 >= min => p2 >= min) /\ (to < max => to <= p)
      /\ (to2 < max => to2 <= p2)
      /\ (to < max => p - to <= p2 - to2)
  BY <1>1
<1>7. CurveArea(from2, to2) \in Nat
  BY CurveNat
<1>8. CASE to >= max
  BY <1>7, <1>8 DEF CurveArea
<1>9. CASE to < max /\ to >= min
  <2>1. CurveArea(from, to) = S(p, to) /\ min < max /\ to2 < max
    BY <1>1, <1>3, <1>9 DEF CurveArea
  <2>2. CASE to2 >= min
    <3>1. CurveArea(from2, to2) = S(p2, to2)
      BY <1>1, <1>3, <1>9, <2>2 DEF CurveArea
    <3> HIDE DEF max, min, p, p2
    <3>2. to <= p /\ to2 <= p2
      BY <1>6, <1>9, <2>1
    <3>3. S(p, to) <= S(p2, to2)
      <4>1. /\ p \in min..max /\ to \in min..max /\ p2 \in min..max /\ to2 \in min..max
            /\ p2 <= p /\ p - to <= p2 - to2
        BY <1>1, <1>6, <1>9, <2>1, <2>2, <3>2
      <4> QED BY <1>1, <1>2, <2>1, <3>2, <4>1, AreaGrows
    <3>4. S(p, to) \in Nat
      BY <1>1, <1>2, <1>6, <2>1, <3>2, AreaNat
    <3>5. S(p2, to2) \in Nat
      BY <1>1, <1>2, <1>6, <2>1, <3>2, AreaNat
    <3> HIDE DEF S
    <3> QED BY <2>1, <3>1, <3>3, <3>4, <3>5
  <2>3. CASE to2 < min /\ from2 >= min
    <3>1. CurveArea(from2, to2) = S(p2, min) + D(min, to2)
      BY <1>1, <1>3, <1>9, <2>3 DEF CurveArea
    <3> HIDE DEF max, min, p, p2, S, D, hS, hD
    <3>2. /\ p \in min..max /\ p2 \in min..max /\ to \in min..max /\ min \in min..max
          /\ min \in 0..min /\ to2 \in 0..min /\ 0 < min
      BY <1>1, <1>6, <1>9, <2>1, <2>3
    <3>3. /\ hS(p) \in Nat /\ hS(to) \in Nat /\ hS(p2) \in Nat /\ hD(to2) \in Nat
          /\ hS(p) <= hS(p2) /\ hS(p2) <= LAMBDA_1 /\ hS(to) <= LAMBDA_1
          /\ hS(min) = LAMBDA_1 /\ hD(min) = LAMBDA_1 /\ LAMBDA_1 <= hD(to2)
      BY <1>4, <1>5, <1>6, <1>9, <2>1, <3>2
    <3>4. /\ wS(p, to) \in Nat /\ S(p, to) \in Nat /\ 2 * (DENOMINATOR * S(p, to)) <= wS(p, to)
          /\ wS(p2, min) \in Nat /\ S(p2, min) \in Nat
          /\ wS(p2, min) < 2 * (DENOMINATOR * S(p2, min)) + 2 * DENOMINATOR
          /\ wD(min, to2) \in Nat /\ D(min, to2) \in Nat
          /\ wD(min, to2) < 2 * (DENOMINATOR * D(min, to2)) + 2 * DENOMINATOR
      <4> HIDE DEF wS, wD
      <4> QED BY <1>4, <1>5, <1>6, <1>9, <2>1, <3>2
    <3>5. wS(p, to) <= wS(p2, min) + wD(min, to2)
      <4> DEFINE u == hS(p2) + LAMBDA_1  s == p2 - min  t == min - to2
      <4>1. u \in Nat /\ s \in Nat /\ t \in Nat /\ p - to \in Nat /\ p - to <= s + t
        BY <1>2, <1>6, <1>9, <3>2, <3>3
      <4>2. wS(p, to) <= u * (s + t)
        <5>1. hS(p) + hS(to) \in Nat /\ hS(p) + hS(to) <= u
          BY <1>2, <3>3
        <5> HIDE DEF u, s, t
        <5> QED BY <4>1, <5>1, ProductGrows
      <4>3. u * t <= wD(min, to2)
        <5>1. u <= hD(min) + hD(to2) /\ hD(min) + hD(to2) \in Nat
          BY <1>2, <3>3
        <5> HIDE DEF u
        <5> QED BY <4>1, <5>1, ProductGrows
      <4>4. wS(p2, min) = u * s
        BY <3>3
      <4>5. u * (s + t) = u * s + u * t /\ u * s \in Nat /\ u * t \in Nat
        <5> HIDE DEF u, s, t
        <5> QED BY <4>1
      <4> HIDE DEF u, s, t, wS, wD
      <4> QED BY <3>4, <4>2, <4>3, <4>4, <4>5
    <3> HIDE DEF wS, wD
    <3>6. S(p, to) + 0 <= S(p2, min) + D(min, to2) + 1
      <4>1. /\ 2 * (DENOMINATOR * 0) <= 0 /\ wS(p, to) + 0 <= wS(p2, min) + wD(min, to2)
        BY <1>2, <3>4, <3>5
      <4> QED BY <3>4, <4>1, TwoWeighed
    <3> QED BY <2>1, <3>1, <3>4, <3>6
  <2>4. CASE to2 < min /\ from2 < min
    <3>1. CurveArea(from2, to2) = D(from2, to2)
      BY <1>1, <1>3, <1>9, <2>4 DEF CurveArea
    <3> HIDE DEF max, min, p, p2, S, D, hS, hD
    <3>2. /\ p \in min..max /\ to \in min..max /\ from2 \in 0..min /\ to2 \in 0..min /\ 0 < min
      BY <1>1, <1>6, <1>9, <2>1, <2>4
    <3>3. /\ hS(p) \in Nat /\ hS(to) \in Nat /\ hD(from2) \in Nat /\ hD(to2) \in Nat
          /\ hS(p) <= hS(to) /\ hS(to) <= LAMBDA_1
          /\ LAMBDA_1 <= hD(from2) /\ hD(from2) <= hD(to2)
      BY <1>4, <1>5, <1>6, <1>9, <2>1, <3>2
    <3>4. /\ wS(p, to) \in Nat /\ S(p, to) \in Nat /\ 2 * (DENOMINATOR * S(p, to)) <= wS(p, to)
          /\ wD(from2, to2) \in Nat /\ D(from2, to2) \in Nat
          /\ wD(from2, to2) < 2 * (DENOMINATOR * D(from2, to2)) + 2 * DENOMINATOR
      <4> HIDE DEF wS, wD
      <4> QED BY <1>4, <1>5, <1>6, <1>9, <2>1, <3>2
    <3>5. wS(p, to) <= wD(from2, to2)
      <4>1. /\ hS(p) + hS(to) \in Nat /\ hD(from2) + hD(to2) \in Nat
            /\ hS(p) + hS(to) <= hD(from2) + hD(to2)
        BY <1>2, <3>3
      <4>2. p - to \in Nat /\ from2 - to2 \in Nat /\ p - to <= from2 - to2
        BY <1>6, <1>9, <3>2
      <4> QED BY <4>1, <4>2, ProductGrows
    <3> HIDE DEF wS, wD
    <3>6. S(p, to) <= D(from2, to2)
      BY <3>4, <3>5, Weighed
    <3> QED BY <2>1, <3>1, <3>4, <3>6
  <2> QED BY <1>1, <2>2, <2>3, <2>4
<1>10. CASE to < min /\ from >= min
  <2>1. /\ CurveArea(from, to) = S(p, min) + D(min, to)
        /\ to < max /\ to2 < min /\ to2 < max /\ 0 < min /\ min < max
    BY <1>1, <1>3, <1>10 DEF CurveArea
  <2> DEFINE s == p - min  t == min - to  c == hS(p) + LAMBDA_1  e == LAMBDA_1 + hD(to)
  <2> HIDE DEF max, min, p, p2
  <2>2. /\ p \in min..max /\ min \in min..max /\ min \in 0..min /\ to \in 0..min /\ to2 \in 0..min
        /\ s \in Nat /\ t \in Nat
    BY <1>1, <1>6, <1>10, <2>1
  <2> HIDE DEF S, D, hS, hD
  <2>3. /\ hS(p) \in Nat /\ hS(p) <= LAMBDA_1 /\ hS(min) = LAMBDA_1 /\ hD(min) = LAMBDA_1
        /\ hD(to) \in Nat /\ hD(to2) \in Nat /\ LAMBDA_1 <= hD(to) /\ hD(to) <= hD(to2)
    BY <1>4, <1>5, <1>6, <1>10, <2>1, <2>2
  <2>4. /\ wS(p, min) \in Nat /\ S(p, min) \in Nat /\ 2 * (DENOMINATOR * S(p, min)) <= wS(p, min)
        /\ wD(min, to) \in Nat /\ D(min, to) \in Nat /\ 2 * (DENOMINATOR * D(min, to)) <= wD(min, to)
    <3>1. min <= p /\ to <= min
      BY <2>2
    <3> HIDE DEF wS, wD
    <3> QED BY <1>4, <1>5, <2>1, <2>2, <3>1
  <2>5. wS(p, min) = c * s /\ wD(min, to) = e * t /\ c \in Nat /\ e \in Nat
    BY <1>2, <2>3
  <2>6. CASE from2 >= min
    <3>1. CurveArea(from2, to2) = S(p2, min) + D(min, to2)
      BY <1>1, <1>3, <2>1, <2>6 DEF CurveArea, max, min
    <3> DEFINE s2 == p2 - min  t2 == min - to2  u == hS(p2) + LAMBDA_1  v == LAMBDA_1 + hD(to2)
    <3>2. /\ p2 \in min..max /\ s2 \in Nat /\ t2 \in Nat /\ s2 <= s /\ t <= t2 /\ s + t <= s2 + t2
          /\ p2 <= p /\ min <= p2 /\ to2 <= min
      BY <1>1, <1>6, <1>10, <2>1, <2>2, <2>6
    <3>3. hS(p2) \in Nat /\ hS(p) <= hS(p2) /\ hS(p2) <= LAMBDA_1
      BY <1>4, <2>1, <2>2, <3>2
    <3>4. /\ wS(p2, min) \in Nat /\ S(p2, min) \in Nat
          /\ wS(p2, min) < 2 * (DENOMINATOR * S(p2, min)) + 2 * DENOMINATOR
          /\ wD(min, to2) \in Nat /\ D(min, to2) \in Nat
          /\ wD(min, to2) < 2 * (DENOMINATOR * D(min, to2)) + 2 * DENOMINATOR
      <4> HIDE DEF wS, wD
      <4> QED BY <1>4, <1>5, <2>1, <2>2, <3>2
    <3>5. wS(p2, min) = u * s2 /\ wD(min, to2) = v * t2
      BY <2>3
    <3>6. u \in Nat /\ v \in Nat /\ c <= u /\ u <= v /\ e <= v
      BY <1>2, <2>3, <3>3
    <3> HIDE DEF s, t, c, e, s2, t2, u, v
    <3>7. c * s + e * t <= u * s2 + v * t2
      <4>1. PICK i \in Nat, j \in Nat : s = s2 + i /\ t2 = t + j /\ i <= j
        <5>1. s - s2 \in Nat /\ t2 - t \in Nat /\ s = s2 + (s - s2) /\ t2 = t + (t2 - t)
              /\ s - s2 <= t2 - t
          BY <2>2, <3>2
        <5> QED BY <5>1
      <4>2. c * s <= u * s /\ e * t <= v * t /\ u * i <= v * j
        BY <2>2, <2>5, <3>6, <4>1, ProductGrows
      <4>3. u * s = u * s2 + u * i /\ v * t2 = v * t + v * j
        BY <2>2, <3>2, <3>6, <4>1
      <4>4. /\ c * s \in Int /\ e * t \in Int /\ u * s2 \in Int /\ u * i \in Int
            /\ v * t \in Int /\ v * j \in Int
        BY <2>2, <2>5, <3>2, <3>6, <4>1
      <4> QED BY <4>2, <4>3, <4>4
    <3> HIDE DEF wS, wD
    <3>8. S(p, min) + D(min, to) <= S(p2, min) + D(min, to2) + 1
      BY <2>4, <2>5, <3>4, <3>5, <3>7, TwoWeighed
    <3> QED BY <2>1, <3>1, <3>8
  <2>7. CASE from2 < min
    <3>1. CurveArea(from2, to2) = D(from2, to2)
      BY <1>1, <1>3, <2>1, <2>7 DEF CurveArea, max, min
    <3> DEFINE n == from2 - to2  v == hD(from2) + hD(to2)
    <3>2. from2 \in 0..min /\ n \in Nat /\ s + t <= n /\ s + t \in Nat
      BY <1>6, <2>1, <2>2, <2>7
    <3>3. hD(from2) \in Nat /\ LAMBDA_1 <= hD(from2)
      BY <1>5, <2>1, <2>2, <3>2
    <3>4. /\ wD(from2, to2) \in Nat /\ D(from2, to2) \in Nat
          /\ wD(from2, to2) < 2 * (DENOMINATOR * D(from2, to2)) + 2 * DENOMINATOR
      <4> HIDE DEF wS, wD
      <4> QED BY <1>5, <2>1, <2>2, <3>2
    <3>5. v \in Nat /\ c <= v /\ e <= v
      BY <1>2, <2>3, <3>3
    <3>6. wD(from2, to2) = v * n
      OBVIOUS
    <3> HIDE DEF s, t, c, e, n, v
    <3>7. c * s + e * t <= v * n
      <4>1. c * s <= v * s /\ e * t <= v * t /\ v * (s + t) <= v * n
        BY <2>2, <2>5, <3>2, <3>5, ProductGrows
      <4>2. v * (s + t) = v * s + v * t
        BY <2>2, <3>5
      <4>3. c * s \in Int /\ e * t \in Int /\ v * s \in Int /\ v * t \in Int /\ v * n \in Int
        BY <2>2, <2>5, <3>2, <3>5
      <4> QED BY <4>1, <4>2, <4>3
    <3> HIDE DEF wS, wD
    <3>8. S(p, min) + D(min, to) <= D(from2, to2) + 0 + 1
      <4>1. 0 < 2 * (DENOMINATOR * 0) + 2 * DENOMINATOR
        BY <1>2
      <4>2. wS(p, min) + wD(min, to) <= wD(from2, to2) + 0
        BY <2>5, <3>4, <3>6, <3>7
      <4> QED BY <2>4, <3>4, <4>1, <4>2, TwoWeighed
    <3> QED BY <2>1, <3>1, <3>4, <3>8
  <2> QED BY <1>1, <2>6, <2>7
<1>11. CASE to < min /\ from < min
  <2>1. CurveArea(from, to) = D(from, to) /\ CurveArea(from2, to2) = D(from2, to2) /\ 0 < min
    BY <1>1, <1>3, <1>11 DEF CurveArea
  <2> HIDE DEF max, min, p, p2
  <2>2. from \in 0..min /\ to \in 0..min /\ from2 \in 0..min /\ to2 \in 0..min
    BY <1>1, <1>11
  <2>3. D(from, to) <= D(from2, to2)
    BY <1>1, <1>2, <2>1, <2>2, AreaGrows
  <2>4. D(from, to) \in Nat /\ D(from2, to2) \in Nat
    BY <1>1, <1>2, <2>1, <2>2, AreaWeighs
  <2> QED BY <2>1, <2>3, <2>4
<1> QED BY <1>1, <1>8, <1>9, <1>10, <1>11

\* Two swaps instead of one, the second from the balance that the first leaves,
\* save at most the rounding and the equilibrium fee on what the first leaves
\* more than its amount; for any ratios, ideal balances, amounts and rewards.
THEOREM SplittingSavesNothing == FeesSpec => []SplittingDoesNotPay
<1> DEFINE Balanced == idealBalance \in Ideals /\ balance \in Int /\ eqFeePool \in Nat
<1>1. FeesInit => Balanced
  BY FeeAssumption DEF FeesInit
<1>2. ASSUME Balanced, NEW amount \in SwapAmounts, NEW d \in Shortfalls
      PROVE  EqReward(amount, d) \in 0..eqFeePool
  <2> DEFINE n == eqFeePool * amount
  <2>1. amount \in Nat /\ d \in Nat /\ d > 0
    BY FeeAssumption
  <2>2. n \in Nat
    BY <1>2, <2>1, ProductGrows
  <2> HIDE DEF n
  <2>3. n \div d \in Nat
    BY <2>1, <2>2, RoundsDown
  <2> QED BY <1>2, <2>3 DEF EqReward, n
<1>3. ASSUME Balanced, NEW amount \in SwapAmounts, NEW reward, reward \in Rewards(amount)
      PROVE  reward \in 0..eqFeePool
  BY <1>2, <1>3 DEF Rewards
<1>4. Balanced /\ [FeesNext]_feeVars => Balanced'
  <2> SUFFICES ASSUME Balanced, [FeesNext]_feeVars PROVE Balanced'
    OBVIOUS
  <2>1. ASSUME NEW amount \in SwapAmounts, NEW reward, reward \in Rewards(amount), Drain(amount, reward)
        PROVE  Balanced'
    <3>1. amount \in Nat /\ LpFee(amount) \in Nat
      BY FeeAssumption, RateSplits DEF LpFee
    <3>2. reward \in 0..eqFeePool
      BY <1>3, <2>1
    <3> QED BY <2>1, <3>1, <3>2 DEF Drain, BalanceLeft
  <2> QED BY <2>1 DEF FeesNext, feeVars
<1>5. Balanced => SplittingDoesNotPay
  <2> SUFFICES ASSUME Balanced, NEW a1 \in SwapAmounts, NEW a2 \in SwapAmounts,
                      NEW reward, reward \in Rewards(a1), Passes(balance, a1, reward),
                      a1 + a2 <= balance, a2 <= BalanceLeft(balance, a1, reward)
               PROVE  UserFee(balance, a1 + a2)
                        <= InTwoParts(balance, a1, reward, a2)
                             + Spared(BalanceLeft(balance, a1, reward) - a2, LpFee(a1) - reward) + Slack
    BY DEF SplittingDoesNotPay, BalanceLeft
  <2> DEFINE second == BalanceLeft(balance, a1, reward)
             kept == LpFee(a1) - reward
             mid == balance - a1  to == balance - (a1 + a2)  end == second - a2
             p1 == Rate(a1, PROTOCOL_FEE)  p2 == Rate(a2, PROTOCOL_FEE)  p == Rate(a1 + a2, PROTOCOL_FEE)
             l1 == Rate(a1, LP_FEE)  l2 == Rate(a2, LP_FEE)  l == Rate(a1 + a2, LP_FEE)
             c1 == CurveArea(balance, mid)  c2 == CurveArea(second, end)  c == CurveArea(balance, to)
             k == Spared(end, kept)
  <2>1. idealBalance \in Ideals /\ PROTOCOL_FEE \in Nat /\ LP_FEE \in Nat
    BY FeeAssumption
  <2>2. /\ a1 \in Nat /\ a2 \in Nat /\ a1 + a2 \in Nat /\ balance \in Nat /\ mid \in Nat /\ to \in Nat
        /\ a1 <= DENOMINATOR /\ a2 <= DENOMINATOR /\ DENOMINATOR \in Nat
        /\ mid <= balance /\ to <= mid /\ a1 <= balance
    BY FeeAssumption
  <2>3. /\ p1 \in Nat /\ p2 \in Nat /\ p \in Nat /\ p <= p1 + p2 + 1
        /\ l1 \in Nat /\ l2 \in Nat /\ l \in Nat /\ l <= l1 + l2 + 1
    BY <2>1, <2>2, RateSplits
  <2>4. reward \in Int /\ kept \in Int
    <3>1. LpFee(a1) = l1
      BY DEF LpFee
    <3>2. \A d \in Shortfalls : EqReward(a1, d) \in Int
      BY <1>2
    <3>3. reward \in Int
      BY <3>2 DEF Rewards
    <3> QED BY <2>3, <3>1, <3>3
  <2>5. second = mid + kept /\ end = to + kept /\ second \in Nat /\ end \in Nat /\ end <= second
        /\ second - end = a2 /\ mid - to = a2
    <3> HIDE DEF kept
    <3>1. second = mid + kept
      BY <2>2, <2>3, <2>4 DEF BalanceLeft, kept, LpFee
    <3> QED BY <2>2, <2>4, <3>1
  <2>6. /\ UserFee(balance, a1 + a2) = c + p + l
        /\ UserFee(balance, a1) = c1 + p1 + l1
        /\ UserFee(second, a2) = c2 + p2 + l2
    <3>1. UserFee(balance, a1 + a2) = c + p + l
      BY <2>1, <2>2, FeeIsArea
    <3>2. UserFee(balance, a1) = c1 + p1 + l1
      BY <2>1, <2>2, FeeIsArea
    <3>3. UserFee(second, a2) = c2 + p2 + l2
      BY <2>1, <2>2, <2>5, FeeIsArea
    <3> QED BY <3>1, <3>2, <3>3
  <2>7. c \in Nat /\ c1 \in Nat /\ c2 \in Nat
    <3> HIDE DEF mid, to, end
    <3> QED BY <2>1, <2>2, <2>5, CurveNat
  <2>8. k \in Nat /\ c <= c1 + c2 + k + 5
    <3>1. CASE kept > 0
      \* The whole way passes second and end.
      <4> DEFINE u == CurveArea(balance, second)  v == CurveArea(second, to)  w == CurveArea(end, to)
      <4>1. second <= balance
        <5>1. l1 <= a1
          <6>1. c1 + p1 + l1 <= a1
            BY <2>6 DEF Passes
          <6> HIDE DEF c1, p1, l1
          <6> QED BY <2>2, <2>3, <2>7, <6>1
        <5>2. reward >= 0
          <6>1. reward \in 0..eqFeePool
            BY <1>3
          <6> QED BY <6>1
        <5> QED BY <2>2, <2>3, <2>4, <2>5, <5>1, <5>2 DEF LpFee
      <4>2. /\ mid <= second /\ to <= end /\ to <= second /\ kept \in Nat /\ end - kept = to
            /\ kept <= end /\ balance - to <= 2 * DENOMINATOR /\ second - to <= 2 * DENOMINATOR
            /\ balance - second <= balance - mid
        BY <2>2, <2>4, <2>5, <3>1, <4>1
      <4> HIDE DEF mid, to, end, kept
      <4>3. c <= u + v + 2
        BY <2>1, <2>2, <2>5, <4>1, <4>2, CurveSplits
      <4>4. v <= c2 + w + 2
        BY <2>1, <2>2, <2>5, <4>2, CurveSplits
      <4>5. u <= c1 + 1
        BY <2>1, <2>2, <2>5, <4>1, <4>2, CurveLower
      <4>6. u \in Nat /\ v \in Nat /\ w \in Nat
        BY <2>1, <2>2, <2>5, <4>1, <4>2, CurveNat
      <4>7. k \in Nat /\ w <= k
        <5>1. k = EqFee(end, kept) /\ CurveArea(end, end - kept) = w
          BY <3>1, <4>2 DEF Spared
        <5>2. to >= SafeZoneMax => /\ CurveArea(end, end - kept) = 0
                                   /\ EqFee(end, kept) = Rate(kept, PROTOCOL_SUBSIDY)
          BY <2>1, <2>2, <4>2, Zones DEF CurveArea, EqFee
        <5>3. to < SafeZoneMax => CurveArea(end, end - kept) = EqFee(end, kept)
          BY <2>1, <2>2, <4>2, Zones DEF CurveArea, EqFee
        <5>4. Rate(kept, PROTOCOL_SUBSIDY) \in Nat
          BY <4>2, FeeAssumption, RateSplits
        <5>5. SafeZoneMax \in Nat
          BY <2>1, Zones
        <5> HIDE DEF k, w
        <5> QED BY <2>2, <4>2, <4>6, <5>1, <5>2, <5>3, <5>4, <5>5
      <4> HIDE DEF c, c1, c2, u, v, w, k
      <4> QED BY <2>7, <4>3, <4>4, <4>5, <4>6, <4>7
    <3>2. CASE kept <= 0
      <4> DEFINE v == CurveArea(mid, to)
      <4>1. k = 0
        BY <2>4, <3>2 DEF Spared
      <4>2. second <= mid /\ end <= to /\ mid - to <= second - end /\ balance - to <= 2 * DENOMINATOR
        BY <2>2, <2>4, <2>5, <3>2
      <4> HIDE DEF mid, to, end
      <4>3. c <= c1 + v + 2
        BY <2>1, <2>2, <4>2, CurveSplits
      <4>4. v <= c2 + 1
        BY <2>1, <2>2, <2>5, <4>2, CurveLower
      <4>5. v \in Nat
        BY <2>1, <2>2, CurveNat
      <4> HIDE DEF c, c1, c2, v, k
      <4> QED BY <2>7, <4>1, <4>3, <4>4, <4>5
    <3> HIDE DEF kept
    <3> QED BY <2>4, <3>1, <3>2
  <2> HIDE DEF p, p1, p2, l, l1, l2, c, c1, c2
  <2> QED BY <2>3, <2>6, <2>7, <2>8 DEF Slack, InTwoParts
<1> QED BY <1>1, <1>4, <1>5, PTL DEF FeesSpec
=============================================================================
