--------------------------- MODULE HubPoolProofs ---------------------------
(***************************************************************************)
(* Proofs that the reserves of every pool add up, that its liquidity is in *)
(* the contract but for fees paid ahead, and that the exchange rate can be *)
(* computed, for any tokens, bundles, rates, amounts and times.            *)
(***************************************************************************)
EXTENDS HubPool, SequenceTheorems, FiniteSetTheorems, TLAPS

\* What the invariants say of one pool, and that its fees were last updated
\* in the past.
PoolOK(t) ==
  /\ pooledTokens[t].liquidReserves + pooledTokens[t].utilizedReserves
       = held[t] - BondHeld(t) + outstanding[t] - unclaimedAccumulatedProtocolFees[t]
  /\ LpValue(pooledTokens[t]) >= 0
  /\ pooledTokens[t].liquidReserves = held[t] - BondHeld(t) + paidAhead[t]
  /\ pooledTokens[t].lastLpFeeUpdate <= now

\* A proposal that is done or deleted can be disputed no more, so that no
\* dispute takes a bond that is not in the contract.
NoLateDispute ==
  ~ActiveRequest => now > rootBundleProposal.challengePeriodEndTimestamp

\* What is paid ahead once the balance of t has been taken up, by _sync and by
\* the calls that compute the exchange rate.
Ahead(t) == IF paidAhead[t] < 0 THEN 0 ELSE paidAhead[t]

AheadWithRate(t) == IF pooledTokens[t].lpSupply = 0 THEN paidAhead[t] ELSE Ahead(t)

IInv == TypeOK /\ (\A t \in Token : PoolOK(t)) /\ NoLateDispute
-----------------------------------------------------------------------------
(* Arithmetic. *)

\* A product of naturals is one.
LEMMA ProductNat ==
  ASSUME NEW a \in Nat, NEW b \in Nat
  PROVE  a * b \in Nat
OBVIOUS

\* A product grows with a factor.
LEMMA ProductMonotone ==
  ASSUME NEW a \in Nat, NEW b \in Nat, NEW n \in Nat, a <= b
  PROVE  a * n <= b * n
OBVIOUS

\* A quotient of naturals is one.
LEMMA QuotientNat ==
  ASSUME NEW a \in Nat, NEW b \in Nat \ {0}
  PROVE  a \div b \in Nat /\ (a \div b) * b <= a
OBVIOUS

\* A quotient is at most any number whose product reaches the dividend.
LEMMA QuotientBound ==
  ASSUME NEW a \in Nat, NEW b \in Nat \ {0}, NEW n \in Nat, a <= n * b
  PROVE  a \div b <= n
OBVIOUS

\* A share of an amount, in ONE-ths, is a part of it.
LEMMA ShareBound ==
  ASSUME NEW amount \in Nat, NEW pct \in 0 .. ONE
  PROVE  (amount * pct) \div ONE \in 0 .. amount
<1>1. ONE \in Nat \ {0} /\ pct \in Nat /\ pct <= ONE
  BY HubAssumption
<1>2. amount * pct \in Nat
  BY <1>1, ProductNat
<1>3. amount * pct <= amount * ONE
  <2>1. pct * amount <= ONE * amount
    BY <1>1, ProductMonotone
  <2> QED BY <1>1, <2>1
<1>4. (amount * pct) \div ONE \in Nat
  BY <1>1, <1>2, QuotientNat
<1>5. (amount * pct) \div ONE <= amount
  BY <1>1, <1>2, <1>3, QuotientBound
<1> QED BY <1>4, <1>5

\* What LP tokens are redeemed for is no more than all of them are worth.
LEMMA RedeemBound ==
  ASSUME NEW value \in Nat, NEW supply \in Nat \ {0}, NEW amount \in Nat, amount <= supply
  PROVE  (amount * ((value * ONE) \div supply)) \div ONE \in 0 .. value
<1> DEFINE rate == (value * ONE) \div supply
<1>1. ONE \in Nat \ {0}
  BY HubAssumption
<1>2. value * ONE \in Nat
  BY <1>1, ProductNat
<1>3. rate \in Nat /\ rate * supply <= value * ONE
  BY <1>2, QuotientNat
<1> HIDE DEF rate
<1>4. amount * rate <= supply * rate
  BY <1>3, ProductMonotone
<1>5. amount * rate \in Nat
  BY <1>3, ProductNat
<1>6. amount * rate <= value * ONE
  <2>1. rate * supply = supply * rate
    BY <1>3
  <2>2. supply * rate \in Nat
    BY <1>3, ProductNat
  <2> QED BY <1>2, <1>3, <1>4, <1>5, <2>1, <2>2
<1>7. (amount * rate) \div ONE \in Nat
  BY <1>1, <1>5, QuotientNat
<1>8. (amount * rate) \div ONE <= value
  BY <1>1, <1>5, <1>6, QuotientBound
<1>9. (amount * rate) \div ONE \in 0 .. value
  BY <1>7, <1>8
<1> QED BY <1>9 DEF rate
-----------------------------------------------------------------------------
(* Facts about one pool. *)

\* The bond in the balance is an amount.
LEMMA BondHeldNat ==
  ASSUME TypeOK, NEW t \in Token
  PROVE  BondHeld(t) \in Nat
BY DEF TypeOK, BondHeld, BondTerms

\* The accumulated fees are some of those to be distributed.
LEMMA AccumulatedFeesBound ==
  ASSUME TypeOK, NEW p \in PooledToken, p.lastLpFeeUpdate <= now
  PROVE  AccumulatedFees(p) \in 0 .. p.undistributedLpFees
<1>1. now \in Nat /\ p.lastLpFeeUpdate \in Nat /\ p.undistributedLpFees \in Nat
  BY DEF TypeOK, PooledToken
<1>2. ONE \in Nat \ {0} /\ lpFeeRatePerSecond \in Nat
  BY HubAssumption
<1>3. now - p.lastLpFeeUpdate \in Nat
  BY <1>1
<1>4. p.undistributedLpFees * lpFeeRatePerSecond \in Nat
  BY <1>1, <1>2, ProductNat
<1>5. p.undistributedLpFees * lpFeeRatePerSecond * (now - p.lastLpFeeUpdate) \in Nat
  BY <1>3, <1>4, ProductNat
<1>6. (p.undistributedLpFees * lpFeeRatePerSecond * (now - p.lastLpFeeUpdate)) \div ONE \in Nat
  BY <1>2, <1>5, QuotientNat
<1> QED BY <1>1, <1>6 DEF AccumulatedFees

\* Comparing balances moves amounts between the reserves, no more.
LEMMA SyncFacts ==
  ASSUME TypeOK, NEW t \in Token, NEW p \in PooledToken
  PROVE  /\ Sync(t, p) \in PooledToken
         /\ Sync(t, p).liquidReserves + Sync(t, p).utilizedReserves
              = p.liquidReserves + p.utilizedReserves
         /\ Sync(t, p).liquidReserves
              = (IF held[t] - BondHeld(t) > p.liquidReserves
                 THEN held[t] - BondHeld(t) ELSE p.liquidReserves)
         /\ Sync(t, p).undistributedLpFees = p.undistributedLpFees
         /\ Sync(t, p).lastLpFeeUpdate = p.lastLpFeeUpdate
         /\ Sync(t, p).lpSupply = p.lpSupply
<1>1. BondHeld(t) \in Nat
  BY BondHeldNat
<1>2. held[t] \in Nat
  BY DEF TypeOK
<1>3. p.liquidReserves \in Nat /\ p.utilizedReserves \in Int
  BY DEF PooledToken
<1>4. CASE held[t] - BondHeld(t) > p.liquidReserves
  <2> DEFINE b == held[t] - BondHeld(t)
             u == p.utilizedReserves - (b - p.liquidReserves)
  <2>1. b \in Nat /\ u \in Int
    BY <1>1, <1>2, <1>3, <1>4
  <2>2. Sync(t, p) = [p EXCEPT !.utilizedReserves = u, !.liquidReserves = b]
    BY <1>4 DEF Sync
  <2> HIDE DEF b, u
  <2>3. Sync(t, p) \in PooledToken
    BY <1>3, <2>1, <2>2 DEF PooledToken
  <2>4. /\ Sync(t, p).liquidReserves = b
        /\ Sync(t, p).utilizedReserves = u
        /\ Sync(t, p).undistributedLpFees = p.undistributedLpFees
        /\ Sync(t, p).lastLpFeeUpdate = p.lastLpFeeUpdate
        /\ Sync(t, p).lpSupply = p.lpSupply
    BY <2>2 DEF PooledToken
  <2>5. b = held[t] - BondHeld(t) /\ u = p.utilizedReserves - (b - p.liquidReserves)
    BY DEF b, u
  <2> QED BY <1>3, <1>4, <2>1, <2>3, <2>4, <2>5
<1>5. CASE ~(held[t] - BondHeld(t) > p.liquidReserves)
  BY <1>5 DEF Sync
<1> QED BY <1>4, <1>5

\* The state in which a call leaves a pool that it brought up to date.
LEMMA CurrentFacts ==
  ASSUME TypeOK, NEW t \in Token, PoolOK(t)
  PROVE  /\ Current(t) \in PooledToken
         /\ Current(t).liquidReserves + Current(t).utilizedReserves
              = pooledTokens[t].liquidReserves + pooledTokens[t].utilizedReserves
         /\ Current(t).liquidReserves = held[t] - BondHeld(t) + AheadWithRate(t)
         /\ Current(t).undistributedLpFees <= pooledTokens[t].undistributedLpFees
         /\ Current(t).lastLpFeeUpdate <= now
         /\ Current(t).lpSupply = pooledTokens[t].lpSupply
         /\ LpValue(Current(t)) \in Nat
<1> DEFINE p == pooledTokens[t]
           u == UpdateAccumulatedLpFees(p)
<1>1. /\ p \in PooledToken /\ p.lastLpFeeUpdate <= now /\ LpValue(p) >= 0
      /\ p.liquidReserves = held[t] - BondHeld(t) + paidAhead[t]
      /\ held[t] \in Nat /\ paidAhead[t] \in Int
  BY DEF TypeOK, PoolOK
<1>2. now \in Nat
  BY DEF TypeOK
<1>3. AccumulatedFees(p) \in 0 .. p.undistributedLpFees
  BY <1>1, AccumulatedFeesBound
<1>4. /\ u \in PooledToken
      /\ u.liquidReserves = p.liquidReserves /\ u.utilizedReserves = p.utilizedReserves
      /\ u.undistributedLpFees <= p.undistributedLpFees
      /\ u.lastLpFeeUpdate = now /\ u.lpSupply = p.lpSupply
  <2> DEFINE f == AccumulatedFees(p)
  <2>1. u = [p EXCEPT !.undistributedLpFees = @ - f, !.lastLpFeeUpdate = now]
    BY DEF UpdateAccumulatedLpFees
  <2>2. f \in Nat /\ p.undistributedLpFees \in Nat /\ p.undistributedLpFees - f \in Nat
    BY <1>1, <1>3 DEF PooledToken
  <2> HIDE DEF f, p, u
  <2>3. u \in PooledToken
    BY <1>1, <1>2, <2>1, <2>2 DEF PooledToken
  <2>4. u.undistributedLpFees = p.undistributedLpFees - f
    BY <1>1, <2>1 DEF PooledToken
  <2> QED BY <1>1, <2>1, <2>2, <2>3, <2>4 DEF PooledToken
<1>5. CASE p.lpSupply = 0
  <2>1. Current(t) = p
    BY <1>5 DEF Current
  <2> QED BY <1>1, <1>5, <2>1 DEF LpValue, PooledToken, AheadWithRate
<1>6. CASE p.lpSupply # 0
  <2>1. Current(t) = Sync(t, u)
    BY <1>6 DEF Current
  <2> HIDE DEF p, u
  <2>2. /\ Sync(t, u) \in PooledToken
        /\ Sync(t, u).liquidReserves + Sync(t, u).utilizedReserves
             = p.liquidReserves + p.utilizedReserves
        /\ Sync(t, u).liquidReserves
             = (IF held[t] - BondHeld(t) > p.liquidReserves
                THEN held[t] - BondHeld(t) ELSE p.liquidReserves)
        /\ Sync(t, u).undistributedLpFees <= p.undistributedLpFees
        /\ Sync(t, u).lastLpFeeUpdate = now /\ Sync(t, u).lpSupply = p.lpSupply
    BY <1>4, SyncFacts
  <2>3. LpValue(Sync(t, u)) \in Nat
    BY <1>1, <2>2 DEF LpValue, PooledToken
  <2>4. Sync(t, u).liquidReserves = held[t] - BondHeld(t) + Ahead(t)
    BY <1>1, <2>2, BondHeldNat DEF Ahead, PooledToken
  <2>5. AheadWithRate(t) = Ahead(t)
    BY <1>6 DEF AheadWithRate, p
  <2> QED BY <1>2, <2>1, <2>2, <2>3, <2>4, <2>5 DEF p
<1> QED BY <1>5, <1>6

\* What may be redeemed is no more than the providers have.
LEMMA ExchangeFacts ==
  ASSUME NEW p \in PooledToken, LpValue(p) \in Nat
  PROVE  /\ ExchangeRate(p) \in Nat
         /\ \A amount \in Nat :
              amount <= p.lpSupply =>
                (amount * ExchangeRate(p)) \div ONE \in 0 .. LpValue(p)
<1>1. p.lpSupply \in Nat /\ ONE \in Nat \ {0}
  BY HubAssumption DEF PooledToken
<1>2. CASE p.lpSupply = 0
  <2>1. ExchangeRate(p) = ONE
    BY <1>2 DEF ExchangeRate
  <2>2. ASSUME NEW amount \in Nat, amount <= p.lpSupply
        PROVE  (amount * ONE) \div ONE \in 0 .. LpValue(p)
    <3>1. amount = 0
      BY <1>2, <2>2
    <3>2. (0 * ONE) \div ONE = 0
      BY <1>1
    <3> QED BY <3>1, <3>2
  <2> QED BY <1>1, <2>1, <2>2
<1>3. CASE p.lpSupply # 0
  <2>1. ExchangeRate(p) = (LpValue(p) * ONE) \div p.lpSupply
    BY <1>3 DEF ExchangeRate
  <2>2. LpValue(p) * ONE \in Nat
    BY <1>1, ProductNat
  <2>3. ExchangeRate(p) \in Nat
    BY <1>1, <1>3, <2>1, <2>2, QuotientNat
  <2> QED BY <1>1, <1>3, <2>1, <2>3, RedeemBound
<1> QED BY <1>2, <1>3
-----------------------------------------------------------------------------
(* The steps on one pool. *)

\* Without a step on bundles, the bond stays where it is.
LEMMA BondStays ==
  ASSUME UNCHANGED bundleVars, NEW t \in Token
  PROVE  BondHeld(t)' = BondHeld(t)
BY DEF bundleVars, BondHeld, ActiveRequest

\* A step on the pool of t, from what it does to each amount of t.
LEMMA PoolStep ==
  ASSUME IInv, NEW t \in Token,
         NEW q \in PooledToken, NEW h \in Nat, NEW o \in Int, NEW f \in Nat, NEW cl \in Int,
         UNCHANGED <<now, configVars, bundleVars>>,
         pooledTokens' = [pooledTokens EXCEPT ![t] = q],
         held' = [held EXCEPT ![t] = h],
         outstanding' = [outstanding EXCEPT ![t] = o],
         unclaimedAccumulatedProtocolFees' =
           [unclaimedAccumulatedProtocolFees EXCEPT ![t] = f],
         paidAhead' = [paidAhead EXCEPT ![t] = cl],
         q.liquidReserves + q.utilizedReserves = h - BondHeld(t) + o - f,
         LpValue(q) >= 0,
         q.liquidReserves = h - BondHeld(t) + cl,
         q.lastLpFeeUpdate <= now
  PROVE  IInv'
<1>1. TypeOK
  BY DEF IInv
<1>2. /\ now' = now /\ rootBundleProposal' = rootBundleProposal /\ bond' = bond
      /\ proposals' = proposals
  BY DEF bundleVars
<1>3. TypeOK'
  BY <1>1, <1>2 DEF TypeOK, configVars
<1>4. ASSUME NEW s \in Token
      PROVE  PoolOK(s)'
  <2>1. PoolOK(s)
    BY DEF IInv
  <2>2. BondHeld(s)' = BondHeld(s)
    BY BondStays
  <2>3. /\ pooledTokens'[s] = (IF s = t THEN q ELSE pooledTokens[s])
        /\ held'[s] = (IF s = t THEN h ELSE held[s])
        /\ outstanding'[s] = (IF s = t THEN o ELSE outstanding[s])
        /\ unclaimedAccumulatedProtocolFees'[s]
             = (IF s = t THEN f ELSE unclaimedAccumulatedProtocolFees[s])
        /\ paidAhead'[s] = (IF s = t THEN cl ELSE paidAhead[s])
    BY <1>1 DEF TypeOK
  <2>4. CASE s = t
    BY <1>2, <2>2, <2>3, <2>4 DEF PoolOK, LpValue
  <2>5. CASE s # t
    BY <1>2, <2>1, <2>2, <2>3, <2>5 DEF PoolOK, LpValue
  <2> QED BY <2>4, <2>5
<1>5. NoLateDispute'
  BY <1>2 DEF IInv, NoLateDispute, ActiveRequest
<1> QED BY <1>3, <1>4, <1>5 DEF IInv

\* The amounts of t, and that an update with what is there changes nothing.
LEMMA PoolFacts ==
  ASSUME IInv, NEW t \in Token
  PROVE  /\ TypeOK /\ PoolOK(t)
         /\ BondHeld(t) \in Nat
         /\ pooledTokens[t] \in PooledToken
         /\ held[t] \in Nat /\ outstanding[t] \in Int /\ paidAhead[t] \in Int
         /\ unclaimedAccumulatedProtocolFees[t] \in Nat
         /\ pooledTokens = [pooledTokens EXCEPT ![t] = pooledTokens[t]]
         /\ held = [held EXCEPT ![t] = held[t]]
         /\ outstanding = [outstanding EXCEPT ![t] = outstanding[t]]
         /\ paidAhead = [paidAhead EXCEPT ![t] = paidAhead[t]]
         /\ unclaimedAccumulatedProtocolFees
              = [unclaimedAccumulatedProtocolFees EXCEPT
                   ![t] = unclaimedAccumulatedProtocolFees[t]]
<1>1. TypeOK /\ PoolOK(t)
  BY DEF IInv
<1>2. BondHeld(t) \in Nat
  BY <1>1, BondHeldNat
<1> QED BY <1>1, <1>2 DEF TypeOK

\* Taking up the balance of t touches what is paid ahead of t alone.
LEMMA TakenUpFacts ==
  ASSUME TypeOK, NEW t \in Token
  PROVE  /\ Ahead(t) \in Int /\ AheadWithRate(t) \in Int
         /\ TakenUp(t) = [paidAhead EXCEPT ![t] = Ahead(t)]
         /\ TakenUpWithRate(t) = [paidAhead EXCEPT ![t] = AheadWithRate(t)]
<1>1. paidAhead \in [Token -> Int]
  BY DEF TypeOK
<1>2. Ahead(t) \in Int /\ TakenUp(t) = [paidAhead EXCEPT ![t] = Ahead(t)]
  BY <1>1 DEF Ahead, TakenUp
<1>3. CASE pooledTokens[t].lpSupply = 0
  BY <1>1, <1>2, <1>3 DEF AheadWithRate, TakenUpWithRate
<1>4. CASE pooledTokens[t].lpSupply # 0
  BY <1>1, <1>2, <1>4 DEF AheadWithRate, TakenUpWithRate
<1> QED BY <1>2, <1>3, <1>4

\* addLiquidity keeps the invariant.
LEMMA AddLiquidityStep ==
  ASSUME IInv, NEW t \in Token, NEW amount \in LpAmounts, AddLiquidity(t, amount)
  PROVE  IInv'
<1> DEFINE p == Current(t)
           minted == LpTokensToMint(amount, ExchangeRate(p))
           q == [p EXCEPT !.liquidReserves = @ + amount, !.lpSupply = @ + minted]
<1>1. /\ TypeOK /\ PoolOK(t) /\ BondHeld(t) \in Nat /\ held[t] \in Nat
      /\ pooledTokens[t] \in PooledToken
  BY PoolFacts
<1>2. /\ p \in PooledToken
      /\ p.liquidReserves + p.utilizedReserves
           = pooledTokens[t].liquidReserves + pooledTokens[t].utilizedReserves
      /\ p.liquidReserves = held[t] - BondHeld(t) + AheadWithRate(t)
      /\ AheadWithRate(t) \in Int
      /\ p.lastLpFeeUpdate <= now
      /\ LpValue(p) \in Nat
  BY <1>1, CurrentFacts, TakenUpFacts
<1>3. amount \in Nat /\ ONE \in Nat \ {0}
  BY HubAssumption
<1>4. minted \in Nat
  <2>1. ExchangeRate(p) \in Nat /\ ExchangeRate(p) > 0
    BY <1>2, ExchangeFacts DEF AddLiquidity
  <2>2. amount * ONE \in Nat
    BY <1>3, ProductNat
  <2>3. (amount * ONE) \div ExchangeRate(p) \in Nat
    BY <2>1, <2>2, QuotientNat
  <2> QED BY <2>3 DEF LpTokensToMint
<1>5. /\ pooledTokens' = [pooledTokens EXCEPT ![t] = q]
      /\ held' = [held EXCEPT ![t] = held[t] + amount]
      /\ UNCHANGED <<now, configVars, bundleVars, outstanding,
                     unclaimedAccumulatedProtocolFees>>
  BY DEF AddLiquidity
<1> HIDE DEF p, minted
<1>6. q \in PooledToken
  <2> DEFINE l == p.liquidReserves + amount
             s == p.lpSupply + minted
  <2>1. l \in Nat /\ s \in Nat
    BY <1>2, <1>3, <1>4 DEF PooledToken
  <2>2. q = [p EXCEPT !.liquidReserves = l, !.lpSupply = s]
    OBVIOUS
  <2> HIDE DEF l, s, q
  <2> QED BY <1>2, <2>1, <2>2 DEF PooledToken
<1>7. /\ q.liquidReserves = p.liquidReserves + amount
      /\ q.utilizedReserves = p.utilizedReserves
      /\ q.undistributedLpFees = p.undistributedLpFees
      /\ q.lastLpFeeUpdate = p.lastLpFeeUpdate
  BY <1>2 DEF PooledToken
<1> HIDE DEF q
<1>8. /\ p.liquidReserves \in Nat /\ p.utilizedReserves \in Int
      /\ p.undistributedLpFees \in Nat
      /\ pooledTokens[t].liquidReserves \in Nat /\ pooledTokens[t].utilizedReserves \in Int
  BY <1>1, <1>2 DEF PooledToken
<1>9. held[t] + amount \in Nat
  BY <1>1, <1>3
<1>10. /\ outstanding[t] \in Int /\ paidAhead[t] \in Int
       /\ unclaimedAccumulatedProtocolFees[t] \in Nat
  BY PoolFacts
<1>11. /\ q.liquidReserves + q.utilizedReserves
            = (held[t] + amount) - BondHeld(t) + outstanding[t]
                - unclaimedAccumulatedProtocolFees[t]
       /\ q.liquidReserves = (held[t] + amount) - BondHeld(t) + AheadWithRate(t)
       /\ LpValue(q) >= 0
  BY <1>1, <1>2, <1>3, <1>7, <1>8, <1>10 DEF PoolOK, LpValue
<1>12. /\ outstanding' = [outstanding EXCEPT ![t] = outstanding[t]]
       /\ paidAhead' = [paidAhead EXCEPT ![t] = AheadWithRate(t)]
       /\ unclaimedAccumulatedProtocolFees'
            = [unclaimedAccumulatedProtocolFees EXCEPT
                 ![t] = unclaimedAccumulatedProtocolFees[t]]
  BY <1>1, <1>5, PoolFacts, TakenUpFacts DEF AddLiquidity
<1>13. q.lastLpFeeUpdate <= now
  BY <1>2, <1>7
<1> QED BY <1>2, <1>5, <1>6, <1>9, <1>10, <1>11, <1>12, <1>13, PoolStep

\* removeLiquidity keeps the invariant.
LEMMA RemoveLiquidityStep ==
  ASSUME IInv, NEW t \in Token, NEW amount \in LpAmounts, RemoveLiquidity(t, amount)
  PROVE  IInv'
<1> DEFINE p == Current(t)
           back == (amount * ExchangeRate(p)) \div ONE
           l == p.liquidReserves - back
           s == p.lpSupply - amount
           q == [p EXCEPT !.liquidReserves = l, !.lpSupply = s]
<1>1. /\ TypeOK /\ PoolOK(t) /\ BondHeld(t) \in Nat /\ held[t] \in Nat
      /\ pooledTokens[t] \in PooledToken
      /\ outstanding[t] \in Int /\ paidAhead[t] \in Int
      /\ unclaimedAccumulatedProtocolFees[t] \in Nat
  BY PoolFacts
<1>2. /\ p \in PooledToken
      /\ p.liquidReserves + p.utilizedReserves
           = pooledTokens[t].liquidReserves + pooledTokens[t].utilizedReserves
      /\ p.liquidReserves = held[t] - BondHeld(t) + AheadWithRate(t)
      /\ AheadWithRate(t) \in Int
      /\ p.lastLpFeeUpdate <= now
      /\ LpValue(p) \in Nat
  BY <1>1, CurrentFacts, TakenUpFacts
<1>3. amount \in Nat
  BY HubAssumption
<1>4. /\ amount <= p.lpSupply /\ back <= p.liquidReserves /\ back <= held[t]
      /\ pooledTokens' = [pooledTokens EXCEPT ![t] = q]
      /\ held' = [held EXCEPT ![t] = held[t] - back]
      /\ UNCHANGED <<now, configVars, bundleVars, outstanding,
                     unclaimedAccumulatedProtocolFees>>
  BY DEF RemoveLiquidity
<1>5. back \in Nat /\ back <= LpValue(p)
  BY <1>2, <1>3, <1>4, ExchangeFacts
<1> HIDE DEF p, back
<1>6. /\ p.liquidReserves \in Nat /\ p.utilizedReserves \in Int
      /\ p.undistributedLpFees \in Nat /\ p.lpSupply \in Nat
      /\ pooledTokens[t].liquidReserves \in Nat /\ pooledTokens[t].utilizedReserves \in Int
  BY <1>1, <1>2 DEF PooledToken
<1>7. l \in Nat /\ s \in Nat
  BY <1>3, <1>4, <1>5, <1>6
<1>8. /\ q \in PooledToken
      /\ q.liquidReserves = l
      /\ q.utilizedReserves = p.utilizedReserves
      /\ q.undistributedLpFees = p.undistributedLpFees
      /\ q.lastLpFeeUpdate = p.lastLpFeeUpdate
  <2> HIDE DEF l, s
  <2> QED BY <1>2, <1>7 DEF PooledToken
<1> HIDE DEF q
<1>9. held[t] - back \in Nat
  BY <1>1, <1>4, <1>5
<1>10. /\ q.liquidReserves + q.utilizedReserves
            = (held[t] - back) - BondHeld(t) + outstanding[t]
                - unclaimedAccumulatedProtocolFees[t]
       /\ q.liquidReserves = (held[t] - back) - BondHeld(t) + AheadWithRate(t)
       /\ LpValue(q) >= 0
  <2>1. /\ q.liquidReserves + q.utilizedReserves
             = (p.liquidReserves + p.utilizedReserves) - back
        /\ LpValue(q) = LpValue(p) - back
    BY <1>2, <1>5, <1>6, <1>8 DEF LpValue
  <2>2. p.liquidReserves + p.utilizedReserves
          = held[t] - BondHeld(t) + outstanding[t] - unclaimedAccumulatedProtocolFees[t]
    BY <1>1, <1>2 DEF PoolOK
  <2>3. q.liquidReserves = (held[t] - back) - BondHeld(t) + AheadWithRate(t)
    BY <1>1, <1>2, <1>5, <1>8
  <2>4. LpValue(q) >= 0
    BY <1>2, <1>5, <2>1
  <2> QED BY <1>1, <1>5, <2>1, <2>2, <2>3, <2>4
<1>11. /\ outstanding' = [outstanding EXCEPT ![t] = outstanding[t]]
       /\ paidAhead' = [paidAhead EXCEPT ![t] = AheadWithRate(t)]
       /\ unclaimedAccumulatedProtocolFees'
            = [unclaimedAccumulatedProtocolFees EXCEPT
                 ![t] = unclaimedAccumulatedProtocolFees[t]]
  BY <1>1, <1>4, PoolFacts, TakenUpFacts DEF RemoveLiquidity
<1>12. q.lastLpFeeUpdate <= now
  BY <1>2, <1>8
<1>13. UNCHANGED <<now, configVars, bundleVars>>
  BY <1>4
<1> DEFINE h == held[t] - back
<1>14. /\ pooledTokens' = [pooledTokens EXCEPT ![t] = q]
       /\ held' = [held EXCEPT ![t] = h]
  BY <1>4
<1> HIDE DEF h
<1> QED BY <1>1, <1>2, <1>8, <1>9, <1>10, <1>11, <1>12, <1>13, <1>14, PoolStep DEF h

\* Reading the rate and syncing move amounts between the reserves.
LEMMA ReadStep ==
  ASSUME IInv, NEW t \in Token, ReadRate(t) \/ SyncToken(t)
  PROVE  IInv'
<1>1. /\ TypeOK /\ PoolOK(t) /\ BondHeld(t) \in Nat /\ held[t] \in Nat
      /\ pooledTokens[t] \in PooledToken
      /\ outstanding[t] \in Int /\ paidAhead[t] \in Int
      /\ unclaimedAccumulatedProtocolFees[t] \in Nat
  BY PoolFacts
<1>2. PICK q \in PooledToken, cl \in Int :
        /\ pooledTokens' = [pooledTokens EXCEPT ![t] = q]
        /\ paidAhead' = [paidAhead EXCEPT ![t] = cl]
        /\ q.liquidReserves + q.utilizedReserves
             = pooledTokens[t].liquidReserves + pooledTokens[t].utilizedReserves
        /\ q.liquidReserves = held[t] - BondHeld(t) + cl
        /\ q.undistributedLpFees <= pooledTokens[t].undistributedLpFees
        /\ q.lastLpFeeUpdate <= now
  <2>1. CASE ReadRate(t)
    BY <1>1, <2>1, CurrentFacts, TakenUpFacts DEF ReadRate
  <2>2. CASE SyncToken(t)
    <3>1. pooledTokens[t].lastLpFeeUpdate <= now
      BY <1>1 DEF PoolOK
    <3>2. pooledTokens[t].undistributedLpFees <= pooledTokens[t].undistributedLpFees
      BY <1>1 DEF PooledToken
    <3>3. pooledTokens' = [pooledTokens EXCEPT ![t] = Sync(t, pooledTokens[t])]
      BY <2>2 DEF SyncToken
    <3>4. /\ paidAhead' = [paidAhead EXCEPT ![t] = Ahead(t)]
          /\ Ahead(t) \in Int
      BY <1>1, <2>2, TakenUpFacts DEF SyncToken
    <3>5. Sync(t, pooledTokens[t]).liquidReserves = held[t] - BondHeld(t) + Ahead(t)
      BY <1>1, SyncFacts DEF PoolOK, Ahead, PooledToken
    <3> QED BY <1>1, <3>1, <3>2, <3>3, <3>4, <3>5, SyncFacts
  <2> QED BY <2>1, <2>2
<1>3. UNCHANGED <<now, configVars, bundleVars, held, outstanding,
                  unclaimedAccumulatedProtocolFees>>
  BY DEF ReadRate, SyncToken
<1>4. /\ q.liquidReserves \in Nat /\ q.utilizedReserves \in Int
      /\ q.undistributedLpFees \in Nat
      /\ pooledTokens[t].liquidReserves \in Nat /\ pooledTokens[t].utilizedReserves \in Int
      /\ pooledTokens[t].undistributedLpFees \in Nat
  BY <1>1 DEF PooledToken
<1>5. /\ q.liquidReserves + q.utilizedReserves
           = held[t] - BondHeld(t) + outstanding[t] - unclaimedAccumulatedProtocolFees[t]
      /\ q.liquidReserves = held[t] - BondHeld(t) + cl
      /\ LpValue(q) >= 0
  BY <1>1, <1>2, <1>4 DEF PoolOK, LpValue
<1>6. /\ held' = [held EXCEPT ![t] = held[t]]
      /\ outstanding' = [outstanding EXCEPT ![t] = outstanding[t]]
      /\ unclaimedAccumulatedProtocolFees'
           = [unclaimedAccumulatedProtocolFees EXCEPT
                ![t] = unclaimedAccumulatedProtocolFees[t]]
  BY <1>3, PoolFacts
<1>7. UNCHANGED <<now, configVars, bundleVars>>
  BY <1>3
<1>8. pooledTokens' = [pooledTokens EXCEPT ![t] = q] /\ q.lastLpFeeUpdate <= now
  BY <1>2
<1> QED BY <1>1, <1>2, <1>5, <1>6, <1>7, <1>8, PoolStep

\* A claim of protocol fees keeps the invariant: what leaves was not liquid,
\* or is remembered as paid ahead.
LEMMA ClaimStep ==
  ASSUME IInv, NEW t \in Token, ClaimProtocolFeesCaptured(t)
  PROVE  IInv'
<1> DEFINE q == pooledTokens[t]
           fees == unclaimedAccumulatedProtocolFees[t]
           h == held[t] - fees
           cl == paidAhead[t] + fees
<1>1. /\ PoolOK(t) /\ BondHeld(t) \in Nat /\ held[t] \in Nat
      /\ q \in PooledToken
      /\ outstanding[t] \in Int /\ paidAhead[t] \in Int /\ fees \in Nat
  BY PoolFacts
<1>2. h \in Nat /\ cl \in Int
  BY <1>1 DEF ClaimProtocolFeesCaptured
<1>3. /\ held' = [held EXCEPT ![t] = h]
      /\ paidAhead' = [paidAhead EXCEPT ![t] = cl]
      /\ unclaimedAccumulatedProtocolFees'
           = [unclaimedAccumulatedProtocolFees EXCEPT ![t] = 0]
  BY DEF ClaimProtocolFeesCaptured
<1>4. /\ pooledTokens' = [pooledTokens EXCEPT ![t] = q]
      /\ outstanding' = [outstanding EXCEPT ![t] = outstanding[t]]
  BY PoolFacts DEF ClaimProtocolFeesCaptured
<1>5. UNCHANGED <<now, configVars, bundleVars>>
  BY DEF ClaimProtocolFeesCaptured
<1>6. q.liquidReserves \in Nat /\ q.utilizedReserves \in Int
  BY <1>1 DEF PooledToken
<1>7. /\ q.liquidReserves + q.utilizedReserves = h - BondHeld(t) + outstanding[t] - 0
      /\ LpValue(q) >= 0
      /\ q.liquidReserves = h - BondHeld(t) + cl
      /\ q.lastLpFeeUpdate <= now
  BY <1>1, <1>6 DEF PoolOK
<1>8. 0 \in Nat
  OBVIOUS
<1> HIDE DEF q, h, cl
<1> QED BY <1>1, <1>2, <1>3, <1>4, <1>5, <1>7, <1>8, PoolStep

\* Enabling and disabling a token touch no amount.
LEMMA EnableStep ==
  ASSUME IInv, NEW t \in Token,
         EnableL1TokenForLiquidityProvision(t) \/ DisableL1TokenForLiquidityProvision(t)
  PROVE  IInv'
<1>1. /\ TypeOK /\ PoolOK(t) /\ BondHeld(t) \in Nat /\ held[t] \in Nat
      /\ pooledTokens[t] \in PooledToken
      /\ outstanding[t] \in Int /\ paidAhead[t] \in Int
      /\ unclaimedAccumulatedProtocolFees[t] \in Nat
  BY PoolFacts
<1>2. now \in Nat /\ now <= now
  BY <1>1 DEF TypeOK
<1>3. pooledTokens[t].lastLpFeeUpdate <= now
  BY <1>1 DEF PoolOK
<1>4. PICK q \in PooledToken :
        /\ pooledTokens' = [pooledTokens EXCEPT ![t] = q]
        /\ q.liquidReserves = pooledTokens[t].liquidReserves
        /\ q.utilizedReserves = pooledTokens[t].utilizedReserves
        /\ q.undistributedLpFees = pooledTokens[t].undistributedLpFees
        /\ q.lastLpFeeUpdate <= now
  <2> DEFINE p == pooledTokens[t]
             since == IF p.lpToken THEN p.lastLpFeeUpdate ELSE now
             on == [p EXCEPT !.isEnabled = TRUE, !.lpToken = TRUE, !.lastLpFeeUpdate = since]
             off == [p EXCEPT !.isEnabled = FALSE]
  <2>1. p \in PooledToken /\ since \in Nat /\ since <= now
    BY <1>1, <1>2, <1>3 DEF PooledToken
  <2>2. \/ pooledTokens' = [pooledTokens EXCEPT ![t] = on]
        \/ pooledTokens' = [pooledTokens EXCEPT ![t] = off]
    BY DEF EnableL1TokenForLiquidityProvision, DisableL1TokenForLiquidityProvision
  <2>3. p.lastLpFeeUpdate <= now
    BY <1>3
  <2> HIDE DEF p, since
  <2>4. /\ on \in PooledToken
        /\ on.liquidReserves = p.liquidReserves /\ on.utilizedReserves = p.utilizedReserves
        /\ on.undistributedLpFees = p.undistributedLpFees /\ on.lastLpFeeUpdate = since
    BY <2>1 DEF PooledToken
  <2>5. /\ off \in PooledToken
        /\ off.liquidReserves = p.liquidReserves /\ off.utilizedReserves = p.utilizedReserves
        /\ off.undistributedLpFees = p.undistributedLpFees
        /\ off.lastLpFeeUpdate = p.lastLpFeeUpdate
    BY <2>1 DEF PooledToken
  <2> HIDE DEF on, off
  <2> QED BY <2>1, <2>2, <2>3, <2>4, <2>5 DEF p
<1>5. /\ q.liquidReserves + q.utilizedReserves
           = held[t] - BondHeld(t) + outstanding[t] - unclaimedAccumulatedProtocolFees[t]
      /\ q.liquidReserves = held[t] - BondHeld(t) + paidAhead[t]
      /\ LpValue(q) >= 0
  BY <1>1, <1>4 DEF PoolOK, LpValue
<1>6. /\ held' = [held EXCEPT ![t] = held[t]]
      /\ outstanding' = [outstanding EXCEPT ![t] = outstanding[t]]
      /\ paidAhead' = [paidAhead EXCEPT ![t] = paidAhead[t]]
      /\ unclaimedAccumulatedProtocolFees'
           = [unclaimedAccumulatedProtocolFees EXCEPT
                ![t] = unclaimedAccumulatedProtocolFees[t]]
  BY PoolFacts DEF EnableL1TokenForLiquidityProvision, DisableL1TokenForLiquidityProvision
<1>7. UNCHANGED <<now, configVars, bundleVars>>
  BY DEF EnableL1TokenForLiquidityProvision, DisableL1TokenForLiquidityProvision
<1>8. pooledTokens' = [pooledTokens EXCEPT ![t] = q] /\ q.lastLpFeeUpdate <= now
  BY <1>4
<1> QED BY <1>1, <1>5, <1>6, <1>7, <1>8, PoolStep

\* A haircut takes no more than the providers have.
LEMMA HaircutStep ==
  ASSUME IInv, NEW t \in Token, NEW amount \in Haircuts, HaircutReserves(t, amount)
  PROVE  IInv'
<1> DEFINE p == pooledTokens[t]
           u == p.utilizedReserves - amount
           q == [p EXCEPT !.utilizedReserves = u]
           o == outstanding[t] - amount
<1>1. /\ PoolOK(t) /\ BondHeld(t) \in Nat /\ held[t] \in Nat
      /\ p \in PooledToken
      /\ outstanding[t] \in Int /\ paidAhead[t] \in Int
      /\ unclaimedAccumulatedProtocolFees[t] \in Nat
  BY PoolFacts
<1>2. amount \in Int
  BY HubAssumption
<1>3. /\ p.liquidReserves \in Nat /\ p.utilizedReserves \in Int
      /\ p.undistributedLpFees \in Nat
  BY <1>1 DEF PooledToken
<1>4. u \in Int /\ o \in Int
  BY <1>1, <1>2, <1>3
<1>5. /\ pooledTokens' = [pooledTokens EXCEPT ![t] = q]
      /\ outstanding' = [outstanding EXCEPT ![t] = o]
      /\ amount <= LpValue(p)
  BY DEF HaircutReserves
<1>6. /\ q \in PooledToken
      /\ q.liquidReserves = p.liquidReserves
      /\ q.utilizedReserves = u
      /\ q.undistributedLpFees = p.undistributedLpFees
      /\ q.lastLpFeeUpdate = p.lastLpFeeUpdate
  <2> HIDE DEF u, p
  <2> QED BY <1>1, <1>4 DEF PooledToken
<1> HIDE DEF q
<1>7. /\ q.liquidReserves + q.utilizedReserves
           = held[t] - BondHeld(t) + o - unclaimedAccumulatedProtocolFees[t]
      /\ q.liquidReserves = held[t] - BondHeld(t) + paidAhead[t]
      /\ LpValue(q) >= 0
      /\ q.lastLpFeeUpdate <= now
  <2>1. /\ p.liquidReserves + p.utilizedReserves
             = held[t] - BondHeld(t) + outstanding[t] - unclaimedAccumulatedProtocolFees[t]
        /\ p.liquidReserves = held[t] - BondHeld(t) + paidAhead[t]
        /\ p.lastLpFeeUpdate <= now
    BY <1>1 DEF PoolOK
  <2>2. LpValue(q) >= 0
    BY <1>2, <1>3, <1>5, <1>6 DEF LpValue
  <2>3. q.liquidReserves + q.utilizedReserves
          = (p.liquidReserves + p.utilizedReserves) - amount
    BY <1>2, <1>3, <1>6
  <2> HIDE DEF p
  <2> QED BY <1>1, <1>2, <1>6, <2>1, <2>2, <2>3
<1>8. /\ held' = [held EXCEPT ![t] = held[t]]
      /\ paidAhead' = [paidAhead EXCEPT ![t] = paidAhead[t]]
      /\ unclaimedAccumulatedProtocolFees'
           = [unclaimedAccumulatedProtocolFees EXCEPT
                ![t] = unclaimedAccumulatedProtocolFees[t]]
  BY PoolFacts DEF HaircutReserves
<1>9. UNCHANGED <<now, configVars, bundleVars>>
  BY DEF HaircutReserves
<1>10. pooledTokens' = [pooledTokens EXCEPT ![t] = q]
  BY <1>5
<1>11. outstanding' = [outstanding EXCEPT ![t] = o]
  BY <1>5
<1> HIDE DEF p, u, o
<1> QED BY <1>1, <1>4, <1>6, <1>7, <1>8, <1>9, <1>10, <1>11, PoolStep

\* What arrives is no longer outstanding.
LEMMA ReceiveStep ==
  ASSUME IInv, NEW t \in Token, NEW n \in Returns, ReceiveTokens(t, n)
  PROVE  IInv'
<1> DEFINE q == pooledTokens[t]
           h == held[t] + n
           o == outstanding[t] - n
           cl == paidAhead[t] - n
<1>1. /\ PoolOK(t) /\ BondHeld(t) \in Nat /\ held[t] \in Nat
      /\ q \in PooledToken
      /\ outstanding[t] \in Int /\ paidAhead[t] \in Int
      /\ unclaimedAccumulatedProtocolFees[t] \in Nat
  BY PoolFacts
<1>2. n \in Nat
  BY HubAssumption
<1>3. h \in Nat /\ o \in Int /\ cl \in Int
  BY <1>1, <1>2
<1>4. /\ held' = [held EXCEPT ![t] = h]
      /\ outstanding' = [outstanding EXCEPT ![t] = o]
      /\ paidAhead' = [paidAhead EXCEPT ![t] = cl]
  BY DEF ReceiveTokens
<1>5. q.liquidReserves \in Nat /\ q.utilizedReserves \in Int
  BY <1>1 DEF PooledToken
<1>6. /\ q.liquidReserves + q.utilizedReserves
           = h - BondHeld(t) + o - unclaimedAccumulatedProtocolFees[t]
      /\ LpValue(q) >= 0
      /\ q.liquidReserves = h - BondHeld(t) + cl
      /\ q.lastLpFeeUpdate <= now
  BY <1>1, <1>2, <1>5 DEF PoolOK
<1>7. /\ pooledTokens' = [pooledTokens EXCEPT ![t] = q]
      /\ unclaimedAccumulatedProtocolFees'
           = [unclaimedAccumulatedProtocolFees EXCEPT
                ![t] = unclaimedAccumulatedProtocolFees[t]]
  BY PoolFacts DEF ReceiveTokens
<1>8. UNCHANGED <<now, configVars, bundleVars>>
  BY DEF ReceiveTokens
<1> HIDE DEF q, h, o, cl
<1> QED BY <1>1, <1>3, <1>4, <1>6, <1>7, <1>8, PoolStep
-----------------------------------------------------------------------------
(* The steps on bundles. *)

\* Marking what became of a proposal keeps the list of proposals.
LEMMA FateTyped ==
  ASSUME proposals \in Seq(Proposal), NEW fate \in {"done", "disputed", "cancelled", "deleted"},
         SetFate(fate)
  PROVE  proposals' \in Seq(Proposal)
<1> DEFINE n == Len(proposals)
<1>1. n \in Nat /\ DOMAIN proposals = 1 .. n /\ \A i \in 1 .. n : proposals[i] \in Proposal
  BY ElementOfSeq, LenProperties
<1>2. proposals' = [i \in 1 .. n |->
                      IF i = n THEN [proposals[n] EXCEPT !.fate = fate] ELSE proposals[i]]
  BY <1>1 DEF SetFate
<1> HIDE DEF n
<1>3. n \in 1 .. n => [proposals[n] EXCEPT !.fate = fate] \in Proposal
  BY <1>1 DEF Proposal
<1>4. proposals' \in [1 .. n -> Proposal]
  BY <1>1, <1>2, <1>3
<1> QED BY <1>1, <1>4, SeqDef

\* A step that moves a bond and nothing else.
LEMMA BondStep ==
  ASSUME IInv, TypeOK',
         UNCHANGED <<now, pooledTokens, outstanding, paidAhead, unclaimedAccumulatedProtocolFees>>,
         \A t \in Token : held'[t] - BondHeld(t)' = held[t] - BondHeld(t)
  PROVE  \A t \in Token : PoolOK(t)'
<1> SUFFICES ASSUME NEW t \in Token PROVE PoolOK(t)'
  OBVIOUS
<1>1. PoolOK(t) /\ BondHeld(t) \in Nat /\ held[t] \in Nat
  BY PoolFacts
<1>2. BondHeld(t)' \in Nat /\ held'[t] \in Nat
  BY DEF TypeOK, BondHeld, BondTerms
<1>3. held'[t] - BondHeld(t)' = held[t] - BondHeld(t)
  OBVIOUS
<1> QED BY <1>1, <1>2, <1>3 DEF PoolOK, LpValue

\* A proposal brings its bond.
LEMMA ProposeStep ==
  ASSUME IInv, NEW w \in Worker, NEW b \in Bundle, ProposeRootBundle(w, b)
  PROVE  IInv'
<1>1. TypeOK /\ ~ActiveRequest
  BY DEF IInv, ProposeRootBundle
<1>2. bond.token \in Token /\ bond.amount \in Nat /\ held \in [Token -> Nat]
  BY <1>1 DEF TypeOK, BondTerms
<1>3. b.leafCount \in Nat \ {0}
  BY HubAssumption
<1>4. now + liveness \in Nat
  BY <1>1 DEF TypeOK
<1>5. rootBundleProposal' \in RootBundle
  BY <1>3, <1>4 DEF ProposeRootBundle, RootBundle
<1>6. held' \in [Token -> Nat]
  BY <1>2 DEF ProposeRootBundle
<1>7. proposals' \in Seq(Proposal)
  <2>1. [bundle |-> b, fate |-> "open", executed |-> {}, calls |-> 0] \in Proposal
    BY DEF Proposal
  <2>2. proposals \in Seq(Proposal)
    BY <1>1 DEF TypeOK
  <2> QED BY <2>1, <2>2, AppendProperties DEF ProposeRootBundle
<1>8. UNCHANGED <<now, configVars, pooledTokens, outstanding, paidAhead,
                  unclaimedAccumulatedProtocolFees, bond>>
  BY DEF ProposeRootBundle
<1>9. TypeOK'
  BY <1>1, <1>5, <1>6, <1>7, <1>8 DEF TypeOK, configVars
<1>10. ActiveRequest'
  BY <1>3 DEF ProposeRootBundle, ActiveRequest
<1>11. ASSUME NEW t \in Token
       PROVE  held'[t] - BondHeld(t)' = held[t] - BondHeld(t)
  <2>1. BondHeld(t) = 0
    BY <1>1 DEF BondHeld
  <2>2. BondHeld(t)' = IF t = bond.token THEN bond.amount ELSE 0
    BY <1>8, <1>10 DEF BondHeld
  <2>3. held'[t] = IF t = bond.token THEN held[t] + bond.amount ELSE held[t]
    BY <1>2 DEF ProposeRootBundle
  <2> QED BY <1>2, <2>1, <2>2, <2>3
<1>12. \A t \in Token : PoolOK(t)'
  BY <1>8, <1>9, <1>11, BondStep
<1> QED BY <1>9, <1>10, <1>12 DEF IInv, NoLateDispute

\* No proposal, no bond, and no dispute.
LEMMA NoProposalFacts ==
  ASSUME TypeOK, now' = now, rootBundleProposal' = NoProposal
  PROVE  rootBundleProposal' \in RootBundle /\ ~ActiveRequest' /\ NoLateDispute'
BY DEF NoProposal, RootBundle, ActiveRequest, NoLateDispute, TypeOK

\* A dispute takes the bond of the open proposal: there is one, or it is too
\* late to dispute.
LEMMA DisputeStep ==
  ASSUME IInv, NEW finalFee \in FinalFees, NEW refused \in BOOLEAN,
         DisputeRootBundle(finalFee, refused)
  PROVE  IInv'
<1>1. TypeOK
  BY DEF IInv
<1>2. /\ now \in Nat /\ rootBundleProposal.challengePeriodEndTimestamp \in Nat
      /\ bond.token \in Token /\ bond.amount \in Nat /\ held \in [Token -> Nat]
  BY <1>1 DEF TypeOK, BondTerms, RootBundle
<1>3. ActiveRequest
  <2>1. now <= rootBundleProposal.challengePeriodEndTimestamp
    BY DEF DisputeRootBundle
  <2> QED BY <1>2, <2>1 DEF IInv, NoLateDispute
<1>4. /\ UNCHANGED <<now, configVars, pooledTokens, outstanding, paidAhead,
                     unclaimedAccumulatedProtocolFees, bond>>
      /\ rootBundleProposal' = NoProposal
      /\ held[bond.token] >= bond.amount
      /\ held' = [held EXCEPT ![bond.token] = @ - bond.amount]
  BY DEF DisputeRootBundle
<1>5. rootBundleProposal' \in RootBundle /\ ~ActiveRequest' /\ NoLateDispute'
  BY <1>1, <1>4, NoProposalFacts
<1>6. held[bond.token] - bond.amount \in Nat
  BY <1>2, <1>4
<1>7. held' \in [Token -> Nat]
  BY <1>2, <1>4, <1>6
<1>8. proposals' \in Seq(Proposal)
  BY <1>1, FateTyped DEF DisputeRootBundle, TypeOK
<1>9. TypeOK'
  BY <1>1, <1>4, <1>5, <1>7, <1>8 DEF TypeOK, configVars
<1>10. ASSUME NEW t \in Token
       PROVE  held'[t] - BondHeld(t)' = held[t] - BondHeld(t)
  <2>1. BondHeld(t)' = 0
    BY <1>5 DEF BondHeld
  <2>2. BondHeld(t) = IF t = bond.token THEN bond.amount ELSE 0
    BY <1>3 DEF BondHeld
  <2>3. held'[t] = IF t = bond.token THEN held[t] - bond.amount ELSE held[t]
    BY <1>2, <1>4
  <2> QED BY <1>2, <2>1, <2>2, <2>3
<1>11. \A t \in Token : PoolOK(t)'
  BY <1>4, <1>9, <1>10, BondStep
<1> QED BY <1>5, <1>9, <1>11 DEF IInv

\* The owner's deletion returns the bond of an open proposal, if there is one.
LEMMA DeleteStep ==
  ASSUME IInv, EmergencyDeleteProposal
  PROVE  IInv'
<1>1. TypeOK
  BY DEF IInv
<1>2. /\ UNCHANGED <<now, configVars, pooledTokens, outstanding, paidAhead,
                     unclaimedAccumulatedProtocolFees, bond>>
      /\ rootBundleProposal' = NoProposal
      /\ \A t \in Token : held[t] >= BondHeld(t)
      /\ held' = [t \in Token |-> held[t] - BondHeld(t)]
  BY DEF EmergencyDeleteProposal, BondToReturn
<1>3. rootBundleProposal' \in RootBundle /\ ~ActiveRequest' /\ NoLateDispute'
  BY <1>1, <1>2, NoProposalFacts
<1>4. \A t \in Token : held[t] \in Nat /\ BondHeld(t) \in Nat
  BY PoolFacts
<1>5. held' \in [Token -> Nat]
  BY <1>2, <1>4
<1>6. proposals' \in Seq(Proposal)
  <2>1. CASE ActiveRequest
    BY <1>1, <2>1, FateTyped DEF EmergencyDeleteProposal, TypeOK
  <2>2. CASE ~ActiveRequest
    BY <1>1, <2>2 DEF EmergencyDeleteProposal, TypeOK
  <2> QED BY <2>1, <2>2
<1>7. TypeOK'
  BY <1>1, <1>2, <1>3, <1>5, <1>6 DEF TypeOK, configVars
<1>8. ASSUME NEW t \in Token
      PROVE  held'[t] - BondHeld(t)' = held[t] - BondHeld(t)
  <2>1. BondHeld(t)' = 0
    BY <1>3 DEF BondHeld
  <2>2. held'[t] = held[t] - BondHeld(t)
    BY <1>2
  <2>3. held[t] - BondHeld(t) \in Int
    BY <1>4
  <2> QED BY <2>1, <2>2, <2>3
<1>9. \A t \in Token : PoolOK(t)'
  BY <1>2, <1>7, <1>8, BondStep
<1> QED BY <1>3, <1>7, <1>9 DEF IInv

\* The bond is set while no bond is in the contract.
LEMMA SetBondStep ==
  ASSUME IInv, NEW b \in Bonds, NEW fee \in FinalFees, SetBond(b, fee)
  PROVE  IInv'
<1>1. TypeOK /\ NoLateDispute
  BY DEF IInv
<1>2. /\ ~ActiveRequest
      /\ UNCHANGED <<now, configVars, poolVars, rootBundleProposal, proposals>>
  BY DEF SetBond
<1>3. UNCHANGED <<pooledTokens, held, outstanding, paidAhead, unclaimedAccumulatedProtocolFees>>
  BY <1>2 DEF poolVars
<1>4. bond' \in BondTerms
  <2>1. b \in BondTerms /\ fee \in Nat
    BY HubAssumption
  <2>2. b.amount + fee \in Nat
    BY <2>1 DEF BondTerms
  <2> QED BY <2>1, <2>2 DEF SetBond, BondTerms
<1>5. TypeOK'
  BY <1>1, <1>2, <1>3, <1>4 DEF TypeOK, configVars
<1>6. ~ActiveRequest' /\ NoLateDispute'
  BY <1>1, <1>2 DEF ActiveRequest, NoLateDispute
<1>7. ASSUME NEW t \in Token
      PROVE  held'[t] - BondHeld(t)' = held[t] - BondHeld(t)
  BY <1>2, <1>3, <1>6 DEF BondHeld
<1>8. \A t \in Token : PoolOK(t)'
  BY <1>2, <1>3, <1>5, <1>7, BondStep
<1> QED BY <1>5, <1>6, <1>8 DEF IInv

\* What a leaf moves and books is an amount, and the protocol's part of the
\* fees leaves the rest to the providers.
LEMMA LeafFacts ==
  ASSUME TypeOK, NEW leaf \in LeavesOf(rootBundleProposal.bundle), NEW t \in Token
  PROVE  /\ leaf.leafId \in LeafId
         /\ Sent(leaf, t) \in Nat
         /\ Fees(leaf, t) \in Nat
         /\ ProtocolFees(leaf, t) \in 0 .. Fees(leaf, t)
<1>1. rootBundleProposal.bundle \in Bundle
  BY DEF TypeOK, RootBundle, LeavesOf
<1>2. leaf \in PoolRebalanceLeaf
  BY <1>1, HubAssumption DEF LeavesOf
<1>3. /\ leaf.leafId \in LeafId
      /\ leaf.netSendAmounts[t] \in Int /\ leaf.bundleLpFees[t] \in Nat
  BY <1>2 DEF PoolRebalanceLeaf
<1>4. Sent(leaf, t) \in Nat
  BY <1>3 DEF Sent
<1>5. Fees(leaf, t) \in Nat
  BY <1>3 DEF Fees
<1>6. protocolFeeCapturePct \in 0 .. ONE
  BY DEF TypeOK
<1> QED BY <1>3, <1>4, <1>5, <1>6, ShareBound DEF ProtocolFees

\* One token of a leaf: what is sent moves from the liquid to the utilized
\* reserves, the providers' fees are utilized until they come back.
LEMMA RebalancedFacts ==
  ASSUME TypeOK, NEW leaf \in LeavesOf(rootBundleProposal.bundle), NEW t \in Token,
         Sent(leaf, t) <= pooledTokens[t].liquidReserves,
         NEW q, q = Rebalanced(leaf, t, pooledTokens[t])
  PROVE  /\ q \in PooledToken
         /\ q.liquidReserves = pooledTokens[t].liquidReserves - Sent(leaf, t)
         /\ q.utilizedReserves = pooledTokens[t].utilizedReserves + Sent(leaf, t)
                                   + (Fees(leaf, t) - ProtocolFees(leaf, t))
         /\ q.undistributedLpFees = pooledTokens[t].undistributedLpFees
                                      + (Fees(leaf, t) - ProtocolFees(leaf, t))
         /\ q.lastLpFeeUpdate = pooledTokens[t].lastLpFeeUpdate
<1> DEFINE p == pooledTokens[t]
           u == p.utilizedReserves + Sent(leaf, t)
           l == p.liquidReserves - Sent(leaf, t)
           fees == Fees(leaf, t) - ProtocolFees(leaf, t)
           r == [p EXCEPT !.utilizedReserves = u, !.liquidReserves = l]
           f == r.undistributedLpFees + fees
           v == r.utilizedReserves + fees
<1>1. /\ p \in PooledToken
      /\ p.liquidReserves \in Nat /\ p.utilizedReserves \in Int /\ p.undistributedLpFees \in Nat
  BY DEF TypeOK, PooledToken
<1>2. Sent(leaf, t) \in Nat /\ fees \in Nat
  BY LeafFacts
<1>3. u \in Int /\ l \in Nat
  BY <1>1, <1>2
<1>4. q = [r EXCEPT !.undistributedLpFees = f, !.utilizedReserves = v]
  BY DEF Rebalanced, AllocateLpFees
<1>5. /\ r \in PooledToken
      /\ r.liquidReserves = l /\ r.utilizedReserves = u
      /\ r.undistributedLpFees = p.undistributedLpFees
      /\ r.lastLpFeeUpdate = p.lastLpFeeUpdate
  <2> HIDE DEF p, u, l
  <2> QED BY <1>1, <1>3 DEF PooledToken
<1>6. f \in Nat /\ v \in Int
  <2> HIDE DEF r, fees, u, l
  <2> QED BY <1>1, <1>2, <1>3, <1>5
<1>7. /\ q \in PooledToken
      /\ q.liquidReserves = r.liquidReserves /\ q.utilizedReserves = v
      /\ q.undistributedLpFees = f /\ q.lastLpFeeUpdate = r.lastLpFeeUpdate
  <2> HIDE DEF r, f, v
  <2> QED BY <1>4, <1>5, <1>6 DEF PooledToken
<1>8. v = u + fees /\ f = p.undistributedLpFees + fees
  <2> HIDE DEF r
  <2> QED BY <1>5
<1> HIDE DEF r, f, v
<1> QED BY <1>5, <1>7, <1>8

\* The bond leaves with the last leaf.
LEMMA BondAfterLeaf ==
  ASSUME IInv, NEW leaf \in LeavesOf(rootBundleProposal.bundle), ExecuteRootBundle(leaf),
         NEW t \in Token
  PROVE  /\ BondHeld(t)' \in Nat /\ BondReturned(t) \in Nat
         /\ BondHeld(t)' = BondHeld(t) - BondReturned(t)
<1> DEFINE n == rootBundleProposal.unclaimedPoolRebalanceLeafCount
<1>1. TypeOK /\ n \in Nat /\ n # 0 /\ BondHeld(t) \in Nat
  BY PoolFacts DEF TypeOK, RootBundle, ExecuteRootBundle, ActiveRequest
<1>2. rootBundleProposal'.unclaimedPoolRebalanceLeafCount = n - 1 /\ bond' = bond
  BY <1>1 DEF ExecuteRootBundle, TypeOK, RootBundle
<1>3. CASE n = 1
  <2>1. BondHeld(t)' = 0
    BY <1>2, <1>3 DEF BondHeld, ActiveRequest
  <2>2. BondReturned(t) = BondHeld(t)
    BY <1>3 DEF BondReturned
  <2> QED BY <1>1, <2>1, <2>2
<1>4. CASE n # 1
  <2>1. BondHeld(t)' = BondHeld(t)
    BY <1>1, <1>2, <1>4 DEF BondHeld, ActiveRequest
  <2>2. BondReturned(t) = 0
    BY <1>4 DEF BondReturned
  <2> QED BY <1>1, <2>1, <2>2
<1> QED BY <1>3, <1>4

\* A leaf keeps the invariant: the bundle is past its challenge period, so the
\* proposal that it may finish can be disputed no more.
LEMMA ExecuteStep ==
  ASSUME IInv, NEW leaf \in LeavesOf(rootBundleProposal.bundle), ExecuteRootBundle(leaf)
  PROVE  IInv'
<1> DEFINE kept == [t \in Token |-> held[t] - Sent(leaf, t) - BondReturned(t)]
           count == rootBundleProposal.unclaimedPoolRebalanceLeafCount
<1>1. TypeOK
  BY DEF IInv
<1>2. /\ UNCHANGED <<now, configVars, paidAhead, bond>>
      /\ now > rootBundleProposal.challengePeriodEndTimestamp
      /\ ActiveRequest
      /\ \A t \in Token : Sent(leaf, t) <= pooledTokens[t].liquidReserves /\ kept[t] >= 0
      /\ rootBundleProposal' =
           [rootBundleProposal EXCEPT
              !.claimedBitMap = rootBundleProposal.claimedBitMap \cup {leaf.leafId},
              !.unclaimedPoolRebalanceLeafCount = @ - 1]
      /\ pooledTokens' = [t \in Token |-> Rebalanced(leaf, t, pooledTokens[t])]
      /\ unclaimedAccumulatedProtocolFees' =
           [t \in Token |-> unclaimedAccumulatedProtocolFees[t] + ProtocolFees(leaf, t)]
      /\ held' = kept
      /\ outstanding' = [t \in Token |-> outstanding[t] + Sent(leaf, t) + Fees(leaf, t)]
  BY DEF ExecuteRootBundle, PassedLiveness, SetClaimed
<1>3. /\ rootBundleProposal' \in RootBundle
      /\ rootBundleProposal'.challengePeriodEndTimestamp
           = rootBundleProposal.challengePeriodEndTimestamp
  <2> DEFINE r == rootBundleProposal
             set == r.claimedBitMap \cup {leaf.leafId}
             m == count - 1
  <2>1. r \in RootBundle /\ set \in SUBSET LeafId /\ m \in Nat
    <3>1. r \in RootBundle /\ count \in Nat /\ r.claimedBitMap \in SUBSET LeafId
      BY <1>1 DEF TypeOK, RootBundle
    <3>2. leaf.leafId \in LeafId
      <4>1. bond.token \in Token
        BY <1>1 DEF TypeOK, BondTerms
      <4> QED BY <1>1, <4>1, LeafFacts
    <3>3. count # 0
      BY <1>2 DEF ActiveRequest
    <3> QED BY <3>1, <3>2, <3>3
  <2>2. rootBundleProposal' = [r EXCEPT !.claimedBitMap = set,
                                        !.unclaimedPoolRebalanceLeafCount = m]
    BY <1>2
  <2> HIDE DEF set, m, count
  <2> QED BY <2>1, <2>2 DEF RootBundle
<1>4. NoLateDispute'
  BY <1>2, <1>3 DEF NoLateDispute
<1>5. \A t \in Token :
        /\ Sent(leaf, t) \in Nat /\ Fees(leaf, t) \in Nat
        /\ ProtocolFees(leaf, t) \in 0 .. Fees(leaf, t)
        /\ BondReturned(t) \in Nat
        /\ BondHeld(t)' = BondHeld(t) - BondReturned(t)
  BY <1>1, LeafFacts, BondAfterLeaf
<1>6. held' \in [Token -> Nat]
  <2>1. \A t \in Token : kept[t] \in Int
    BY <1>1, <1>5 DEF TypeOK
  <2> QED BY <1>2, <2>1
<1>7. pooledTokens' \in [Token -> PooledToken]
  BY <1>1, <1>2, RebalancedFacts
<1>8. unclaimedAccumulatedProtocolFees' \in [Token -> Nat] /\ outstanding' \in [Token -> Int]
  <2>1. ASSUME NEW t \in Token
        PROVE  unclaimedAccumulatedProtocolFees[t] + ProtocolFees(leaf, t) \in Nat
    <3>1. unclaimedAccumulatedProtocolFees[t] \in Nat
      BY <1>1 DEF TypeOK
    <3>2. ProtocolFees(leaf, t) \in Nat
      BY <1>5
    <3> QED BY <3>1, <3>2
  <2>2. ASSUME NEW t \in Token
        PROVE  outstanding[t] + Sent(leaf, t) + Fees(leaf, t) \in Int
    <3>1. outstanding[t] \in Int
      BY <1>1 DEF TypeOK
    <3>2. Sent(leaf, t) \in Int /\ Fees(leaf, t) \in Int
      BY <1>5
    <3> QED BY <3>1, <3>2
  <2> QED BY <1>2, <2>1, <2>2
<1>9. proposals' \in Seq(Proposal)
  <2> DEFINE n == Len(proposals)
             last == WithLeaf(proposals[n], leaf.leafId)
  <2>1. n \in Nat /\ DOMAIN proposals = 1 .. n /\ \A i \in 1 .. n : proposals[i] \in Proposal
    BY <1>1, ElementOfSeq, LenProperties DEF TypeOK
  <2>2. proposals' = [i \in 1 .. n |-> IF i = n THEN last ELSE proposals[i]]
    BY <2>1 DEF ExecuteRootBundle
  <2>3. leaf.leafId \in LeafId
    <3>1. bond.token \in Token
      BY <1>1 DEF TypeOK, BondTerms
    <3> QED BY <1>1, <3>1, LeafFacts
  <2>4. ASSUME NEW h \in Proposal
        PROVE  WithLeaf(h, leaf.leafId) \in Proposal
    <3>1. /\ h.executed \cup {leaf.leafId} \in SUBSET LeafId
          /\ h.calls + 1 \in Nat
          /\ h.fate \in {"open", "done", "disputed", "cancelled", "deleted"}
      BY <2>3 DEF Proposal
    <3> QED BY <3>1 DEF WithLeaf, Proposal
  <2> HIDE DEF n
  <2>5. n \in 1 .. n => last \in Proposal
    BY <2>1, <2>4
  <2> HIDE DEF last
  <2>6. proposals' \in [1 .. n -> Proposal]
    BY <2>1, <2>2, <2>5
  <2> QED BY <2>1, <2>6, SeqDef
<1>10. TypeOK'
  BY <1>1, <1>2, <1>3, <1>6, <1>7, <1>8, <1>9 DEF TypeOK, configVars
<1>11. ASSUME NEW t \in Token
       PROVE  PoolOK(t)'
  <2> DEFINE q == Rebalanced(leaf, t, pooledTokens[t])
             sent == Sent(leaf, t)
             fees == Fees(leaf, t)
             part == ProtocolFees(leaf, t)
             back == BondReturned(t)
  <2>1. /\ q \in PooledToken
        /\ q.liquidReserves = pooledTokens[t].liquidReserves - sent
        /\ q.utilizedReserves = pooledTokens[t].utilizedReserves + sent + (fees - part)
        /\ q.undistributedLpFees = pooledTokens[t].undistributedLpFees + (fees - part)
        /\ q.lastLpFeeUpdate = pooledTokens[t].lastLpFeeUpdate
    BY <1>1, <1>2, RebalancedFacts
  <2>2. /\ pooledTokens'[t] = q
        /\ held'[t] = held[t] - sent - back
        /\ outstanding'[t] = outstanding[t] + sent + fees
        /\ unclaimedAccumulatedProtocolFees'[t] = unclaimedAccumulatedProtocolFees[t] + part
        /\ paidAhead'[t] = paidAhead[t] /\ now' = now
    BY <1>2
  <2>3. /\ PoolOK(t) /\ BondHeld(t) \in Nat /\ held[t] \in Nat
        /\ outstanding[t] \in Int /\ paidAhead[t] \in Int
        /\ unclaimedAccumulatedProtocolFees[t] \in Nat
        /\ pooledTokens[t] \in PooledToken
    BY PoolFacts
  <2>4. /\ sent \in Nat /\ fees \in Nat /\ part \in Nat /\ part <= fees /\ back \in Nat
        /\ BondHeld(t)' = BondHeld(t) - back
    BY <1>5
  <2>5. /\ pooledTokens[t].liquidReserves \in Nat /\ pooledTokens[t].utilizedReserves \in Int
        /\ pooledTokens[t].undistributedLpFees \in Nat
    BY <2>3 DEF PooledToken
  <2> HIDE DEF q, sent, fees, part, back
  <2>6. q.liquidReserves + q.utilizedReserves
          = held'[t] - BondHeld(t)' + outstanding'[t] - unclaimedAccumulatedProtocolFees'[t]
    <3>1. pooledTokens[t].liquidReserves + pooledTokens[t].utilizedReserves
            = held[t] - BondHeld(t) + outstanding[t] - unclaimedAccumulatedProtocolFees[t]
      BY <2>3 DEF PoolOK
    <3>2. q.liquidReserves + q.utilizedReserves
            = (pooledTokens[t].liquidReserves + pooledTokens[t].utilizedReserves) + (fees - part)
      BY <2>1, <2>4, <2>5
    <3>3. held'[t] - BondHeld(t)' = held[t] - BondHeld(t) - sent
      BY <2>2, <2>3, <2>4
    <3>4. outstanding'[t] - unclaimedAccumulatedProtocolFees'[t]
            = (outstanding[t] - unclaimedAccumulatedProtocolFees[t]) + sent + (fees - part)
      BY <2>2, <2>3, <2>4
    <3>5. /\ held'[t] \in Int /\ BondHeld(t)' \in Int
          /\ outstanding'[t] \in Int /\ unclaimedAccumulatedProtocolFees'[t] \in Int
      BY <2>2, <2>3, <2>4
    <3> QED BY <2>3, <2>4, <3>1, <3>2, <3>3, <3>4, <3>5
  <2>7. LpValue(q) >= 0
    BY <2>1, <2>3, <2>4, <2>5 DEF PoolOK, LpValue
  <2>8. q.liquidReserves = held'[t] - BondHeld(t)' + paidAhead'[t]
    BY <2>1, <2>2, <2>3, <2>4, <2>5 DEF PoolOK
  <2>9. q.lastLpFeeUpdate <= now'
    BY <2>1, <2>2, <2>3 DEF PoolOK
  <2>10. LpValue(pooledTokens[t])' = LpValue(q)
    BY <2>2 DEF LpValue
  <2> QED BY <2>2, <2>6, <2>7, <2>8, <2>9, <2>10 DEF PoolOK
<1> QED BY <1>4, <1>10, <1>11 DEF IInv
-----------------------------------------------------------------------------
(* The theorems. *)

\* The types of the owner's settings.
ConfigOK ==
  /\ paused \in BOOLEAN /\ protocolFeeCapturePct \in 0 .. ONE /\ liveness \in Nat
  /\ poolRebalanceRoutes \subseteq Token \X Chain /\ crossChainContracts \subseteq Chain

\* The owner's settings and the clock.
LEMMA ConfigureStep ==
  ASSUME IInv, Configure \/ Tick
  PROVE  IInv'
<1>1. TypeOK /\ NoLateDispute
  BY DEF IInv
<1>2. UNCHANGED <<poolVars, bundleVars>>
  BY DEF Configure, Tick
<1>3. /\ pooledTokens' = pooledTokens /\ held' = held /\ outstanding' = outstanding
      /\ paidAhead' = paidAhead
      /\ unclaimedAccumulatedProtocolFees' = unclaimedAccumulatedProtocolFees
      /\ rootBundleProposal' = rootBundleProposal /\ bond' = bond /\ proposals' = proposals
  BY <1>2 DEF poolVars, bundleVars
<1>4. now' \in Nat \ {0} /\ now' >= now
  BY <1>1 DEF Configure, Tick, TypeOK
<1>5. ConfigOK'
  <2>1. CASE Tick
    BY <1>1, <2>1 DEF Tick, configVars, TypeOK, ConfigOK
  <2>2. ASSUME NEW pause \in BOOLEAN, SetPaused(pause)
        PROVE  ConfigOK'
    BY <1>1, <2>2 DEF SetPaused, TypeOK, ConfigOK
  <2>3. ASSUME NEW pct \in FeePcts, SetProtocolFeeCapture(pct)
        PROVE  ConfigOK'
    BY <1>1, <2>3, HubAssumption DEF SetProtocolFeeCapture, TypeOK, ConfigOK
  <2>4. ASSUME NEW l \in Livenesses, SetLiveness(l)
        PROVE  ConfigOK'
    BY <1>1, <2>4, HubAssumption DEF SetLiveness, TypeOK, ConfigOK
  <2>5. ASSUME NEW r \in RouteChanges, NEW set \in BOOLEAN,
               SetPoolRebalanceRoute(r[1], r[2], set)
        PROVE  ConfigOK'
    BY <1>1, <2>5, HubAssumption DEF SetPoolRebalanceRoute, TypeOK, ConfigOK
  <2>6. ASSUME NEW c \in ChainChanges, NEW set \in BOOLEAN, SetCrossChainContracts(c, set)
        PROVE  ConfigOK'
    BY <1>1, <2>6, HubAssumption DEF SetCrossChainContracts, TypeOK, ConfigOK
  <2> QED BY <2>1, <2>2, <2>3, <2>4, <2>5, <2>6 DEF Configure
<1>6. TypeOK'
  BY <1>1, <1>3, <1>4, <1>5 DEF TypeOK, ConfigOK
<1>7. NoLateDispute'
  BY <1>1, <1>3, <1>4 DEF NoLateDispute, ActiveRequest, TypeOK, RootBundle
<1>8. ASSUME NEW t \in Token
      PROVE  PoolOK(t)'
  <2>1. PoolOK(t) /\ pooledTokens[t] \in PooledToken
    BY PoolFacts
  <2>2. BondHeld(t)' = BondHeld(t)
    BY <1>2, BondStays
  <2>3. pooledTokens[t].lastLpFeeUpdate <= now'
    BY <1>1, <1>4, <2>1 DEF PoolOK, TypeOK, PooledToken
  <2> QED BY <1>3, <2>1, <2>2, <2>3 DEF PoolOK, LpValue
<1> QED BY <1>6, <1>7, <1>8 DEF IInv

\* The invariant holds of a new HubPool.
LEMMA InitInvariant == Init => IInv
<1> SUFFICES ASSUME Init PROVE IInv
  OBVIOUS
<1>1. rootBundleProposal \in RootBundle /\ ~ActiveRequest
  BY DEF Init, NoProposal, RootBundle, ActiveRequest
<1>2. NewPool \in PooledToken
  BY DEF NewPool, PooledToken
<1>3. proposals \in Seq(Proposal)
  BY DEF Init
<1>4. bond \in BondTerms /\ liveness \in Nat /\ 0 \in 0 .. ONE
  BY HubAssumption DEF Init
<1>5. TypeOK
  <2>1. now \in Nat \ {0} /\ protocolFeeCapturePct \in 0 .. ONE
    BY <1>4 DEF Init
  <2>2. pooledTokens \in [Token -> PooledToken]
    BY <1>2 DEF Init
  <2>3. /\ unclaimedAccumulatedProtocolFees \in [Token -> Nat] /\ held \in [Token -> Nat]
        /\ outstanding \in [Token -> Int] /\ paidAhead \in [Token -> Int]
    BY DEF Init
  <2>4. /\ paused \in BOOLEAN
        /\ poolRebalanceRoutes \subseteq Token \X Chain /\ crossChainContracts \subseteq Chain
    BY DEF Init
  <2> QED BY <1>1, <1>3, <1>4, <2>1, <2>2, <2>3, <2>4 DEF TypeOK
<1>6. NoLateDispute
  BY DEF Init, NoProposal, NoLateDispute
<1>7. ASSUME NEW t \in Token
      PROVE  PoolOK(t)
  <2>1. BondHeld(t) = 0
    BY <1>1 DEF BondHeld
  <2> QED BY <2>1 DEF Init, NewPool, PoolOK, LpValue
<1> QED BY <1>5, <1>6, <1>7 DEF IInv

\* Every step keeps the invariant.
LEMMA NextInvariant == IInv /\ [Next]_vars => IInv'
<1> SUFFICES ASSUME IInv, [Next]_vars PROVE IInv'
  OBVIOUS
<1>1. CASE UNCHANGED vars
  BY <1>1 DEF vars, configVars, poolVars, bundleVars, IInv, TypeOK, PoolOK, NoLateDispute,
              BondHeld, ActiveRequest, LpValue
<1>2. ASSUME NEW t \in Token, NEW n \in LpAmounts, AddLiquidity(t, n) \/ RemoveLiquidity(t, n)
      PROVE  IInv'
  BY <1>2, AddLiquidityStep, RemoveLiquidityStep
<1>3. ASSUME NEW t \in Token, ReadRate(t) \/ SyncToken(t)
      PROVE  IInv'
  BY <1>3, ReadStep
<1>4. ASSUME NEW t \in Token, ClaimProtocolFeesCaptured(t)
      PROVE  IInv'
  BY <1>4, ClaimStep
<1>5. ASSUME NEW t \in Token,
             EnableL1TokenForLiquidityProvision(t) \/ DisableL1TokenForLiquidityProvision(t)
      PROVE  IInv'
  BY <1>5, EnableStep
<1>6. ASSUME NEW t \in Token, NEW h \in Haircuts, HaircutReserves(t, h)
      PROVE  IInv'
  BY <1>6, HaircutStep
<1>7. ASSUME NEW t \in Token, NEW n \in Returns, ReceiveTokens(t, n)
      PROVE  IInv'
  BY <1>7, ReceiveStep
<1>8. ASSUME NEW w \in Worker, NEW b \in Bundle, ProposeRootBundle(w, b)
      PROVE  IInv'
  BY <1>8, ProposeStep
<1>9. ASSUME NEW leaf \in LeavesOf(rootBundleProposal.bundle), ExecuteRootBundle(leaf)
      PROVE  IInv'
  BY <1>9, ExecuteStep
<1>10. ASSUME NEW fee \in FinalFees, NEW refused \in BOOLEAN, DisputeRootBundle(fee, refused)
       PROVE  IInv'
  BY <1>10, DisputeStep
<1>11. ASSUME NEW b \in Bonds, NEW fee \in FinalFees, SetBond(b, fee)
       PROVE  IInv'
  BY <1>11, SetBondStep
<1>12. CASE EmergencyDeleteProposal
  BY <1>12, DeleteStep
<1>13. CASE Configure \/ Tick
  BY <1>13, ConfigureStep
<1> QED BY <1>1, <1>2, <1>3, <1>4, <1>5, <1>6, <1>7, <1>8, <1>9, <1>10, <1>11, <1>12, <1>13
        DEF Next
-----------------------------------------------------------------------------
(* The fate of bundles. *)

\* What OneFate says of one proposal.
FateOK(p) ==
  /\ p.fate \in {"disputed", "cancelled"} => p.calls = 0
  /\ p.fate = "done" => p.calls = p.bundle.leafCount
  /\ Cardinality(p.executed) = p.calls

LastProposal == proposals[Len(proposals)]

\* The counter and the bitmap of the active proposal agree with its history,
\* and no leaf has been executed while it may be disputed.
ActiveOK ==
  ActiveRequest =>
    /\ Len(proposals) > 0
    /\ LastProposal.fate = "open"
    /\ LastProposal.executed = rootBundleProposal.claimedBitMap
    /\ LastProposal.calls + rootBundleProposal.unclaimedPoolRebalanceLeafCount
         = LastProposal.bundle.leafCount
    /\ now <= rootBundleProposal.challengePeriodEndTimestamp => LastProposal.calls = 0

FateInv == (\A i \in 1 .. Len(proposals) : FateOK(proposals[i])) /\ ActiveOK

\* The proposals are a sequence of histories with finitely many leaves each.
LEMMA ProposalFacts ==
  ASSUME TypeOK
  PROVE  /\ Len(proposals) \in Nat /\ DOMAIN proposals = 1 .. Len(proposals)
         /\ \A i \in 1 .. Len(proposals) :
              /\ proposals[i] \in Proposal
              /\ IsFiniteSet(proposals[i].executed)
<1>1. /\ Len(proposals) \in Nat /\ DOMAIN proposals = 1 .. Len(proposals)
      /\ \A i \in 1 .. Len(proposals) : proposals[i] \in Proposal
  <2>1. proposals \in Seq(Proposal)
    BY DEF TypeOK
  <2> QED BY <2>1, ElementOfSeq, LenProperties
<1>2. IsFiniteSet(LeafId)
  <2>1. 0 \in Int /\ 255 \in Int
    OBVIOUS
  <2>2. IsFiniteSet(0 .. 255)
    BY <2>1, FS_Interval
  <2> QED BY <2>2 DEF LeafId
<1>3. ASSUME NEW h \in Proposal
      PROVE  IsFiniteSet(h.executed)
  <2>1. h.executed \subseteq LeafId
    BY DEF Proposal
  <2> QED BY <1>2, <2>1, FS_Subset
<1> QED BY <1>1, <1>3

\* What leaves the proposals alone, and does not turn back the clock.
LEMMA FateUntouched ==
  ASSUME IInv, FateInv, now' \in Nat, now' >= now,
         rootBundleProposal' = rootBundleProposal, proposals' = proposals
  PROVE  FateInv'
<1>1. now \in Nat /\ rootBundleProposal.challengePeriodEndTimestamp \in Nat
  BY DEF IInv, TypeOK, RootBundle
<1> QED BY <1>1 DEF FateInv, ActiveOK, ActiveRequest, LastProposal, FateOK

\* A new proposal starts with all its leaves to be executed.
LEMMA ProposeFate ==
  ASSUME IInv, FateInv, NEW w \in Worker, NEW b \in Bundle, ProposeRootBundle(w, b)
  PROVE  FateInv'
<1> DEFINE n == Len(proposals)
           new == [bundle |-> b, fate |-> "open", executed |-> {}, calls |-> 0]
<1>1. TypeOK /\ b.leafCount \in Nat \ {0}
  BY HubAssumption DEF IInv
<1>2. n \in Nat
  BY <1>1, ProposalFacts
<1>3. /\ Len(proposals') = n + 1
      /\ proposals'[n + 1] = new
      /\ \A i \in 1 .. n : proposals'[i] = proposals[i]
  BY <1>1, AppendProperties DEF ProposeRootBundle, TypeOK
<1>4. FateOK(new)
  BY FS_EmptySet DEF FateOK
<1>5. /\ rootBundleProposal'.unclaimedPoolRebalanceLeafCount = b.leafCount
      /\ rootBundleProposal'.claimedBitMap = {}
  BY DEF ProposeRootBundle
<1>6. \A i \in 1 .. Len(proposals') : FateOK(proposals'[i])
  <2> HIDE DEF n, new
  <2> QED BY <1>2, <1>3, <1>4 DEF FateInv, n
<1>7. ActiveOK'
  <2>1. LastProposal' = new
    BY <1>3 DEF LastProposal
  <2>2. new.fate = "open" /\ new.executed = {} /\ new.bundle = b /\ new.calls = 0
    BY ONLY SMT DEF new
  <2> HIDE DEF new
  <2> QED BY <1>1, <1>2, <1>3, <1>5, <2>1, <2>2 DEF ActiveOK
<1> QED BY <1>6, <1>7 DEF FateInv, FateOK

\* A step that changes the history of the last proposal, to one that is right.
LEMMA LastFate ==
  ASSUME IInv, FateInv, NEW last \in Proposal, FateOK(last), Len(proposals) > 0,
         proposals' = [proposals EXCEPT ![Len(proposals)] = last]
  PROVE  /\ Len(proposals') = Len(proposals)
         /\ \A i \in 1 .. Len(proposals') : FateOK(proposals'[i])
         /\ LastProposal' = last
<1> DEFINE n == Len(proposals)
<1>1. n \in Nat /\ proposals \in Seq(Proposal)
  BY ProposalFacts DEF IInv, TypeOK
<1>2. n \in 1 .. n
  BY <1>1
<1>3. /\ Len(proposals') = n
      /\ \A i \in 1 .. n : proposals'[i] = IF i = n THEN last ELSE proposals[i]
  BY <1>1, <1>2, ExceptSeq, SMTT(20)
<1> HIDE DEF n
<1>4. \A i \in 1 .. n : FateOK(proposals'[i])
  BY <1>3 DEF FateInv, n
<1>5. proposals'[n] = last
  BY <1>2, <1>3
<1> QED BY <1>3, <1>4, <1>5, Zenon DEF n, LastProposal

\* One more leaf, the last one included: it was not executed before, so the set
\* of executed leaves grows by one, as does the number of calls.
LEMMA ExecuteFate ==
  ASSUME IInv, FateInv, NEW leaf \in LeavesOf(rootBundleProposal.bundle), ExecuteRootBundle(leaf)
  PROVE  FateInv'
<1> DEFINE id == leaf.leafId
           count == rootBundleProposal.unclaimedPoolRebalanceLeafCount
           p == LastProposal
           last == WithLeaf(p, id)
<1>1. TypeOK
  BY DEF IInv
<1>2. /\ ActiveRequest /\ now' = now /\ PassedLiveness
      /\ id \notin rootBundleProposal.claimedBitMap
      /\ rootBundleProposal' =
           [rootBundleProposal EXCEPT
              !.claimedBitMap = rootBundleProposal.claimedBitMap \cup {id},
              !.unclaimedPoolRebalanceLeafCount = @ - 1]
      /\ proposals' = [proposals EXCEPT ![Len(proposals)] = last]
  BY DEF ExecuteRootBundle, SetClaimed, LastProposal
<1>3. /\ Len(proposals) > 0
      /\ p.fate = "open" /\ p.executed = rootBundleProposal.claimedBitMap
      /\ p.calls + count = p.bundle.leafCount
  BY <1>2 DEF FateInv, ActiveOK
<1>4. p \in Proposal /\ IsFiniteSet(p.executed) /\ FateOK(p)
  BY <1>1, <1>3, ProposalFacts DEF LastProposal, FateInv
<1>5. p.calls \in Nat /\ count \in Nat \ {0}
  BY <1>1, <1>2, <1>4 DEF Proposal, TypeOK, RootBundle, ActiveRequest
<1>6. /\ last.bundle = p.bundle
      /\ last.executed = p.executed \cup {id}
      /\ last.calls = p.calls + 1
      /\ last.fate = IF count = 1 THEN "done" ELSE "open"
  BY <1>3, <1>4 DEF WithLeaf, Proposal
<1>7. Cardinality(p.executed \cup {id}) = p.calls + 1
  BY <1>2, <1>3, <1>4, FS_AddElement DEF FateOK
<1>8. FateOK(last)
  <2> HIDE DEF last, p, count
  <2> QED BY <1>3, <1>5, <1>6, <1>7 DEF FateOK
<1>9. /\ rootBundleProposal'.claimedBitMap = rootBundleProposal.claimedBitMap \cup {id}
      /\ rootBundleProposal'.unclaimedPoolRebalanceLeafCount = count - 1
      /\ rootBundleProposal'.challengePeriodEndTimestamp
           = rootBundleProposal.challengePeriodEndTimestamp
  BY <1>1, <1>2 DEF TypeOK, RootBundle
<1>10. last \in Proposal
  <2>1. id \in LeafId
    <3>1. bond.token \in Token
      BY <1>1 DEF TypeOK, BondTerms
    <3> QED BY <1>1, <3>1, LeafFacts
  <2>2. p.executed \cup {id} \in SUBSET LeafId /\ p.calls + 1 \in Nat
    BY <1>4, <1>5, <2>1 DEF Proposal
  <2> HIDE DEF p, id
  <2> QED BY <1>3, <1>4, <2>2 DEF WithLeaf, Proposal
<1>11. /\ Len(proposals') = Len(proposals)
       /\ \A i \in 1 .. Len(proposals') : FateOK(proposals'[i])
       /\ LastProposal' = last
  <2> HIDE DEF last
  <2> QED BY <1>2, <1>3, <1>8, <1>10, LastFate
<1>12. ASSUME ActiveRequest'
       PROVE  /\ last.fate = "open"
              /\ last.executed = rootBundleProposal'.claimedBitMap
              /\ last.calls + rootBundleProposal'.unclaimedPoolRebalanceLeafCount
                   = last.bundle.leafCount
  <2>1. count - 1 # 0
    BY <1>9, <1>12 DEF ActiveRequest
  <2>2. last.fate = "open"
    BY <1>5, <1>6, <2>1
  <2>3. last.executed = rootBundleProposal'.claimedBitMap
    BY <1>3, <1>6, <1>9
  <2> HIDE DEF last, p, count, id
  <2>4. (p.calls + 1) + (count - 1) = p.calls + count
    BY <1>5
  <2> QED BY <1>3, <1>6, <1>9, <2>2, <2>3, <2>4
<1>13. ~(now' <= rootBundleProposal'.challengePeriodEndTimestamp)
  BY <1>1, <1>2, <1>9 DEF PassedLiveness, TypeOK, RootBundle
<1>14. ActiveOK'
  <2> HIDE DEF last
  <2> QED BY <1>3, <1>11, <1>12, <1>13 DEF ActiveOK
<1> QED BY <1>11, <1>14 DEF FateInv, FateOK

\* A dispute or a deletion ends the active proposal; what is disputed has
\* executed nothing, because its challenge period is not over.
LEMMA EndFate ==
  ASSUME IInv, FateInv, NEW fate \in {"disputed", "cancelled", "deleted"},
         ActiveRequest, SetFate(fate), rootBundleProposal' = NoProposal,
         fate # "deleted" => now <= rootBundleProposal.challengePeriodEndTimestamp
  PROVE  FateInv'
<1> DEFINE p == LastProposal
           last == [p EXCEPT !.fate = fate]
<1>1. Len(proposals) > 0 /\ (fate # "deleted" => p.calls = 0)
  BY DEF FateInv, ActiveOK
<1>2. p \in Proposal /\ FateOK(p)
  BY <1>1, ProposalFacts DEF IInv, LastProposal, FateInv
<1>3. FateOK(last)
  BY <1>1, <1>2 DEF FateOK, Proposal
<1>4. last \in Proposal /\ proposals' = [proposals EXCEPT ![Len(proposals)] = last]
  BY <1>2 DEF SetFate, LastProposal, Proposal
<1>5. \A i \in 1 .. Len(proposals') : FateOK(proposals'[i])
  <2> HIDE DEF last
  <2> QED BY <1>1, <1>3, <1>4, LastFate
<1>6. ActiveOK'
  BY DEF ActiveOK, ActiveRequest, NoProposal
<1> QED BY <1>5, <1>6 DEF FateInv, FateOK

\* The dispute of a bundle.
LEMMA DisputeFate ==
  ASSUME IInv, FateInv, NEW fee \in FinalFees, NEW refused \in BOOLEAN,
         DisputeRootBundle(fee, refused)
  PROVE  FateInv'
<1> DEFINE fate == IF fee >= bond.amount \/ refused THEN "cancelled" ELSE "disputed"
<1>1. /\ now <= rootBundleProposal.challengePeriodEndTimestamp
      /\ rootBundleProposal' = NoProposal /\ SetFate(fate)
  BY DEF DisputeRootBundle
<1>2. ActiveRequest
  BY <1>1 DEF IInv, NoLateDispute, TypeOK, RootBundle
<1>3. fate \in {"disputed", "cancelled", "deleted"}
  OBVIOUS
<1> HIDE DEF fate
<1> QED BY <1>1, <1>2, <1>3, EndFate

\* The owner deletes what there is.
LEMMA DeleteFate ==
  ASSUME IInv, FateInv, EmergencyDeleteProposal
  PROVE  FateInv'
<1>1. CASE ActiveRequest
  <2>1. SetFate("deleted") /\ rootBundleProposal' = NoProposal
    BY <1>1 DEF EmergencyDeleteProposal
  <2> QED BY <1>1, <2>1, EndFate
<1>2. CASE ~ActiveRequest
  <2>1. proposals' = proposals /\ ~ActiveRequest'
    BY <1>2 DEF EmergencyDeleteProposal, ActiveRequest, NoProposal
  <2> QED BY <2>1 DEF FateInv, ActiveOK, FateOK
<1> QED BY <1>1, <1>2

\* Every step keeps the fates right.
LEMMA NextFate == IInv /\ FateInv /\ [Next]_vars => FateInv'
<1> SUFFICES ASSUME IInv, FateInv, [Next]_vars PROVE FateInv'
  OBVIOUS
<1>1. now \in Nat
  BY DEF IInv, TypeOK
<1>2. CASE UNCHANGED vars
  BY <1>1, <1>2, FateUntouched DEF vars, bundleVars
<1>3. ASSUME NEW t \in Token,
             \/ \E n \in LpAmounts : AddLiquidity(t, n) \/ RemoveLiquidity(t, n)
             \/ ReadRate(t) \/ SyncToken(t) \/ ClaimProtocolFeesCaptured(t)
             \/ EnableL1TokenForLiquidityProvision(t)
             \/ DisableL1TokenForLiquidityProvision(t)
             \/ \E h \in Haircuts : HaircutReserves(t, h)
             \/ \E n \in Returns : ReceiveTokens(t, n)
      PROVE  FateInv'
  <2>1. UNCHANGED <<now, bundleVars>>
    BY <1>3, Zenon DEF AddLiquidity, RemoveLiquidity, ReadRate, SyncToken, ClaimProtocolFeesCaptured,
                EnableL1TokenForLiquidityProvision, DisableL1TokenForLiquidityProvision,
                HaircutReserves, ReceiveTokens
  <2>2. rootBundleProposal' = rootBundleProposal /\ proposals' = proposals /\ now' = now
    BY <2>1 DEF bundleVars
  <2>3. now' \in Nat /\ now' >= now
    BY <1>1, <2>2
  <2> QED BY <2>2, <2>3, FateUntouched, Zenon
<1>4. ASSUME NEW w \in Worker, NEW b \in Bundle, ProposeRootBundle(w, b)
      PROVE  FateInv'
  BY <1>4, ProposeFate
<1>5. ASSUME NEW leaf \in LeavesOf(rootBundleProposal.bundle), ExecuteRootBundle(leaf)
      PROVE  FateInv'
  BY <1>5, ExecuteFate
<1>6. ASSUME NEW fee \in FinalFees, NEW refused \in BOOLEAN, DisputeRootBundle(fee, refused)
      PROVE  FateInv'
  BY <1>6, DisputeFate
<1>7. ASSUME NEW b \in Bonds, NEW fee \in FinalFees, SetBond(b, fee)
      PROVE  FateInv'
  BY <1>1, <1>7, FateUntouched DEF SetBond
<1>8. CASE EmergencyDeleteProposal
  BY <1>8, DeleteFate
<1>9. CASE Configure \/ Tick
  <2>1. UNCHANGED bundleVars /\ now' \in Nat /\ now' >= now
    BY <1>1, <1>9 DEF Configure, Tick
  <2> QED BY <2>1, FateUntouched DEF bundleVars
<1> QED BY <1>2, <1>3, <1>4, <1>5, <1>6, <1>7, <1>8, <1>9 DEF Next
-----------------------------------------------------------------------------
(* The exchange rate. *)

\* A quotient is at least any number whose product fits.
LEMMA QuotientLeast ==
  ASSUME NEW a \in Nat, NEW b \in Nat \ {0}, NEW n \in Nat, n * b <= a
  PROVE  n <= a \div b
OBVIOUS

\* A product distributes over a sum.
LEMMA Distributes ==
  ASSUME NEW n \in Nat, NEW a \in Int, NEW b \in Int
  PROVE  n * (a + b) = n * a + n * b /\ n * (a - b) = n * a - n * b
OBVIOUS

\* The factors of a product commute.
LEMMA ProductCommutes ==
  ASSUME NEW a \in Int, NEW b \in Int
  PROVE  a * b = b * a /\ a * b \in Int
OBVIOUS

\* The rate is the largest at which the LP tokens can all be redeemed.
LEMMA RateIsGreatest ==
  ASSUME NEW p \in PooledToken, p.lpSupply # 0, LpValue(p) \in Nat, NEW r \in Nat
  PROVE  /\ ExchangeRate(p) * p.lpSupply <= LpValue(p) * ONE
         /\ r * p.lpSupply <= LpValue(p) * ONE => ExchangeRate(p) >= r
<1>1. p.lpSupply \in Nat \ {0} /\ ONE \in Nat
  BY HubAssumption DEF PooledToken
<1>2. LpValue(p) * ONE \in Nat
  BY <1>1, ProductNat
<1>3. ExchangeRate(p) = (LpValue(p) * ONE) \div p.lpSupply
  BY DEF ExchangeRate
<1> DEFINE worth == LpValue(p) * ONE
<1>4. worth \div p.lpSupply \in Nat /\ (worth \div p.lpSupply) * p.lpSupply <= worth
  BY <1>1, <1>2, QuotientNat
<1>5. r * p.lpSupply <= worth => r <= worth \div p.lpSupply
  BY <1>1, <1>2, QuotientLeast
<1> QED BY <1>3, <1>4, <1>5

\* What the LP tokens are worth grows, and their number stays.
LEMMA RateKept ==
  ASSUME NEW p \in PooledToken, NEW q \in PooledToken, p.lpSupply # 0,
         q.lpSupply = p.lpSupply, LpValue(p) \in Nat, LpValue(q) \in Nat,
         LpValue(p) <= LpValue(q)
  PROVE  ExchangeRate(q) >= ExchangeRate(p)
<1>1. ExchangeRate(p) \in Nat
  BY ExchangeFacts
<1>2. ExchangeRate(p) * p.lpSupply <= LpValue(p) * ONE
  BY <1>1, RateIsGreatest
<1>3. ONE \in Nat /\ p.lpSupply \in Nat
  BY HubAssumption DEF PooledToken
<1>4. LpValue(p) * ONE <= LpValue(q) * ONE
  BY <1>3, ProductMonotone
<1>5. /\ LpValue(p) * ONE \in Nat /\ LpValue(q) * ONE \in Nat
      /\ ExchangeRate(p) * p.lpSupply \in Nat
  BY <1>1, <1>3, ProductNat
<1>6. ExchangeRate(p) * q.lpSupply <= LpValue(q) * ONE
  BY <1>2, <1>4, <1>5
<1> QED BY <1>1, <1>6, RateIsGreatest

\* What is minted for an amount, at a rate rounded down, is worth no more.
LEMMA RateAfterMint ==
  ASSUME NEW p \in PooledToken, NEW q \in PooledToken, p.lpSupply # 0,
         LpValue(p) \in Nat, ExchangeRate(p) > 0, NEW amount \in Nat,
         q.lpSupply = p.lpSupply + LpTokensToMint(amount, ExchangeRate(p)),
         LpValue(q) = LpValue(p) + amount
  PROVE  ExchangeRate(q) >= ExchangeRate(p)
<1> DEFINE r == ExchangeRate(p)
           v == LpValue(p)
           s == p.lpSupply
           m == LpTokensToMint(amount, r)
<1>1. r \in Nat \ {0} /\ s \in Nat \ {0} /\ ONE \in Nat /\ v \in Nat
  BY ExchangeFacts, HubAssumption DEF PooledToken
<1>2. r * s <= v * ONE
  BY <1>1, RateIsGreatest
<1>3. amount * ONE \in Nat /\ v * ONE \in Nat /\ r * s \in Nat
  BY <1>1, ProductNat
<1>4. m \in Nat /\ m * r <= amount * ONE
  BY <1>1, <1>3, QuotientNat DEF LpTokensToMint
<1> HIDE DEF r, v, s, m
<1>5. m * r \in Nat /\ m * r = r * m
  BY <1>1, <1>4, ProductNat, ProductCommutes
<1>6. r * (s + m) = r * s + r * m
  BY <1>1, <1>4, Distributes
<1>7. (v + amount) * ONE = v * ONE + amount * ONE
  <2>1. ONE * (v + amount) = ONE * v + ONE * amount
    BY <1>1, Distributes
  <2>2. ONE * (v + amount) = (v + amount) * ONE /\ ONE * v = v * ONE
        /\ ONE * amount = amount * ONE
    BY <1>1, ProductCommutes
  <2> QED BY <2>1, <2>2
<1>8. r * (s + m) <= (v + amount) * ONE
  BY <1>2, <1>3, <1>4, <1>5, <1>6, <1>7
<1>9. q.lpSupply = s + m /\ LpValue(q) = v + amount /\ q.lpSupply # 0 /\ LpValue(q) \in Nat
  <2>1. q.lpSupply = s + m /\ LpValue(q) = v + amount
    BY DEF r, v, s, m
  <2> QED BY <1>1, <1>4, <2>1
<1>10. ExchangeRate(q) >= r
  BY <1>1, <1>8, <1>9, RateIsGreatest
<1> QED BY <1>10 DEF r

\* What LP tokens are redeemed for, rounded down, leaves the others their worth.
LEMMA RateAfterRedeem ==
  ASSUME NEW p \in PooledToken, NEW q \in PooledToken, p.lpSupply # 0, q.lpSupply # 0,
         LpValue(p) \in Nat, LpValue(q) \in Nat, NEW amount \in Nat,
         q.lpSupply = p.lpSupply - amount,
         LpValue(q) = LpValue(p) - (amount * ExchangeRate(p)) \div ONE
  PROVE  ExchangeRate(q) >= ExchangeRate(p)
<1> DEFINE r == ExchangeRate(p)
           v == LpValue(p)
           s == p.lpSupply
           back == (amount * r) \div ONE
<1>1. r \in Nat /\ s \in Nat \ {0} /\ ONE \in Nat \ {0} /\ v \in Nat
  BY ExchangeFacts, HubAssumption DEF PooledToken
<1>2. r * s <= v * ONE
  BY <1>1, RateIsGreatest
<1>3. amount * r \in Nat /\ v * ONE \in Nat /\ r * s \in Nat
  BY <1>1, ProductNat
<1>4. back \in Nat /\ back * ONE <= amount * r
  BY <1>1, <1>3, QuotientNat
<1> HIDE DEF r, v, s, back
<1>5. back * ONE \in Nat /\ amount * r = r * amount
  BY <1>1, <1>4, ProductNat, ProductCommutes
<1>6. r * (s - amount) = r * s - r * amount
  BY <1>1, Distributes
<1>7. (v - back) * ONE = v * ONE - back * ONE
  <2>1. ONE * (v - back) = ONE * v - ONE * back
    BY <1>1, <1>4, Distributes
  <2>2. v - back \in Int
    BY <1>1, <1>4
  <2>3. ONE * (v - back) = (v - back) * ONE /\ ONE * v = v * ONE /\ ONE * back = back * ONE
    BY <1>1, <1>4, <2>2, ProductCommutes
  <2> QED BY <2>1, <2>3
<1>8. r * (s - amount) <= (v - back) * ONE
  BY <1>2, <1>3, <1>4, <1>5, <1>6, <1>7
<1>9. q.lpSupply = s - amount /\ LpValue(q) = v - back
  BY DEF r, v, s, back
<1>10. ExchangeRate(q) >= r
  BY <1>1, <1>8, <1>9, RateIsGreatest
<1> QED BY <1>10 DEF r

\* Bringing a pool up to date distributes fees, which raises its rate.
LEMMA RateOfCurrent ==
  ASSUME IInv, NEW t \in Token, pooledTokens[t].lpSupply # 0
  PROVE  /\ Current(t) \in PooledToken /\ LpValue(Current(t)) \in Nat
         /\ Current(t).lpSupply = pooledTokens[t].lpSupply
         /\ LpValue(Current(t)) >= LpValue(pooledTokens[t])
         /\ ExchangeRate(pooledTokens[t]) \in Nat /\ ExchangeRate(Current(t)) \in Nat
         /\ ExchangeRate(Current(t)) >= ExchangeRate(pooledTokens[t])
<1> DEFINE p == pooledTokens[t]
           q == Current(t)
<1>1. /\ p \in PooledToken /\ q \in PooledToken /\ LpValue(q) \in Nat
      /\ q.liquidReserves + q.utilizedReserves = p.liquidReserves + p.utilizedReserves
      /\ q.undistributedLpFees <= p.undistributedLpFees
      /\ q.lpSupply = p.lpSupply
      /\ LpValue(p) >= 0
  BY PoolFacts, CurrentFacts DEF PoolOK
<1> HIDE DEF p, q
<1>2. LpValue(p) \in Nat /\ LpValue(p) <= LpValue(q)
  BY <1>1 DEF LpValue, PooledToken
<1>3. ExchangeRate(p) \in Nat /\ ExchangeRate(q) \in Nat
  BY <1>1, <1>2, ExchangeFacts
<1>4. p.lpSupply # 0
  BY DEF p
<1>5. ExchangeRate(q) >= ExchangeRate(p)
  BY <1>1, <1>2, <1>4, RateKept
<1> QED BY <1>1, <1>2, <1>3, <1>5 DEF p, q

\* The promise, for one token.
RateHolds(t) ==
  /\ pooledTokens[t].lpSupply > 0 /\ pooledTokens'[t].lpSupply > 0
  /\ ~ \E h \in Haircuts : HaircutReserves(t, h)
  => ExchangeRate(pooledTokens'[t]) >= ExchangeRate(pooledTokens[t])

\* A pool whose LP tokens are as many and worth as much keeps its rate.
LEMMA RateStays ==
  ASSUME IInv, IInv', NEW t \in Token,
         /\ pooledTokens'[t].lpSupply = pooledTokens[t].lpSupply
         /\ LpValue(pooledTokens'[t]) >= LpValue(pooledTokens[t])
  PROVE  RateHolds(t)
<1>1. pooledTokens[t] \in PooledToken /\ pooledTokens'[t] \in PooledToken
  BY DEF IInv, TypeOK
<1>2. LpValue(pooledTokens[t]) >= 0
  BY DEF IInv, PoolOK
<1>3. LpValue(pooledTokens[t]) \in Nat /\ LpValue(pooledTokens'[t]) \in Nat
  BY <1>1, <1>2 DEF LpValue, PooledToken
<1>4. pooledTokens[t].lpSupply > 0 => pooledTokens[t].lpSupply # 0
  OBVIOUS
<1> QED BY <1>1, <1>3, <1>4, RateKept DEF RateHolds

\* addLiquidity and removeLiquidity, at the rate of the pool brought up to date.
LEMMA AddRate ==
  ASSUME IInv, IInv', NEW t \in Token, NEW amount \in LpAmounts, AddLiquidity(t, amount),
         pooledTokens[t].lpSupply > 0
  PROVE  ExchangeRate(pooledTokens'[t]) >= ExchangeRate(pooledTokens[t])
<1> DEFINE p == Current(t)
           minted == LpTokensToMint(amount, ExchangeRate(p))
           q == [p EXCEPT !.liquidReserves = @ + amount, !.lpSupply = @ + minted]
<1>1. /\ p \in PooledToken /\ LpValue(p) \in Nat
      /\ p.lpSupply = pooledTokens[t].lpSupply
      /\ ExchangeRate(pooledTokens[t]) \in Nat /\ ExchangeRate(p) \in Nat
      /\ ExchangeRate(p) >= ExchangeRate(pooledTokens[t])
  BY RateOfCurrent
<1>2. amount \in Nat
  BY HubAssumption
<1>3. ExchangeRate(p) > 0 /\ pooledTokens' = [pooledTokens EXCEPT ![t] = q]
  BY DEF AddLiquidity
<1>4. pooledTokens'[t] \in PooledToken /\ pooledTokens'[t] = q
  BY <1>3 DEF IInv, TypeOK
<1> HIDE DEF p, minted
<1>5. q.lpSupply = p.lpSupply + minted /\ LpValue(q) = LpValue(p) + amount
  BY <1>1, <1>2 DEF LpValue, PooledToken
<1> HIDE DEF q
<1>6. ExchangeRate(q) >= ExchangeRate(p) /\ ExchangeRate(q) \in Nat
  <2>1. q \in PooledToken /\ p.lpSupply # 0
    BY <1>1, <1>4
  <2>2. ExchangeRate(q) >= ExchangeRate(p)
    BY <1>1, <1>2, <1>3, <1>5, <2>1, RateAfterMint DEF minted
  <2>3. LpValue(q) \in Nat
    BY <1>1, <1>2, <1>5
  <2> QED BY <2>1, <2>2, <2>3, ExchangeFacts
<1> QED BY <1>1, <1>4, <1>6

\* Taking liquidity out does not make a share worth less.
LEMMA RemoveRate ==
  ASSUME IInv, IInv', NEW t \in Token, NEW amount \in LpAmounts, RemoveLiquidity(t, amount),
         pooledTokens[t].lpSupply > 0, pooledTokens'[t].lpSupply > 0
  PROVE  ExchangeRate(pooledTokens'[t]) >= ExchangeRate(pooledTokens[t])
<1> DEFINE p == Current(t)
           back == (amount * ExchangeRate(p)) \div ONE
           q == [p EXCEPT !.liquidReserves = @ - back, !.lpSupply = @ - amount]
<1>1. /\ p \in PooledToken /\ LpValue(p) \in Nat
      /\ p.lpSupply = pooledTokens[t].lpSupply
      /\ ExchangeRate(pooledTokens[t]) \in Nat /\ ExchangeRate(p) \in Nat
      /\ ExchangeRate(p) >= ExchangeRate(pooledTokens[t])
  BY RateOfCurrent
<1>2. amount \in Nat
  BY HubAssumption
<1>3. amount <= p.lpSupply /\ pooledTokens' = [pooledTokens EXCEPT ![t] = q]
  BY DEF RemoveLiquidity
<1>4. pooledTokens'[t] \in PooledToken /\ pooledTokens'[t] = q
  BY <1>3 DEF IInv, TypeOK
<1>5. back \in 0 .. LpValue(p)
  BY <1>1, <1>2, <1>3, ExchangeFacts
<1> HIDE DEF p, back
<1>6. q.lpSupply = p.lpSupply - amount /\ LpValue(q) = LpValue(p) - back
  BY <1>1, <1>2, <1>5 DEF LpValue, PooledToken
<1> HIDE DEF q
<1>7. ExchangeRate(q) >= ExchangeRate(p) /\ ExchangeRate(q) \in Nat
  <2>1. q \in PooledToken /\ p.lpSupply # 0 /\ q.lpSupply # 0 /\ LpValue(q) \in Nat
    BY <1>1, <1>4, <1>5, <1>6
  <2>2. ExchangeRate(q) >= ExchangeRate(p)
    BY <1>1, <1>2, <1>6, <2>1, RateAfterRedeem DEF back
  <2> QED BY <2>1, <2>2, ExchangeFacts
<1> QED BY <1>1, <1>4, <1>7

\* The steps that leave every pool as it is.
LEMMA RateUntouched ==
  ASSUME IInv, IInv', pooledTokens' = pooledTokens, NEW t \in Token
  PROVE  RateHolds(t)
<1>1. pooledTokens[t] \in PooledToken
  BY DEF IInv, TypeOK
<1>2. LpValue(pooledTokens[t]) \in Int
  BY <1>1 DEF LpValue, PooledToken
<1> QED BY <1>2, RateStays

\* A step on the pool of one token.
LEMMA PoolRate ==
  ASSUME IInv, IInv', NEW t \in Token, NEW s \in Token,
         \/ \E n \in LpAmounts : AddLiquidity(s, n) \/ RemoveLiquidity(s, n)
         \/ ReadRate(s) \/ SyncToken(s) \/ ClaimProtocolFeesCaptured(s)
         \/ EnableL1TokenForLiquidityProvision(s)
         \/ DisableL1TokenForLiquidityProvision(s)
         \/ \E h \in Haircuts : HaircutReserves(s, h)
         \/ \E n \in Returns : ReceiveTokens(s, n)
  PROVE  RateHolds(t)
<1> DEFINE p == pooledTokens[s]
<1>1. TypeOK /\ PoolOK(s) /\ p \in PooledToken /\ pooledTokens \in [Token -> PooledToken]
  BY PoolFacts DEF TypeOK
<1>2. LpValue(p) \in Int
  BY <1>1 DEF LpValue, PooledToken
<1>3. CASE pooledTokens' = pooledTokens
  BY <1>3, RateUntouched
<1>4. ASSUME NEW q, pooledTokens' = [pooledTokens EXCEPT ![s] = q], t # s
      PROVE  RateHolds(t)
  <2>1. pooledTokens'[t] = pooledTokens[t] /\ pooledTokens[t] \in PooledToken
    BY <1>1, <1>4
  <2>2. LpValue(pooledTokens[t]) \in Int
    BY <2>1 DEF LpValue, PooledToken
  <2> QED BY <2>1, <2>2, RateStays
<1>5. ASSUME NEW q, pooledTokens' = [pooledTokens EXCEPT ![s] = q],
             q.lpSupply = p.lpSupply, LpValue(q) >= LpValue(p), t = s
      PROVE  RateHolds(t)
  <2>1. pooledTokens'[s] = q
    BY <1>1, <1>5
  <2> QED BY <1>5, <2>1, RateStays
<1> HIDE DEF p
<1>6. ASSUME NEW n \in LpAmounts, AddLiquidity(s, n)
      PROVE  RateHolds(t)
  BY <1>4, <1>6, AddRate DEF RateHolds, AddLiquidity
<1>7. ASSUME NEW n \in LpAmounts, RemoveLiquidity(s, n)
      PROVE  RateHolds(t)
  BY <1>4, <1>7, RemoveRate DEF RateHolds, RemoveLiquidity
<1>8. CASE ReadRate(s)
  <2>1. pooledTokens' = [pooledTokens EXCEPT ![s] = Current(s)]
    BY <1>8 DEF ReadRate
  <2>2. CASE p.lpSupply # 0
    <3>1. Current(s).lpSupply = p.lpSupply /\ LpValue(Current(s)) >= LpValue(p)
      BY <2>2, RateOfCurrent DEF p
    <3> QED BY <1>4, <1>5, <2>1, <3>1
  <2>3. CASE p.lpSupply = 0
    <3>1. Current(s) = p
      BY <2>3 DEF Current, p
    <3> QED BY <1>1, <1>3, <2>1, <3>1 DEF p
  <2> QED BY <2>2, <2>3
<1>9. CASE SyncToken(s)
  <2>1. pooledTokens' = [pooledTokens EXCEPT ![s] = Sync(s, p)]
    BY <1>9 DEF SyncToken, p
  <2>2. /\ Sync(s, p) \in PooledToken
        /\ Sync(s, p).liquidReserves + Sync(s, p).utilizedReserves
             = p.liquidReserves + p.utilizedReserves
        /\ Sync(s, p).undistributedLpFees = p.undistributedLpFees
        /\ Sync(s, p).lpSupply = p.lpSupply
    BY <1>1, SyncFacts
  <2> DEFINE q == Sync(s, p)
  <2> HIDE DEF q
  <2>3. LpValue(q) = LpValue(p)
    BY <1>1, <2>2 DEF LpValue, PooledToken, q
  <2>4. q.lpSupply = p.lpSupply /\ LpValue(q) >= LpValue(p)
    BY <1>2, <2>2, <2>3 DEF q
  <2> QED BY <1>4, <1>5, <2>1, <2>4 DEF q
<1>10. CASE ClaimProtocolFeesCaptured(s) \/ \E n \in Returns : ReceiveTokens(s, n)
  <2>1. pooledTokens' = pooledTokens
    BY <1>10 DEF ClaimProtocolFeesCaptured, ReceiveTokens
  <2> QED BY <1>3, <2>1
<1>11. CASE EnableL1TokenForLiquidityProvision(s)
  <2> DEFINE since == IF p.lpToken THEN p.lastLpFeeUpdate ELSE now
             q == [p EXCEPT !.isEnabled = TRUE, !.lpToken = TRUE, !.lastLpFeeUpdate = since]
  <2>1. pooledTokens' = [pooledTokens EXCEPT ![s] = q]
    BY <1>11 DEF EnableL1TokenForLiquidityProvision, p
  <2> HIDE DEF since
  <2>2. q.lpSupply = p.lpSupply /\ LpValue(q) = LpValue(p)
    BY <1>1 DEF LpValue, PooledToken
  <2> HIDE DEF q
  <2>3. LpValue(q) >= LpValue(p)
    BY <1>2, <2>2
  <2> QED BY <1>4, <1>5, <2>1, <2>2, <2>3
<1>12. CASE DisableL1TokenForLiquidityProvision(s)
  <2> DEFINE q == [p EXCEPT !.isEnabled = FALSE]
  <2>1. pooledTokens' = [pooledTokens EXCEPT ![s] = q]
    BY <1>12 DEF DisableL1TokenForLiquidityProvision, p
  <2>2. q.lpSupply = p.lpSupply /\ LpValue(q) = LpValue(p)
    BY <1>1 DEF LpValue, PooledToken
  <2> HIDE DEF q
  <2>3. LpValue(q) >= LpValue(p)
    BY <1>2, <2>2
  <2> QED BY <1>4, <1>5, <2>1, <2>2, <2>3
<1>13. ASSUME NEW h \in Haircuts, HaircutReserves(s, h)
       PROVE  RateHolds(t)
  <2>1. CASE t = s
    BY <1>13, <2>1 DEF RateHolds
  <2>2. CASE t # s
    BY <1>4, <1>13, <2>2 DEF HaircutReserves
  <2> QED BY <2>1, <2>2
<1> QED BY <1>6, <1>7, <1>8, <1>9, <1>10, <1>11, <1>12, <1>13

\* A leaf moves amounts between the reserves and books fees on both sides.
LEMMA LeafRate ==
  ASSUME IInv, IInv', NEW t \in Token, NEW leaf \in LeavesOf(rootBundleProposal.bundle),
         ExecuteRootBundle(leaf)
  PROVE  RateHolds(t)
<1> DEFINE p == pooledTokens[t]
           q == Rebalanced(leaf, t, pooledTokens[t])
           sent == Sent(leaf, t)
           part == Fees(leaf, t) - ProtocolFees(leaf, t)
<1>1. /\ TypeOK /\ p \in PooledToken /\ sent <= p.liquidReserves
      /\ pooledTokens'[t] = q
  BY DEF ExecuteRootBundle, IInv, TypeOK
<1>2. /\ Fees(leaf, t) \in Nat /\ ProtocolFees(leaf, t) \in 0 .. Fees(leaf, t) /\ sent \in Nat
  BY <1>1, LeafFacts
<1>3. /\ q \in PooledToken
      /\ q.liquidReserves = p.liquidReserves - sent
      /\ q.utilizedReserves = p.utilizedReserves + sent + part
      /\ q.undistributedLpFees = p.undistributedLpFees + part
  BY <1>1, RebalancedFacts
<1>4. q.lpSupply = p.lpSupply
  BY <1>1 DEF Rebalanced, AllocateLpFees, PooledToken
<1> HIDE DEF p, q, sent, part
<1>5. part \in Int
  BY <1>2 DEF part
<1>6. LpValue(q) = LpValue(p) /\ LpValue(p) \in Int
  BY <1>1, <1>2, <1>3, <1>5 DEF LpValue, PooledToken
<1> QED BY <1>1, <1>4, <1>6, RateStays DEF p

\* No step lowers the rate of any pool but the owner's haircut.
LEMMA NextRate ==
  ASSUME IInv, IInv', [Next]_vars, NEW t \in Token
  PROVE  RateHolds(t)
<1>1. CASE UNCHANGED pooledTokens
  BY <1>1, RateUntouched
<1>2. ASSUME NEW s \in Token,
             \/ \E n \in LpAmounts : AddLiquidity(s, n) \/ RemoveLiquidity(s, n)
             \/ ReadRate(s) \/ SyncToken(s) \/ ClaimProtocolFeesCaptured(s)
             \/ EnableL1TokenForLiquidityProvision(s)
             \/ DisableL1TokenForLiquidityProvision(s)
             \/ \E h \in Haircuts : HaircutReserves(s, h)
             \/ \E n \in Returns : ReceiveTokens(s, n)
      PROVE  RateHolds(t)
  BY <1>2, PoolRate
<1>3. ASSUME NEW leaf \in LeavesOf(rootBundleProposal.bundle), ExecuteRootBundle(leaf)
      PROVE  RateHolds(t)
  BY <1>3, LeafRate
<1>4. CASE \/ \E w \in Worker, b \in Bundle : ProposeRootBundle(w, b)
           \/ \E fee \in FinalFees, refused \in BOOLEAN : DisputeRootBundle(fee, refused)
           \/ \E b \in Bonds, fee \in FinalFees : SetBond(b, fee)
           \/ EmergencyDeleteProposal \/ Configure \/ Tick
           \/ UNCHANGED vars
  BY <1>1, <1>4 DEF ProposeRootBundle, DisputeRootBundle, SetBond, EmergencyDeleteProposal,
                    Configure, Tick, poolVars, vars
<1> QED BY <1>2, <1>3, <1>4 DEF Next
-----------------------------------------------------------------------------
(* What holds in every reachable state. *)

\* The inductive invariant holds in every reachable state.
THEOREM HubInvariant == Spec => []IInv
<1> QED BY InitInvariant, NextInvariant, PTL DEF Spec

\* No unsigned amount underflows and no balance goes negative, whatever the
\* tokens, bundles, rates and times.
THEOREM HubTypes == Spec => []TypeOK
<1>1. IInv => TypeOK
  BY DEF IInv
<1> QED BY <1>1, HubInvariant, PTL

\* The reserves of a pool are always what the contract holds without the bond
\* and what the SpokePools owe, less what the protocol may claim.
THEOREM HubReserves == Spec => []ReservesBalance
<1>1. IInv => ReservesBalance
  BY DEF IInv, PoolOK, ReservesBalance
<1> QED BY <1>1, HubInvariant, PTL

\* The exchange rate can always be computed: the reserves cover the fees that
\* are still to be distributed.
THEOREM HubFees == Spec => []FeesCovered
<1>1. IInv => FeesCovered
  BY DEF IInv, PoolOK, FeesCovered
<1> QED BY <1>1, HubInvariant, PTL

\* The liquid reserves are in the contract next to the bond, to the token, but
\* for the fees that the protocol was paid ahead of the tokens that come back.
THEOREM HubLiquidity == Spec => []LiquidButForClaims
<1>1. IInv => LiquidButForClaims
  BY DEF IInv, PoolOK, LiquidButForClaims
<1> QED BY <1>1, HubInvariant, PTL

\* A bundle that was disputed or cancelled never moved a token, no leaf is
\* executed twice, and a bundle is done when it has executed as many as it
\* announced, for any number of proposals, bundles and leaves.
THEOREM HubFates == Spec => []OneFate
<1>1. Init => FateInv
  BY DEF Init, NoProposal, FateInv, ActiveOK, ActiveRequest
<1>2. FateInv => OneFate
  BY DEF FateInv, FateOK, OneFate
<1> QED BY <1>1, <1>2, HubInvariant, NextFate, PTL DEF Spec

\* The LP token of a pool never loses value, whatever providers, workers,
\* bridges and time do, at any rate, amounts and fees: every division rounds in
\* favour of the providers who stay.  The owner's haircut alone lowers it.
THEOREM HubRate == Spec => RateNeverFalls
<1> DEFINE Holds == \A t \in Token : RateHolds(t)
<1>1. IInv /\ IInv' /\ [Next]_vars => [Holds]_vars
  BY NextRate
<1>2. [Holds]_vars <=> [ \A t \in Token :
        LET p == pooledTokens[t]
            q == pooledTokens'[t]
        IN  /\ p.lpSupply > 0 /\ q.lpSupply > 0
            /\ ~ \E h \in Haircuts : HaircutReserves(t, h)
            => ExchangeRate(q) >= ExchangeRate(p) ]_vars
  BY DEF RateHolds
<1> QED BY <1>1, <1>2, HubInvariant, PTL DEF Spec, RateNeverFalls
=============================================================================
