--------------------------- MODULE TotalsTheorems ---------------------------
(***************************************************************************)
(* The laws of Total on which the conservation proofs rest.                *)
(***************************************************************************)
EXTENDS Totals, Integers, FiniteSetTheorems, TLAPS

\* One key's units are as many as its value.
LEMMA ColumnCardinality ==
  ASSUME NEW x, NEW n \in Nat
  PROVE  /\ IsFiniteSet({x} \X (1 .. n))
         /\ Cardinality({x} \X (1 .. n)) = n
<1> DEFINE h == [i \in 1 .. n |-> <<x, i>>]
<1>1. h \in Bijection(1 .. n, {x} \X (1 .. n))
  <2>1. h \in [1 .. n -> {x} \X (1 .. n)]
    OBVIOUS
  <2>2. ASSUME NEW i \in 1 .. n, NEW j \in 1 .. n, h[i] = h[j]
        PROVE  i = j
    BY <2>2
  <2>3. ASSUME NEW u \in {x} \X (1 .. n)
        PROVE  \E i \in 1 .. n : h[i] = u
    <3>1. PICK i \in 1 .. n : u = <<x, i>>
      OBVIOUS
    <3> QED BY <3>1
  <2> HIDE DEF h
  <2> QED BY <2>1, <2>2, <2>3 DEF Bijection, Injection, Surjection, IsInjective
<1>2. ExistsBijection(1 .. n, {x} \X (1 .. n))
  BY <1>1 DEF ExistsBijection
<1>3. IsFiniteSet(1 .. n) /\ Cardinality(1 .. n) = n
  BY FS_Interval
<1> QED BY <1>2, <1>3, FS_Bijection

\* The units of a ledger with finitely many keys are finitely many.
LEMMA UnitsFinite ==
  ASSUME NEW D, IsFiniteSet(D), NEW f \in [D -> Nat]
  PROVE  IsFiniteSet(Units(f))
<1> DEFINE cols == { {x} \X (1 .. f[x]) : x \in D }
           col == [x \in D |-> {x} \X (1 .. f[x])]
<1>1. col \in Surjection(D, cols)
  BY DEF Surjection
<1>2. IsFiniteSet(cols)
  BY <1>1, FS_Surjection
<1>3. \A T \in cols : IsFiniteSet(T)
  <2>1. SUFFICES ASSUME NEW x \in D PROVE IsFiniteSet({x} \X (1 .. f[x]))
    OBVIOUS
  <2> QED BY ColumnCardinality, f[x] \in Nat
<1>4. Units(f) = UNION cols
  BY DEF Units
<1>5. IsFiniteSet(UNION cols)
  <2> HIDE DEF cols
  <2> QED BY <1>2, <1>3, FS_UNION
<1> QED BY <1>4, <1>5

\* A total is a natural number.
LEMMA TotalType ==
  ASSUME NEW D, IsFiniteSet(D), NEW f \in [D -> Nat]
  PROVE  Total(f) \in Nat
BY UnitsFinite, FS_CardinalityType DEF Total

\* The total of a ledger of zeros is zero.
LEMMA TotalZero ==
  ASSUME NEW D, NEW f \in [D -> Nat], \A x \in D : f[x] = 0
  PROVE  Total(f) = 0
<1>1. Units(f) = {}
  BY DEF Units
<1> QED BY <1>1, FS_EmptySet DEF Total

\* A ledger that is nowhere larger has no larger total.
LEMMA TotalMonotonic ==
  ASSUME NEW D, IsFiniteSet(D), NEW f \in [D -> Nat], NEW g \in [D -> Nat],
         \A x \in D : f[x] <= g[x]
  PROVE  Total(f) <= Total(g)
<1>1. Units(f) \subseteq Units(g)
  BY DEF Units
<1> QED BY <1>1, UnitsFinite, FS_Subset DEF Total

\* Splitting a total into the units of one key and those of the others.
LEMMA TotalSplit ==
  ASSUME NEW D, IsFiniteSet(D), NEW f \in [D -> Nat], NEW x \in D
  PROVE  LET rest == { u \in Units(f) : u[1] # x }
         IN  /\ IsFiniteSet(rest)
             /\ Total(f) = Cardinality(rest) + f[x]
<1> DEFINE rest == { u \in Units(f) : u[1] # x }
           col == {x} \X (1 .. f[x])
<1>1. IsFiniteSet(Units(f))
  BY UnitsFinite
<1>2. IsFiniteSet(rest)
  BY <1>1, FS_Subset
<1>3. IsFiniteSet(col) /\ Cardinality(col) = f[x]
  BY ColumnCardinality
<1>4. Units(f) = rest \cup col
  BY DEF Units
<1>5. rest \cap col = {}
  OBVIOUS
<1>6. Cardinality(rest) \in Nat
  BY <1>2, FS_CardinalityType
<1> HIDE DEF rest, col
<1>7. Cardinality(rest \cup col)
        = Cardinality(rest) + Cardinality(col) - Cardinality(rest \cap col)
  BY <1>2, <1>3, FS_Union
<1>8. Cardinality(rest \cap col) = 0
  BY <1>5, FS_EmptySet
<1>9. Total(f) = Cardinality(rest) + f[x]
  <2>1. f[x] \in Nat
    OBVIOUS
  <2>2. Total(f) = Cardinality(rest \cup col)
    BY <1>4 DEF Total
  <2> QED BY <1>3, <1>6, <1>7, <1>8, <2>1, <2>2
<1> QED BY <1>2, <1>9 DEF rest

\* No entry of a ledger exceeds the total.
LEMMA TotalMember ==
  ASSUME NEW D, IsFiniteSet(D), NEW f \in [D -> Nat], NEW x \in D
  PROVE  f[x] <= Total(f)
<1> DEFINE rest == { u \in Units(f) : u[1] # x }
<1>1. IsFiniteSet(rest) /\ Total(f) = Cardinality(rest) + f[x]
  BY TotalSplit
<1>2. Cardinality(rest) \in Nat
  BY <1>1, FS_CardinalityType
<1>3. f[x] \in Nat
  OBVIOUS
<1> HIDE DEF rest
<1> QED BY <1>1, <1>2, <1>3

\* Changing the value of one key changes the total by the same amount.
LEMMA TotalChange ==
  ASSUME NEW D, IsFiniteSet(D), NEW f \in [D -> Nat], NEW g \in [D -> Nat],
         NEW x \in D, \A y \in D \ {x} : g[y] = f[y]
  PROVE  Total(g) + f[x] = Total(f) + g[x]
<1> DEFINE rf == { u \in Units(f) : u[1] # x }
           rg == { u \in Units(g) : u[1] # x }
<1>1. rf = rg
  BY DEF Units
<1>2. Total(f) = Cardinality(rf) + f[x] /\ Total(g) = Cardinality(rg) + g[x]
  BY TotalSplit
<1>3. IsFiniteSet(rf)
  BY TotalSplit
<1>4. Cardinality(rf) \in Nat
  BY <1>3, FS_CardinalityType
<1>5. f[x] \in Nat /\ g[x] \in Nat
  OBVIOUS
<1> HIDE DEF rf, rg
<1> QED BY <1>1, <1>2, <1>4, <1>5

\* The total of a ledger without keys is zero.
LEMMA TotalEmpty ==
  ASSUME NEW f, DOMAIN f = {}
  PROVE  Total(f) = 0
<1>1. Units(f) = {}
  BY DEF Units
<1> QED BY <1>1, FS_EmptySet DEF Total

\* A new key adds its value to the total.
LEMMA TotalInsert ==
  ASSUME NEW D, IsFiniteSet(D), NEW x, x \notin D,
         NEW f \in [D -> Nat], NEW g \in [D \cup {x} -> Nat],
         \A y \in D : g[y] = f[y]
  PROVE  Total(g) = Total(f) + g[x]
<1> DEFINE rest == { u \in Units(g) : u[1] # x }
<1>1. IsFiniteSet(D \cup {x})
  BY FS_AddElement
<1>2. Total(g) = Cardinality(rest) + g[x]
  BY <1>1, TotalSplit
<1>3. rest = Units(f)
  BY DEF Units
<1> QED BY <1>2, <1>3 DEF Total

\* The same, with a name for the larger set of keys.
LEMMA TotalGrow ==
  ASSUME NEW D, IsFiniteSet(D), NEW x, x \notin D, NEW E, E = D \cup {x},
         NEW f \in [D -> Nat], NEW g \in [E -> Nat], \A y \in D : g[y] = f[y]
  PROVE  Total(g) = Total(f) + g[x]
BY TotalInsert

\* The total of two ledgers added key by key.
LEMMA TotalAdd ==
  ASSUME NEW D, IsFiniteSet(D), NEW f \in [D -> Nat], NEW g \in [D -> Nat],
         NEW h \in [D -> Nat], \A x \in D : h[x] = f[x] + g[x]
  PROVE  Total(h) = Total(f) + Total(g)
<1> DEFINE upper == Units(h) \ Units(f)
           shift == [u \in Units(g) |-> <<u[1], f[u[1]] + u[2]>>]
<1>1. Units(f) \subseteq Units(h)
  BY DEF Units
<1>2. IsFiniteSet(Units(f)) /\ IsFiniteSet(Units(g)) /\ IsFiniteSet(Units(h))
  BY UnitsFinite
<1>3. Cardinality(upper) = Cardinality(Units(h)) - Cardinality(Units(f))
  <2>1. Units(h) \cap Units(f) = Units(f)
    BY <1>1
  <2>2. Cardinality(Units(h) \ Units(f))
          = Cardinality(Units(h)) - Cardinality(Units(h) \cap Units(f))
    BY <1>2, FS_Difference
  <2> QED BY <2>1, <2>2
<1>4. shift \in Bijection(Units(g), upper)
  <2>1. shift \in [Units(g) -> upper]
    <3>1. ASSUME NEW u \in Units(g)
          PROVE  shift[u] \in upper
      <4>1. PICK x \in D : \E i \in 1 .. g[x] : u = <<x, i>>
        BY DEF Units
      <4>0. PICK i \in 1 .. g[x] : u = <<x, i>>
        BY <4>1
      <4>2. f[x] \in Nat /\ g[x] \in Nat /\ h[x] = f[x] + g[x]
        OBVIOUS
      <4>3. f[x] + i \in 1 .. h[x] /\ f[x] + i \notin 1 .. f[x]
        BY <4>2
      <4>4. <<x, f[x] + i>> \in Units(h) /\ <<x, f[x] + i>> \notin Units(f)
        BY <4>3 DEF Units
      <4> QED BY <4>0, <4>4
    <3> HIDE DEF upper
    <3> QED BY <3>1
  <2>2. ASSUME NEW u \in Units(g), NEW v \in Units(g), shift[u] = shift[v]
        PROVE  u = v
    <3>1a. PICK x \in D : \E i \in 1 .. g[x] : u = <<x, i>>
      BY DEF Units
    <3>1. PICK i \in 1 .. g[x] : u = <<x, i>>
      BY <3>1a
    <3>2a. PICK y \in D : \E j \in 1 .. g[y] : v = <<y, j>>
      BY DEF Units
    <3>2. PICK j \in 1 .. g[y] : v = <<y, j>>
      BY <3>2a
    <3>3. <<x, f[x] + i>> = <<y, f[y] + j>>
      BY <2>2, <3>1, <3>2
    <3>4. x = y /\ f[x] + i = f[x] + j
      BY <3>3
    <3>5. f[x] \in Nat /\ i \in Int /\ j \in Int
      OBVIOUS
    <3> QED BY <3>1, <3>2, <3>4, <3>5
  <2>3. ASSUME NEW v \in upper
        PROVE  \E u \in Units(g) : shift[u] = v
    <3>1a. PICK x \in D : \E j \in 1 .. h[x] : v = <<x, j>>
      BY DEF Units
    <3>1. PICK j \in 1 .. h[x] : v = <<x, j>>
      BY <3>1a
    <3>2. j \notin 1 .. f[x]
      BY <3>1 DEF Units
    <3>3. f[x] \in Nat /\ g[x] \in Nat /\ h[x] = f[x] + g[x]
      OBVIOUS
    <3>4. j - f[x] \in 1 .. g[x] /\ f[x] + (j - f[x]) = j
      BY <3>2, <3>3
    <3>5. <<x, j - f[x]>> \in Units(g)
      BY <3>4 DEF Units
    <3>6. shift[<<x, j - f[x]>>] = v
      BY <3>1, <3>4, <3>5
    <3> QED BY <3>5, <3>6
  <2> HIDE DEF shift, upper
  <2> QED BY <2>1, <2>2, <2>3 DEF Bijection, Injection, Surjection, IsInjective
<1>5. Cardinality(upper) = Cardinality(Units(g))
  <2>1. ExistsBijection(Units(g), upper)
    BY <1>4 DEF ExistsBijection
  <2> HIDE DEF upper
  <2> QED BY <2>1, <1>2, FS_Bijection
<1>6. /\ Cardinality(Units(f)) \in Nat /\ Cardinality(Units(g)) \in Nat
      /\ Cardinality(Units(h)) \in Nat
  BY <1>2, FS_CardinalityType
<1> HIDE DEF upper
<1> QED BY <1>3, <1>5, <1>6 DEF Total

\* Counting by rows of c: the position of a unit and its row.
LEMMA RowOfPosition ==
  ASSUME NEW c \in Nat \ {0}, NEW n \in Nat, NEW j \in 1 .. c * n
  PROVE  \E i \in 1 .. n, k \in 1 .. c : j = (i - 1) * c + k
<1> DEFINE q == (j - 1) \div c
           r == (j - 1) % c
<1>1. j - 1 = q * c + r /\ q \in Nat /\ r \in 0 .. (c - 1)
  OBVIOUS
<1> HIDE DEF q, r
<1>2. q < n
  <2>1. SUFFICES ASSUME q >= n PROVE FALSE
    BY <1>1
  <2>2. q * c >= n * c
    BY <1>1, <2>1
  <2>3. j <= c * n /\ c * n = n * c
    OBVIOUS
  <2> QED BY <1>1, <2>2, <2>3
<1>3. q + 1 \in 1 .. n /\ r + 1 \in 1 .. c
  BY <1>1, <1>2
<1>4. j = ((q + 1) - 1) * c + (r + 1)
  BY <1>1
<1> QED BY <1>3, <1>4

\* The position of a unit of a row is one of the positions.
LEMMA PositionInRange ==
  ASSUME NEW c \in Nat \ {0}, NEW n \in Nat, NEW i \in 1 .. n, NEW k \in 1 .. c
  PROVE  (i - 1) * c + k \in 1 .. c * n
<1>1. (i - 1) * c + c = i * c /\ i * c <= n * c /\ n * c = c * n
  OBVIOUS
<1>2. (i - 1) * c >= 0
  OBVIOUS
<1> QED BY <1>1, <1>2

\* No two units have the same position.
LEMMA PositionsDiffer ==
  ASSUME NEW c \in Nat \ {0}, NEW i \in Nat, NEW j \in Nat, NEW k \in 1 .. c,
         NEW l \in 1 .. c, (i - 1) * c + k = (j - 1) * c + l
  PROVE  i = j /\ k = l
<1>1. ASSUME NEW a \in Nat, NEW b \in Nat, a < b PROVE (a - 1) * c + c <= (b - 1) * c
  <2>1. (a - 1) * c + c = a * c
    OBVIOUS
  <2>2. a * c <= (b - 1) * c
    BY <1>1
  <2> QED BY <2>1, <2>2
<1>2. ~(i < j)
  <2>1. SUFFICES ASSUME i < j PROVE FALSE
    OBVIOUS
  <2>2. (i - 1) * c + c <= (j - 1) * c
    BY <1>1, <2>1
  <2> QED BY <2>2
<1>3. ~(j < i)
  <2>1. SUFFICES ASSUME j < i PROVE FALSE
    OBVIOUS
  <2>2. (j - 1) * c + c <= (i - 1) * c
    BY <1>1, <2>1
  <2> QED BY <2>2
<1>4. i = j
  BY <1>2, <1>3
<1> QED BY <1>4

\* The total of a ledger of which every entry is multiplied.
LEMMA TotalScale ==
  ASSUME NEW D, IsFiniteSet(D), NEW f \in [D -> Nat], NEW c \in Nat,
         NEW g \in [D -> Nat], \A x \in D : g[x] = c * f[x]
  PROVE  Total(g) = c * Total(f)
<1>1. CASE c = 0
  <2>1. \A x \in D : g[x] = 0
    BY <1>1
  <2>2. Total(g) = 0
    BY <2>1, TotalZero
  <2>3. Total(f) \in Nat
    BY TotalType
  <2> QED BY <1>1, <2>2, <2>3
<1>2. CASE c # 0
  <2> DEFINE rows == (1 .. c) \X Units(f)
             pos == [u \in rows |-> <<u[2][1], (u[2][2] - 1) * c + u[1]>>]
  <2>1. pos \in [rows -> Units(g)]
    <3>1. ASSUME NEW k \in 1 .. c, NEW x \in D, NEW i \in 1 .. f[x]
          PROVE  <<x, (i - 1) * c + k>> \in Units(g)
      <4>1. (i - 1) * c + k \in 1 .. g[x]
        <5>1. f[x] \in Nat /\ c \in Nat \ {0} /\ g[x] = c * f[x]
          BY <1>2
        <5> QED BY <5>1, PositionInRange
      <4> QED BY <4>1 DEF Units
    <3>2. ASSUME NEW u \in rows PROVE pos[u] \in Units(g)
      <4>1a. PICK k \in 1 .. c, x \in D : \E i \in 1 .. f[x] : u = <<k, <<x, i>> >>
        BY DEF Units
      <4>1. PICK i \in 1 .. f[x] : u = <<k, <<x, i>> >>
        BY <4>1a
      <4> QED BY <3>1, <4>1
    <3> QED BY <3>2
  <2>2. ASSUME NEW u \in rows, NEW v \in rows, pos[u] = pos[v]
        PROVE  u = v
    <3>1a. PICK k \in 1 .. c, x \in D : \E i \in 1 .. f[x] : u = <<k, <<x, i>> >>
      BY DEF Units
    <3>1. PICK i \in 1 .. f[x] : u = <<k, <<x, i>> >>
      BY <3>1a
    <3>2a. PICK l \in 1 .. c, y \in D : \E j \in 1 .. f[y] : v = <<l, <<y, j>> >>
      BY DEF Units
    <3>2. PICK j \in 1 .. f[y] : v = <<l, <<y, j>> >>
      BY <3>2a
    <3>3. <<x, (i - 1) * c + k>> = <<y, (j - 1) * c + l>>
      BY <2>2, <3>1, <3>2
    <3>4. x = y /\ (i - 1) * c + k = (j - 1) * c + l
      BY <3>3
    <3>5. i \in Nat /\ j \in Nat /\ c \in Nat \ {0}
      BY <1>2
    <3>6. i = j /\ k = l
      BY <3>4, <3>5, PositionsDiffer
    <3> QED BY <3>1, <3>2, <3>4, <3>6
  <2>3. ASSUME NEW v \in Units(g)
        PROVE  \E u \in rows : pos[u] = v
    <3>1a. PICK x \in D : \E j \in 1 .. g[x] : v = <<x, j>>
      BY DEF Units
    <3>1. PICK j \in 1 .. g[x] : v = <<x, j>>
      BY <3>1a
    <3>2. f[x] \in Nat /\ c \in Nat \ {0} /\ g[x] = c * f[x]
      BY <1>2
    <3>3a. j \in 1 .. c * f[x]
      BY <3>2
    <3>3. PICK i \in 1 .. f[x], k \in 1 .. c : j = (i - 1) * c + k
      <4> HIDE DEF rows, pos
      <4> QED BY <3>2, <3>3a, RowOfPosition
    <3>4. <<k, <<x, i>> >> \in rows
      BY DEF Units
    <3> QED BY <3>1, <3>3, <3>4
  <2>4. IsFiniteSet(rows) /\ Cardinality(rows) = c * Total(f)
    <3>1. IsFiniteSet(1 .. c) /\ Cardinality(1 .. c) = c
      BY FS_Interval
    <3> QED BY <3>1, UnitsFinite, FS_Product DEF Total
  <2>5. ExistsBijection(rows, Units(g))
    <3> HIDE DEF rows, pos
    <3>1. pos \in Bijection(rows, Units(g))
      BY <2>1, <2>2, <2>3 DEF Bijection, Injection, Surjection, IsInjective
    <3> QED BY <3>1 DEF ExistsBijection
  <2> HIDE DEF rows
  <2> QED BY <2>4, <2>5, FS_Bijection DEF Total
<1> QED BY <1>1, <1>2

\* Handing out an amount by weights, each part rounded down, hands out no more
\* than the amount.
LEMMA TotalShares ==
  ASSUME NEW D, IsFiniteSet(D), NEW w \in [D -> Nat], Total(w) > 0, NEW n \in Nat,
         NEW s \in [D -> Nat], \A x \in D : s[x] = (w[x] * n) \div Total(w)
  PROVE  Total(s) <= n
<1> DEFINE W == Total(w)
           above == [x \in D |-> W * s[x]]
           whole == [x \in D |-> n * w[x]]
<1>1. W \in Nat \ {0}
  BY TotalType
<1> HIDE DEF W
<1>2. above \in [D -> Nat] /\ whole \in [D -> Nat]
  BY <1>1
<1>3. \A x \in D : above[x] <= whole[x]
  <2>1. ASSUME NEW x \in D PROVE W * s[x] <= n * w[x]
    <3>1. w[x] \in Nat /\ s[x] = (w[x] * n) \div W
      BY DEF W
    <3>2. w[x] * n \in Nat /\ w[x] * n = n * w[x]
      BY <3>1
    <3>3. ASSUME NEW t \in Nat PROVE W * (t \div W) <= t
      BY <1>1
    <3> QED BY <3>1, <3>2, <3>3
  <2> QED BY <2>1
<1>4. Total(above) <= Total(whole)
  <2> HIDE DEF above, whole
  <2> QED BY <1>2, <1>3, TotalMonotonic
<1>5. Total(above) = W * Total(s) /\ Total(whole) = n * W
  <2>1. Total(above) = W * Total(s)
    BY <1>1, <1>2, TotalScale
  <2>2. Total(whole) = n * Total(w)
    BY <1>2, TotalScale
  <2> QED BY <2>1, <2>2 DEF W
<1>6. Total(s) \in Nat
  BY TotalType
<1>7. ASSUME NEW t \in Nat, W * t <= n * W PROVE t <= n
  BY <1>1, <1>7
<1> QED BY <1>4, <1>5, <1>6, <1>7

\* The total of a ledger with the same value everywhere.
LEMMA TotalConstant ==
  ASSUME NEW D, IsFiniteSet(D), NEW c \in Nat,
         NEW f \in [D -> Nat], \A x \in D : f[x] = c
  PROVE  Total(f) = c * Cardinality(D)
<1> DEFINE ones == [x \in D |-> 1]
           unit == [x \in D |-> <<x, 1>>]
<1>1. ones \in [D -> Nat] /\ \A x \in D : f[x] = c * ones[x]
  OBVIOUS
<1>2. unit \in Bijection(D, Units(ones))
  <2>1. Units(ones) = { <<x, 1>> : x \in D }
    <3>1. 1 .. 1 = {1}
      OBVIOUS
    <3>2. Units(ones) = UNION { {x} \X {1} : x \in D }
      BY <3>1 DEF Units
    <3> QED BY <3>2
  <2> QED BY <2>1 DEF Bijection, Injection, Surjection, IsInjective
<1>3. Total(ones) = Cardinality(D)
  <2> HIDE DEF ones, unit
  <2>1. Cardinality(Units(ones)) = Cardinality(D)
    BY <1>2, FS_Bijection DEF ExistsBijection
  <2> QED BY <2>1 DEF Total
<1>4. Total(f) = c * Total(ones)
  <2> HIDE DEF ones
  <2> QED BY <1>1, TotalScale
<1> QED BY <1>3, <1>4

\* Handing out an amount by weights, each part rounded down, leaves less than one
\* unit for each of those who get a part.
LEMMA TotalSharesLeave ==
  ASSUME NEW D, IsFiniteSet(D), NEW w \in [D -> Nat], Total(w) > 0, NEW n \in Nat,
         NEW s \in [D -> Nat], \A x \in D : s[x] = (w[x] * n) \div Total(w)
  PROVE  n < Total(s) + Cardinality(D)
<1> DEFINE W == Total(w)
           C == Cardinality(D)
           above == [x \in D |-> W * s[x]]
           gap == [x \in D |-> W - 1]
           most == [x \in D |-> above[x] + gap[x]]
           whole == [x \in D |-> n * w[x]]
<1>1. W \in Nat \ {0} /\ C \in Nat
  BY TotalType, FS_CardinalityType
<1>2. C # 0
  <2>1. ASSUME D = {} PROVE FALSE
    BY <2>1, TotalEmpty
  <2> QED BY <2>1, FS_EmptySet
<1> HIDE DEF W, C
<1>3. above \in [D -> Nat] /\ gap \in [D -> Nat] /\ most \in [D -> Nat] /\ whole \in [D -> Nat]
  <2>1. W - 1 \in Nat
    BY <1>1
  <2>2. ASSUME NEW x \in D PROVE W * s[x] \in Nat /\ n * w[x] \in Nat
    BY <1>1
  <2> QED BY <2>1, <2>2
<1>4. ASSUME NEW x \in D PROVE whole[x] <= most[x]
  <2>1. w[x] \in Nat /\ s[x] = (w[x] * n) \div W
    BY DEF W
  <2>2. w[x] * n \in Nat /\ w[x] * n = n * w[x]
    BY <2>1
  <2>3. ASSUME NEW t \in Nat PROVE t <= W * (t \div W) + (W - 1)
    BY <1>1
  <2> QED BY <2>1, <2>2, <2>3
<1>5. Total(whole) <= Total(most)
  <2> HIDE DEF above, gap, most, whole
  <2> QED BY <1>3, <1>4, TotalMonotonic
<1>6. Total(most) = Total(above) + Total(gap)
  <2>1. \A x \in D : most[x] = above[x] + gap[x]
    OBVIOUS
  <2> HIDE DEF above, gap, most, whole
  <2> QED BY <1>3, <2>1, TotalAdd
<1>7. Total(above) = W * Total(s)
  BY <1>1, <1>3, TotalScale
<1>8. Total(whole) = n * W
  <2>1. Total(whole) = n * Total(w)
    BY <1>3, TotalScale
  <2> QED BY <2>1 DEF W
<1>9. Total(gap) = (W - 1) * C
  <2>1. W - 1 \in Nat /\ \A x \in D : gap[x] = W - 1
    BY <1>1
  <2>2. Total(gap) = (W - 1) * Cardinality(D)
    BY <1>3, <2>1, TotalConstant
  <2> QED BY <2>2 DEF C
<1>10. Total(s) \in Nat
  BY TotalType
<1>11. ASSUME NEW S \in Nat, n * W <= W * S + (W - 1) * C PROVE n < S + C
  <2>1. (W - 1) * C < W * C
    BY <1>1, <1>2
  <2>2. W * S + W * C = (S + C) * W /\ W * S \in Nat /\ (W - 1) * C \in Nat
    BY <1>1
  <2>3. n * W < (S + C) * W
    BY <1>1, <1>11, <2>1, <2>2
  <2>4. CASE n >= S + C
    <3>1. n * W >= (S + C) * W
      BY <1>1, <2>4
    <3>2. n * W \in Nat /\ (S + C) * W \in Nat
      BY <1>1
    <3> QED BY <2>3, <3>1, <3>2
  <2> QED BY <2>4, <1>1
<1> QED BY <1>5, <1>6, <1>7, <1>8, <1>9, <1>10, <1>11 DEF C

\* The total does not depend on the names of the keys.
LEMMA TotalReindex ==
  ASSUME NEW D, IsFiniteSet(D), NEW E, IsFiniteSet(E), NEW h \in Bijection(E, D),
         NEW f \in [D -> Nat], NEW g \in [E -> Nat], \A x \in E : g[x] = f[h[x]]
  PROVE  Total(g) = Total(f)
<1> DEFINE move == [u \in Units(g) |-> <<h[u[1]], u[2]>>]
<1>1. /\ h \in [E -> D] /\ \A x \in E, y \in E : h[x] = h[y] => x = y
      /\ \A d \in D : \E x \in E : h[x] = d
  BY DEF Bijection, Injection, Surjection, IsInjective
<1>2. ASSUME NEW u \in Units(g)
      PROVE  u[1] \in E /\ u[2] \in 1 .. g[u[1]] /\ u = <<u[1], u[2]>>
  BY DEF Units
<1>3. move \in [Units(g) -> Units(f)]
  <2>1. ASSUME NEW u \in Units(g) PROVE <<h[u[1]], u[2]>> \in Units(f)
    <3>1. h[u[1]] \in D /\ u[2] \in 1 .. f[h[u[1]]]
      BY <1>1, <1>2
    <3> QED BY <3>1 DEF Units
  <2> QED BY <2>1
<1>4. ASSUME NEW u \in Units(g), NEW v \in Units(g), move[u] = move[v] PROVE u = v
  <2>1. h[u[1]] = h[v[1]] /\ u[2] = v[2]
    BY <1>4
  <2> QED BY <1>1, <1>2, <2>1
<1>5. ASSUME NEW w \in Units(f) PROVE \E u \in Units(g) : move[u] = w
  <2>0. PICK d \in D : w \in {d} \X (1 .. f[d])
    BY DEF Units
  <2>1. PICK j \in 1 .. f[d] : w = <<d, j>>
    BY <2>0
  <2>2. PICK x \in E : h[x] = d
    BY <1>1
  <2>3. <<x, j>> \in Units(g)
    BY <2>1, <2>2 DEF Units
  <2>4. move[<<x, j>>] = w
    BY <2>1, <2>2, <2>3
  <2> QED BY <2>3, <2>4
<1>6. move \in Bijection(Units(g), Units(f))
  <2> HIDE DEF move
  <2> QED BY <1>3, <1>4, <1>5 DEF Bijection, Injection, Surjection, IsInjective
<1>7. IsFiniteSet(Units(g))
  BY UnitsFinite
<1>8. Cardinality(Units(f)) = Cardinality(Units(g))
  <2> HIDE DEF move
  <2> QED BY <1>6, <1>7, FS_Bijection DEF ExistsBijection
<1> QED BY <1>8 DEF Total

\* g is the list f of n entries without its first.
RestOf(g, f, n) ==
  /\ n \in Nat /\ n > 0 /\ f \in [1 .. n -> Nat] /\ g \in [1 .. n - 1 -> Nat]
  /\ \A i \in 1 .. n - 1 : g[i] = f[i + 1]

\* The total of a list without its first entry.
LEMMA TotalTail ==
  ASSUME NEW n, NEW f, NEW g, RestOf(g, f, n)
  PROVE  Total(f) = f[1] + Total(g)
<1> DEFINE rest == [i \in 2 .. n |-> f[i]]
           next == [i \in 1 .. n - 1 |-> i + 1]
<1>0. /\ n \in Nat /\ n > 0 /\ f \in [1 .. n -> Nat] /\ g \in [1 .. n - 1 -> Nat]
      /\ \A i \in 1 .. n - 1 : g[i] = f[i + 1]
  BY DEF RestOf
<1>1. IsFiniteSet(1 .. n - 1) /\ IsFiniteSet(2 .. n) /\ 1 \notin 2 .. n
      /\ 1 .. n = (2 .. n) \cup {1}
  <2>1. n - 1 \in Int /\ n \in Int /\ 1 \in Int /\ 2 \in Int
    BY <1>0
  <2>2. IsFiniteSet(1 .. n - 1) /\ IsFiniteSet(2 .. n)
    BY <2>1, FS_Interval
  <2>3. 1 \notin 2 .. n /\ 1 .. n = (2 .. n) \cup {1}
    BY <1>0
  <2> QED BY <2>2, <2>3
<1>2. rest \in [2 .. n -> Nat]
  BY <1>0
<1>3. next \in Bijection(1 .. n - 1, 2 .. n)
  <2>1. next \in [1 .. n - 1 -> 2 .. n]
    BY <1>0
  <2>2. \A i \in 1 .. n - 1, j \in 1 .. n - 1 : next[i] = next[j] => i = j
    BY <1>0
  <2>3. \A j \in 2 .. n : \E i \in 1 .. n - 1 : next[i] = j
    <3>1. ASSUME NEW j \in 2 .. n PROVE \E i \in 1 .. n - 1 : next[i] = j
      <4>1. j - 1 \in 1 .. n - 1 /\ next[j - 1] = j
        BY <1>0
      <4> QED BY <4>1
    <3> QED BY <3>1
  <2> HIDE DEF next
  <2> QED BY <2>1, <2>2, <2>3 DEF Bijection, Injection, Surjection, IsInjective
<1>4. \A i \in 1 .. n - 1 : g[i] = rest[next[i]]
  BY <1>0
<1>5. Total(g) = Total(rest)
  <2> DEFINE D == 2 .. n
             E == 1 .. n - 1
  <2>1. IsFiniteSet(D) /\ IsFiniteSet(E) /\ rest \in [D -> Nat] /\ g \in [E -> Nat]
        /\ next \in Bijection(E, D) /\ \A i \in E : g[i] = rest[next[i]]
    BY <1>0, <1>1, <1>2, <1>3, <1>4
  <2> HIDE DEF rest, next, D, E
  <2> QED BY <2>1, TotalReindex
<1>6. f \in [(2 .. n) \cup {1} -> Nat] /\ \A i \in 2 .. n : f[i] = rest[i]
  BY <1>0, <1>1
<1>7. Total(f) = Total(rest) + f[1]
  <2> DEFINE D == 2 .. n
  <2>1. IsFiniteSet(D) /\ rest \in [D -> Nat] /\ 1 \notin D
        /\ f \in [D \cup {1} -> Nat] /\ \A i \in D : f[i] = rest[i]
    BY <1>1, <1>2, <1>6
  <2> HIDE DEF rest, D
  <2> DEFINE E == 1 .. n
             x == 1
  <2>2. x \notin D /\ E = D \cup {x} /\ f \in [E -> Nat]
    BY <1>0, <1>1, <2>1 DEF D
  <2> HIDE DEF E, x
  <2>4. IsFiniteSet(D) /\ rest \in [D -> Nat] /\ \A i \in D : f[i] = rest[i]
    BY <2>1
  <2>3. Total(f) = Total(rest) + f[x]
    BY <2>2, <2>4, TotalGrow
  <2> QED BY <2>3 DEF x
<1>8. Total(rest) \in Nat /\ f[1] \in Nat
  <2>1. 1 \in 1 .. n /\ f[1] \in Nat
    BY <1>0
  <2> HIDE DEF rest
  <2> QED BY <1>1, <1>2, <2>1, TotalType
<1> QED BY <1>5, <1>7, <1>8

\* g is the list f of n entries with one more.
OneMore(g, f, n) ==
  /\ n \in Nat /\ f \in [1 .. n -> Nat] /\ g \in [1 .. n + 1 -> Nat]
  /\ \A i \in 1 .. n : g[i] = f[i]

\* The total of a list with one more entry.
LEMMA TotalAppend ==
  ASSUME NEW n, NEW f, NEW g, OneMore(g, f, n)
  PROVE  Total(g) = Total(f) + g[n + 1]
<1> DEFINE D == 1 .. n
           E == 1 .. n + 1
           x == n + 1
<1>1. /\ x \notin D /\ E = D \cup {x} /\ f \in [D -> Nat] /\ g \in [E -> Nat]
      /\ \A i \in D : g[i] = f[i]
  BY DEF OneMore
<1>2. IsFiniteSet(D)
  <2>1. n \in Int /\ 1 \in Int
    BY DEF OneMore
  <2> QED BY <2>1, FS_Interval
<1> HIDE DEF D, E, x
<1>3. Total(g) = Total(f) + g[x]
  BY <1>1, <1>2, TotalGrow
<1> QED BY <1>3 DEF x

\* Of the ledgers a and b over the keys S, only the entry k may differ.
OneDiffers(a, b, S, k) ==
  /\ IsFiniteSet(S) /\ k \in S /\ a \in [S -> Nat] /\ b \in [S -> Nat]
  /\ \A x \in S \ {k} : b[x] = a[x]

\* TotalChange for two such ledgers.
LEMMA TotalOfChanged ==
  ASSUME NEW a, NEW b, NEW S, NEW k, OneDiffers(a, b, S, k)
  PROVE  Total(b) + a[k] = Total(a) + b[k]
BY TotalChange DEF OneDiffers
=============================================================================
