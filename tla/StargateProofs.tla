--------------------------- MODULE StargateProofs ---------------------------
(***************************************************************************)
(* Proofs about Stargate: the pools of all chains and the messages between *)
(* them.  An inductive invariant says what every message, kept or dropped  *)
(* ones included, will add to or take off the books of its receiver; the   *)
(* properties follow from it.                                              *)
(***************************************************************************)
EXTENDS StargateProperties, StargatePoolProofs, SequenceTheorems

(* The invariant.                                                          *)

BlankPath(x) == x.weight = 0 /\ x.lkb = 0 /\ x.credits = 0 /\ x.balance = 0

\* Paths are between chains, both ends exist before one is ready, and a path
\* that does not exist has nothing.
PathsOK ==
  \A p, q \in Pool :
    LET x == pool[p].chainPaths[q]
    IN  /\ x.created => ChainOf[p] # ChainOf[q]
        /\ x.ready => x.created /\ pool[q].chainPaths[p].created
        /\ ~x.created => BlankPath(x)

\* A message goes along a path that exists at both ends, what a swap takes off
\* it adds up, and only swaps and redemptions carry anything.
MessageOK(m) ==
  /\ pool[m.from].chainPaths[m.to].created /\ pool[m.to].chainPaths[m.from].created
  /\ m.id[1] = ChannelOf(m.from, m.to)
  /\ m.type = "swap" => SwapAdds(m.swap) /\ m.amountSD = 0 /\ m.mintSD = 0
  /\ m.type # "swap" => m.swap = NoSwap
  /\ m.type = "redeem" => m.mintSD = 0
  /\ m.type \in {"redeem", "response", "callback"} => m.user \in User

MessagesOK ==
  /\ \A m \in Outstanding : MessageOK(m)
  /\ \A m \in InFlight : m.type # "response"
  /\ \A m \in revertLookup : m.credit = NoCredit /\ m.type \in {"swap", "callback", "response"}

\* The messages of a channel have consecutive nonces up to the last one sent;
\* what is kept or was dropped was delivered before, each message once.
IdsOK ==
  /\ \A k \in Channel :
       /\ Len(channel[k]) <= outNonce[k]
       /\ \A i \in 1 .. Len(channel[k]) :
            channel[k][i].id = <<k, outNonce[k] - Len(channel[k]) + i>>
  /\ \A m \in revertLookup \cup dropped :
       m.id[2] <= outNonce[m.id[1]] - Len(channel[m.id[1]])
  /\ \A m, n \in revertLookup \cup dropped : m.id = n.id => m = n
  /\ revertLookup \cap dropped = {}

\* Redemptions that are not answered yet: their answers need nonces too.
Unanswered(m) == IF m.type \in {"redeem", "response"} THEN 1 ELSE 0
Answers == Total([m \in Outstanding |-> Unanswered(m)])

NoncesOK ==
  /\ Answers <= Total(outNonce)
  /\ Answers + Total(outNonce) <= 2 * MaxSent

\* Whoever waits for the answer to a redemption has a path with weight.
HasWeight(m) ==
  /\ m.type \in {"redeem", "response"} => TotalWeight(pool[m.from]) > 0
  /\ m.type = "callback" => TotalWeight(pool[m.to]) > 0

\* So it is unless the DAO sets a weight to zero.
WeightsOK == 0 \notin Weights => \A m \in Outstanding : HasWeight(m)

StargateInv ==
  /\ TypeOK /\ IsFiniteSet(Outstanding)
  /\ \A p \in Pool : PoolOK(pool[p])
  /\ PathsOK /\ MessagesOK /\ IdsOK /\ NoncesOK /\ WeightsOK
  /\ PathsAgree /\ GlobalSolvency
-----------------------------------------------------------------------------
(* Sums over messages. *)

ClaimsOn(S, x, y) == Total([m \in S |-> Claim(m, x, y)])
LoadOn(S) == Total([m \in S |-> Carried(m)])
AnswersOn(S) == Total([m \in S |-> Unanswered(m)])

\* The parts of a message, and what it claims and carries, are naturals.
LEMMA MessageTypes ==
  ASSUME NEW m \in Message
  PROVE  /\ m.from \in Pool /\ m.to \in Pool /\ m.swap \in SwapObj
         /\ m.credit \in CreditObj /\ m.credit.credits \in Nat
         /\ m.amountSD \in Nat /\ m.mintSD \in Nat
         /\ m.swap.lkbRemove \in Nat /\ m.swap.lpFee \in Nat
         /\ m.id \in TransferId /\ m.origin \in TransferId
         /\ m.user \in User \cup {NoUser} /\ m.payload \in BOOLEAN
         /\ Carried(m) \in Nat /\ Unanswered(m) \in {0, 1}
         /\ \A x, y : Claim(m, x, y) \in Nat
<1>1. /\ m.from \in Pool /\ m.to \in Pool /\ m.swap \in SwapObj
      /\ m.credit \in CreditObj /\ m.amountSD \in Nat /\ m.mintSD \in Nat
      /\ m.id \in TransferId /\ m.origin \in TransferId
      /\ m.user \in User \cup {NoUser} /\ m.payload \in BOOLEAN
  BY DEF Message
<1>2. /\ m.credit.credits \in Nat /\ m.swap.lkbRemove \in Nat
      /\ m.swap.lpFee \in Nat
  BY <1>1 DEF SwapObj, CreditObj
<1>3. Carried(m) \in Nat /\ Unanswered(m) \in {0, 1}
  BY <1>1, <1>2 DEF Carried, Unanswered
<1>4. ASSUME NEW x, NEW y PROVE Claim(m, x, y) \in Nat
  BY <1>1, <1>2 DEF Claim
<1> QED BY <1>1, <1>2, <1>3, <1>4

\* The sums are naturals, and cover each message.
LEMMA SumTypes ==
  ASSUME NEW S \in SUBSET Message, IsFiniteSet(S)
  PROVE  /\ LoadOn(S) \in Nat /\ AnswersOn(S) \in Nat
         /\ \A m \in S : Unanswered(m) <= AnswersOn(S)
         /\ \A x, y : ClaimsOn(S, x, y) \in Nat
                      /\ \A m \in S : Claim(m, x, y) <= ClaimsOn(S, x, y)
<1>1. LoadOn(S) \in Nat
  <2>1. [m \in S |-> Carried(m)] \in [S -> Nat]
    BY MessageTypes
  <2> QED BY <2>1, TotalType DEF LoadOn
<1>2. AnswersOn(S) \in Nat /\ \A m \in S : Unanswered(m) <= AnswersOn(S)
  <2> DEFINE f == [m \in S |-> Unanswered(m)]
  <2>1. f \in [S -> Nat] /\ \A m \in S : f[m] = Unanswered(m)
    BY MessageTypes
  <2> HIDE DEF f
  <2>2. Total(f) \in Nat /\ \A m \in S : f[m] <= Total(f)
    BY <2>1, TotalType, TotalMember
  <2> QED BY <2>1, <2>2 DEF AnswersOn, f
<1>3. ASSUME NEW x, NEW y
      PROVE  ClaimsOn(S, x, y) \in Nat /\ \A m \in S : Claim(m, x, y) <= ClaimsOn(S, x, y)
  <2> DEFINE f == [m \in S |-> Claim(m, x, y)]
  <2>1. f \in [S -> Nat] /\ \A m \in S : f[m] = Claim(m, x, y)
    BY MessageTypes
  <2> HIDE DEF f
  <2>2. Total(f) \in Nat /\ \A m \in S : f[m] <= Total(f)
    BY <2>1, TotalType, TotalMember
  <2> QED BY <2>1, <2>2 DEF ClaimsOn, f
<1> QED BY <1>1, <1>2, <1>3

\* Another message adds what it claims and carries.
LEMMA SumsJoin ==
  ASSUME NEW S \in SUBSET Message, IsFiniteSet(S), NEW m \in Message, m \notin S
  PROVE  /\ LoadOn(S \cup {m}) = LoadOn(S) + Carried(m)
         /\ AnswersOn(S \cup {m}) = AnswersOn(S) + Unanswered(m)
         /\ \A x, y : ClaimsOn(S \cup {m}, x, y) = ClaimsOn(S, x, y) + Claim(m, x, y)
<1> DEFINE T == S \cup {m}
<1>1. \A n \in T : n \in Message
  OBVIOUS
<1>2. LoadOn(T) = LoadOn(S) + Carried(m)
  <2> DEFINE f == [n \in S |-> Carried(n)]
             g == [n \in T |-> Carried(n)]
  <2>1. f \in [S -> Nat] /\ g \in [S \cup {m} -> Nat] /\ \A n \in S : g[n] = f[n]
    BY <1>1, MessageTypes
  <2>2. g[m] = Carried(m)
    OBVIOUS
  <2> HIDE DEF f, g
  <2>3. Total(g) = Total(f) + g[m]
    BY <2>1, TotalInsert
  <2> QED BY <2>2, <2>3 DEF f, g, LoadOn
<1>3. AnswersOn(T) = AnswersOn(S) + Unanswered(m)
  <2> DEFINE f == [n \in S |-> Unanswered(n)]
             g == [n \in T |-> Unanswered(n)]
  <2>1. f \in [S -> Nat] /\ g \in [S \cup {m} -> Nat] /\ \A n \in S : g[n] = f[n]
    BY <1>1, MessageTypes
  <2>2. g[m] = Unanswered(m)
    OBVIOUS
  <2> HIDE DEF f, g
  <2>3. Total(g) = Total(f) + g[m]
    BY <2>1, TotalInsert
  <2> QED BY <2>2, <2>3 DEF f, g, AnswersOn
<1>4. ASSUME NEW x, NEW y
      PROVE  ClaimsOn(T, x, y) = ClaimsOn(S, x, y) + Claim(m, x, y)
  <2> DEFINE f == [n \in S |-> Claim(n, x, y)]
             g == [n \in T |-> Claim(n, x, y)]
  <2>1. f \in [S -> Nat] /\ g \in [S \cup {m} -> Nat] /\ \A n \in S : g[n] = f[n]
    BY <1>1, MessageTypes
  <2>2. g[m] = Claim(m, x, y)
    OBVIOUS
  <2> HIDE DEF f, g
  <2>3. Total(g) = Total(f) + g[m]
    BY <2>1, TotalInsert
  <2> QED BY <2>2, <2>3 DEF f, g, ClaimsOn
<1> QED BY <1>2, <1>3, <1>4

\* A message that leaves takes off what it claimed and carried.
LEMMA SumsLeave ==
  ASSUME NEW S \in SUBSET Message, IsFiniteSet(S), NEW m \in S
  PROVE  /\ IsFiniteSet(S \ {m}) /\ S \ {m} \subseteq Message
         /\ LoadOn(S) = LoadOn(S \ {m}) + Carried(m)
         /\ AnswersOn(S) = AnswersOn(S \ {m}) + Unanswered(m)
         /\ \A x, y : ClaimsOn(S, x, y) = ClaimsOn(S \ {m}, x, y) + Claim(m, x, y)
<1> DEFINE R == S \ {m}
<1>1. IsFiniteSet(R) /\ R \in SUBSET Message /\ m \in Message /\ m \notin R
      /\ R \cup {m} = S
  BY FS_Subset
<1> HIDE DEF R
<1>2. /\ LoadOn(R \cup {m}) = LoadOn(R) + Carried(m)
      /\ AnswersOn(R \cup {m}) = AnswersOn(R) + Unanswered(m)
      /\ \A x, y : ClaimsOn(R \cup {m}, x, y) = ClaimsOn(R, x, y) + Claim(m, x, y)
  BY <1>1, SumsJoin
<1> QED BY <1>1, <1>2 DEF R
-----------------------------------------------------------------------------
(* The order of the messages. *)

\* Two messages at the same distance from the end of a queue are the same.
LEMMA SamePlace ==
  ASSUME NEW s, NEW a \in Int, NEW l \in Int, NEW e, NEW m, NEW n,
         \E i \in 1 .. l : m = s[i] /\ e = a - l + i,
         \E j \in 1 .. l : n = s[j] /\ e = a - l + j
  PROVE  m = n
<1>1. PICK i \in 1 .. l : m = s[i] /\ e = a - l + i
  OBVIOUS
<1>2. PICK j \in 1 .. l : n = s[j] /\ e = a - l + j
  OBVIOUS
<1>3. i = j
  BY <1>1, <1>2
<1> QED BY <1>1, <1>2, <1>3

\* Every outstanding message has an id of its own, with a nonce already used.
LEMMA IdsKnown ==
  ASSUME TypeOK, IdsOK
  PROVE  /\ Outstanding \subseteq Message
         /\ \A m \in Outstanding : m.id[1] \in Channel /\ m.id[2] <= outNonce[m.id[1]]
         /\ \A m, n \in Outstanding : m.id = n.id => m = n
         /\ \A m \in InFlight : m \notin revertLookup \cup dropped
<1>1. Outstanding \subseteq Message
  BY ElementOfSeq DEF TypeOK, Outstanding, InFlight
<1>2. \A m \in Outstanding : m.id[1] \in Channel /\ m.id[2] \in Nat
  BY <1>1, MessageTypes DEF TransferId
<1>3. ASSUME NEW m \in InFlight
      PROVE  /\ m.id[2] <= outNonce[m.id[1]]
             /\ m.id[2] > outNonce[m.id[1]] - Len(channel[m.id[1]])
             /\ \E i \in 1 .. Len(channel[m.id[1]]) :
                  /\ m = channel[m.id[1]][i]
                  /\ m.id[2] = outNonce[m.id[1]] - Len(channel[m.id[1]]) + i
  <2>1. PICK k \in Channel : \E i \in DOMAIN channel[k] : m = channel[k][i]
    BY DEF InFlight
  <2>2. channel[k] \in Seq(Message) /\ outNonce[k] \in Nat
    BY DEF TypeOK
  <2>3. PICK i \in 1 .. Len(channel[k]) : m = channel[k][i]
    BY <2>1, <2>2, LenProperties
  <2>4. m.id = <<k, outNonce[k] - Len(channel[k]) + i>>
    BY <2>3 DEF IdsOK
  <2>5. Len(channel[k]) \in Nat
    BY <2>2, LenProperties
  <2> QED BY <2>2, <2>3, <2>4, <2>5
<1>4. \A m \in revertLookup \cup dropped :
        m.id[2] <= outNonce[m.id[1]] - Len(channel[m.id[1]])
  BY DEF IdsOK
<1>5. \A m \in Outstanding : outNonce[m.id[1]] \in Nat /\ Len(channel[m.id[1]]) \in Nat
  BY <1>2, LenProperties DEF TypeOK
<1>6. \A m \in InFlight, n \in revertLookup \cup dropped : m.id # n.id
  <2> SUFFICES ASSUME NEW m \in InFlight, NEW n \in revertLookup \cup dropped,
                      m.id = n.id
               PROVE  FALSE
    OBVIOUS
  <2>1. m \in Outstanding
    BY DEF Outstanding
  <2> DEFINE a == outNonce[m.id[1]]
             l == Len(channel[m.id[1]])
             i == m.id[2]
  <2>2. a \in Nat /\ l \in Nat /\ i \in Nat
    BY <1>2, <1>5, <2>1
  <2>3. i > a - l
    BY <1>3
  <2>4. i <= a - l
    BY <1>4
  <2> HIDE DEF a, l, i
  <2> QED BY <2>2, <2>3, <2>4
<1>7. \A m \in Outstanding : m.id[2] <= outNonce[m.id[1]]
  <2> SUFFICES ASSUME NEW m \in Outstanding PROVE m.id[2] <= outNonce[m.id[1]]
    OBVIOUS
  <2>1. CASE m \in InFlight
    BY <1>3, <2>1
  <2>2. CASE m \in revertLookup \cup dropped
    BY <1>2, <1>4, <1>5, <2>2
  <2> QED BY <2>1, <2>2 DEF Outstanding
<1>8. \A m, n \in Outstanding : m.id = n.id => m = n
  <2> SUFFICES ASSUME NEW m \in Outstanding, NEW n \in Outstanding, m.id = n.id
               PROVE  m = n
    BY Zenon
  <2>1. CASE m \in InFlight /\ n \in InFlight
    <3> DEFINE s == channel[m.id[1]]
               a == outNonce[m.id[1]]
               l == Len(s)
               e == m.id[2]
    <3>1. a \in Int /\ l \in Int
      BY <1>5
    <3>2. \E i \in 1 .. l : m = s[i] /\ e = a - l + i
      BY <1>3, <2>1, Zenon
    <3>3. \E j \in 1 .. l : n = s[j] /\ e = a - l + j
      <4>1. \E j \in 1 .. Len(channel[n.id[1]]) :
              /\ n = channel[n.id[1]][j]
              /\ n.id[2] = outNonce[n.id[1]] - Len(channel[n.id[1]]) + j
        BY <1>3, <2>1, Zenon
      <4> QED BY <4>1, Zenon
    <3> HIDE DEF s, a, l, e
    <3> QED BY <3>1, <3>2, <3>3, SamePlace, Zenon
  <2>2. CASE m \in InFlight /\ n \notin InFlight
    BY <1>6, <2>2 DEF Outstanding
  <2>3. CASE m \notin InFlight /\ n \in InFlight
    BY <1>6, <2>3 DEF Outstanding
  <2>4. CASE m \notin InFlight /\ n \notin InFlight
    BY <2>4 DEF Outstanding, IdsOK
  <2> QED BY <2>1, <2>2, <2>3, <2>4
<1> QED BY <1>1, <1>2, <1>6, <1>7, <1>8

\* A message that is sent is new, and keeps the order.
LEMMA SendOrder ==
  ASSUME TypeOK, IdsOK, NEW k \in Channel, NEW m \in Message,
         m.id = <<k, outNonce[k] + 1>>,
         channel' = [channel EXCEPT ![k] = Append(@, m)],
         outNonce' = [outNonce EXCEPT ![k] = @ + 1],
         revertLookup' \subseteq revertLookup, UNCHANGED dropped
  PROVE  /\ IdsOK' /\ m \notin Outstanding /\ InFlight' = InFlight \cup {m}
         /\ DOMAIN channel' = Channel /\ \A c \in Channel : channel'[c] \in Seq(Message)
         /\ outNonce' \in [Channel -> Nat]
<1> DEFINE s == channel[k]
           t == Append(s, m)
<1>1. /\ s \in Seq(Message) /\ outNonce[k] \in Nat /\ outNonce \in [Channel -> Nat]
      /\ DOMAIN channel = Channel /\ Len(s) \in Nat
      /\ \A c \in Channel : channel[c] \in Seq(Message) /\ Len(channel[c]) \in Nat
  BY LenProperties DEF TypeOK
<1>2. /\ channel'[k] = t /\ \A c \in Channel \ {k} : channel'[c] = channel[c]
      /\ outNonce'[k] = outNonce[k] + 1
      /\ \A c \in Channel \ {k} : outNonce'[c] = outNonce[c]
      /\ DOMAIN channel' = Channel /\ outNonce' \in [Channel -> Nat]
  BY <1>1
<1>3. /\ t \in Seq(Message) /\ Len(t) = Len(s) + 1 /\ t[Len(s) + 1] = m
      /\ \A i \in 1 .. Len(s) : t[i] = s[i]
  <2> HIDE DEF s
  <2> QED BY <1>1, AppendProperties
<1> HIDE DEF s, t
<1>4. m \notin Outstanding
  <2> SUFFICES ASSUME m \in Outstanding PROVE FALSE
    OBVIOUS
  <2>1. m.id[2] <= outNonce[m.id[1]] /\ m.id[1] = k /\ m.id[2] = outNonce[k] + 1
    BY IdsKnown
  <2> QED BY <1>1, <2>1
<1>5. InFlight' = InFlight \cup {m}
  <2>1. \A c \in Channel : DOMAIN channel[c] = 1 .. Len(channel[c])
    BY <1>1, LenProperties
  <2>2. DOMAIN t = 1 .. Len(t)
    BY <1>3, LenProperties
  <2>3. {t[i] : i \in DOMAIN t} = {s[i] : i \in 1 .. Len(s)} \cup {m}
    <3>1. 1 .. Len(t) = (1 .. Len(s)) \cup {Len(s) + 1}
      BY <1>1, <1>3
    <3>2. (\A i \in 1 .. Len(s) : t[i] = s[i]) /\ t[Len(s) + 1] = m
      BY <1>1, <1>3
    <3> QED BY <2>2, <3>1, <3>2
  <2>4. \A c \in Channel : {channel'[c][i] : i \in DOMAIN channel'[c]}
          = {channel[c][i] : i \in DOMAIN channel[c]} \cup (IF c = k THEN {m} ELSE {})
    <3> SUFFICES ASSUME NEW c \in Channel
                 PROVE  {channel'[c][i] : i \in DOMAIN channel'[c]}
                   = {channel[c][i] : i \in DOMAIN channel[c]} \cup (IF c = k THEN {m} ELSE {})
      OBVIOUS
    <3>1. CASE c = k
      <4>1. channel'[c] = t /\ channel[c] = s /\ DOMAIN s = 1 .. Len(s)
        BY <1>2, <2>1, <3>1 DEF s
      <4> QED BY <2>3, <3>1, <4>1
    <3>2. CASE c # k
      <4>1. channel'[c] = channel[c]
        BY <1>2, <3>2
      <4> QED BY <3>2, <4>1
    <3> QED BY <3>1, <3>2
  <2>5. InFlight' = UNION {{channel'[c][i] : i \in DOMAIN channel'[c]} : c \in Channel}
    BY DEF InFlight
  <2>6. ASSUME NEW x \in InFlight' PROVE x \in InFlight \cup {m}
    <3>1. PICK c \in Channel : x \in {channel'[c][i] : i \in DOMAIN channel'[c]}
      BY <2>5
    <3>2. x \in {channel[c][i] : i \in DOMAIN channel[c]} \cup {m}
      BY <2>4, <3>1
    <3> QED BY <3>2 DEF InFlight
  <2>7. ASSUME NEW x \in InFlight PROVE x \in InFlight'
    <3>1. PICK c \in Channel : x \in {channel[c][i] : i \in DOMAIN channel[c]}
      BY DEF InFlight
    <3>2. x \in {channel'[c][i] : i \in DOMAIN channel'[c]}
      BY <2>4, <3>1
    <3> QED BY <2>5, <3>2
  <2>8. m \in InFlight'
    <3>1. m \in {channel'[k][i] : i \in DOMAIN channel'[k]}
      BY <2>4
    <3> QED BY <2>5, <3>1
  <2> QED BY <2>6, <2>7, <2>8
<1>6. \A c \in Channel : channel'[c] \in Seq(Message)
  BY <1>1, <1>2, <1>3
<1>7. \A c \in Channel : Len(channel'[c]) <= outNonce'[c]
  BY <1>1, <1>2, <1>3 DEF IdsOK, s
<1>8. ASSUME NEW c \in Channel, NEW i \in 1 .. Len(channel'[c])
      PROVE  channel'[c][i].id = <<c, outNonce'[c] - Len(channel'[c]) + i>>
  <2>1. CASE c # k
    BY <1>2, <2>1 DEF IdsOK
  <2>2. CASE c = k /\ i = Len(s) + 1
    <3>1. outNonce'[c] - Len(channel'[c]) + i = outNonce[k] + 1
      BY <1>1, <1>2, <1>3, <2>2
    <3> QED BY <1>2, <1>3, <2>2, <3>1
  <2>3. CASE c = k /\ i # Len(s) + 1
    <3>1. i \in 1 .. Len(s)
      BY <1>1, <1>2, <1>3, <2>3
    <3>2. channel'[c][i] = s[i]
      BY <1>2, <1>3, <2>3, <3>1
    <3>3. s[i].id = <<k, outNonce[k] - Len(s) + i>>
      BY <3>1 DEF IdsOK, s
    <3>4. outNonce'[c] - Len(channel'[c]) + i = outNonce[k] - Len(s) + i
      BY <1>1, <1>2, <1>3, <2>3
    <3> QED BY <2>3, <3>2, <3>3, <3>4
  <2> QED BY <2>1, <2>2, <2>3
<1>9. ASSUME NEW n \in revertLookup' \cup dropped'
      PROVE  n.id[2] <= outNonce'[n.id[1]] - Len(channel'[n.id[1]])
  <2>1. n \in revertLookup \cup dropped
    OBVIOUS
  <2>2. n.id[1] \in Channel /\ n.id[2] \in Nat
    BY <2>1, MessageTypes DEF TypeOK, TransferId
  <2>3. n.id[2] <= outNonce[n.id[1]] - Len(channel[n.id[1]])
    BY <2>1 DEF IdsOK
  <2>4. outNonce'[n.id[1]] - Len(channel'[n.id[1]])
          = outNonce[n.id[1]] - Len(channel[n.id[1]])
    <3>1. CASE n.id[1] # k
      BY <1>2, <2>2, <3>1
    <3>2. CASE n.id[1] = k
      BY <1>1, <1>2, <1>3, <3>2 DEF s
    <3> QED BY <3>1, <3>2
  <2> QED BY <2>3, <2>4
<1>10. /\ \A n, o \in revertLookup' \cup dropped' : n.id = o.id => n = o
       /\ revertLookup' \cap dropped' = {}
  BY DEF IdsOK
<1> QED BY <1>2, <1>4, <1>5, <1>6, <1>7, <1>8, <1>9, <1>10 DEF IdsOK

\* A message that is delivered, and kept as n, kept for the record or not at
\* all, leaves its channel and nothing else, and keeps the order.
LEMMA DeliverOrder ==
  ASSUME TypeOK, IdsOK, NEW k \in Channel, channel[k] # <<>>,
         NEW n \in Message, n.id = Head(channel[k]).id,
         channel' = [channel EXCEPT ![k] = Tail(@)], UNCHANGED outNonce,
         \/ revertLookup' = revertLookup /\ dropped' = dropped
         \/ revertLookup' = revertLookup \cup {n} /\ dropped' = dropped
         \/ revertLookup' = revertLookup /\ dropped' = dropped \cup {n}
  PROVE  LET m == Head(channel[k])
         IN  /\ IdsOK' /\ m \in InFlight /\ InFlight' = InFlight \ {m}
             /\ m.id[1] = k /\ \A o \in revertLookup \cup dropped : o.id # m.id
             /\ DOMAIN channel' = Channel
             /\ \A c \in Channel : channel'[c] \in Seq(Message)
             /\ outNonce' \in [Channel -> Nat]
<1> DEFINE s == channel[k]
           t == Tail(s)
           m == Head(s)
<1>1. /\ s \in Seq(Message) /\ s # <<>> /\ outNonce[k] \in Nat
      /\ outNonce \in [Channel -> Nat]
      /\ DOMAIN channel = Channel /\ Len(s) \in Nat
      /\ \A c \in Channel : channel[c] \in Seq(Message) /\ Len(channel[c]) \in Nat
  BY LenProperties DEF TypeOK
<1>2. /\ channel'[k] = t /\ \A c \in Channel \ {k} : channel'[c] = channel[c]
      /\ outNonce' = outNonce /\ DOMAIN channel' = Channel
  BY <1>1
<1>3. /\ t \in Seq(Message) /\ Len(t) = Len(s) - 1 /\ Len(s) >= 1 /\ m = s[1]
      /\ \A i \in 1 .. Len(t) : t[i] = s[i + 1]
  <2> HIDE DEF s
  <2>1. t \in Seq(Message) /\ Len(t) = Len(s) - 1 /\ \A i \in 1 .. Len(t) : t[i] = s[i + 1]
    BY <1>1, HeadTailProperties
  <2>2. Len(s) >= 1
    BY <1>1, EmptySeq
  <2> QED BY <1>1, <2>1, <2>2
<1> HIDE DEF s, t, m
<1>4. m.id = <<k, outNonce[k] - Len(s) + 1>>
  BY <1>3 DEF IdsOK, s
<1>5. \A c \in Channel : DOMAIN channel[c] = 1 .. Len(channel[c])
  BY <1>1, LenProperties
<1>6. m \in InFlight
  BY <1>3, <1>5 DEF InFlight, s
<1>7. \A o \in revertLookup \cup dropped : o.id # m.id
  <2> SUFFICES ASSUME NEW o \in revertLookup \cup dropped, o.id = m.id PROVE FALSE
    OBVIOUS
  <2>1. o.id[2] <= outNonce[k] - Len(s)
    BY <1>4 DEF IdsOK, s
  <2> QED BY <1>1, <1>4, <2>1
<1>8. InFlight' = InFlight \ {m}
  <2>1. ASSUME NEW x \in InFlight' PROVE x \in InFlight \ {m}
    <3>1. PICK c \in Channel : \E i \in DOMAIN channel'[c] : x = channel'[c][i]
      BY DEF InFlight
    <3>2. CASE c = k
      <4>1. PICK i \in 1 .. Len(t) : x = t[i]
        BY <1>2, <1>3, <3>1, <3>2, LenProperties
      <4>2. i + 1 \in 1 .. Len(s) /\ x = s[i + 1]
        BY <1>1, <1>3, <4>1
      <4>3. x \in InFlight
        BY <1>5, <4>2 DEF InFlight, s
      <4>4. x.id = <<k, outNonce[k] - Len(s) + (i + 1)>>
        BY <4>2 DEF IdsOK, s
      <4>5. x # m
        BY <1>1, <1>4, <4>1, <4>4
      <4> QED BY <4>3, <4>5
    <3>3. CASE c # k
      <4>1. PICK i \in 1 .. Len(channel[c]) : x = channel[c][i]
        BY <1>2, <1>5, <3>1, <3>3
      <4>2. x \in InFlight
        BY <1>5, <4>1 DEF InFlight
      <4>3. x.id[1] = c
        BY <4>1 DEF IdsOK
      <4> QED BY <1>4, <3>3, <4>2, <4>3
    <3> QED BY <3>2, <3>3
  <2>2. ASSUME NEW x \in InFlight, x # m PROVE x \in InFlight'
    <3>1. PICK c \in Channel : \E i \in DOMAIN channel[c] : x = channel[c][i]
      BY DEF InFlight
    <3>2. CASE c = k
      <4>1. PICK i \in 1 .. Len(s) : x = s[i]
        BY <1>5, <3>1, <3>2 DEF s
      <4>2. i # 1
        BY <1>3, <2>2, <4>1
      <4>3. i - 1 \in 1 .. Len(t) /\ (i - 1) + 1 = i
        BY <1>1, <1>3, <4>1, <4>2
      <4>4. x = t[i - 1]
        BY <1>3, <4>1, <4>3
      <4>5. DOMAIN t = 1 .. Len(t)
        BY <1>3, LenProperties
      <4>6. i - 1 \in DOMAIN channel'[k] /\ x = channel'[k][i - 1]
        BY <1>2, <4>3, <4>4, <4>5
      <4> QED BY <4>6 DEF InFlight
    <3>3. CASE c # k
      BY <1>2, <3>1, <3>3 DEF InFlight
    <3> QED BY <3>2, <3>3
  <2> QED BY <2>1, <2>2
<1>9. \A c \in Channel : channel'[c] \in Seq(Message)
  BY <1>1, <1>2, <1>3
<1>10. \A c \in Channel : Len(channel'[c]) <= outNonce'[c]
  <2> SUFFICES ASSUME NEW c \in Channel PROVE Len(channel'[c]) <= outNonce'[c]
    OBVIOUS
  <2>1. Len(channel[c]) <= outNonce[c] /\ outNonce[c] \in Nat
    BY <1>1 DEF IdsOK
  <2> QED BY <1>1, <1>2, <1>3, <2>1 DEF s
<1>11. ASSUME NEW c \in Channel, NEW i \in 1 .. Len(channel'[c])
      PROVE  channel'[c][i].id = <<c, outNonce'[c] - Len(channel'[c]) + i>>
  <2>1. CASE c # k
    BY <1>2, <2>1 DEF IdsOK
  <2>2. CASE c = k
    <3>0. i \in 1 .. Len(t)
      BY <1>2, <2>2
    <3>1. i \in 1 .. Len(t) /\ i + 1 \in 1 .. Len(s) /\ channel'[c][i] = s[i + 1]
      <4>1. i + 1 \in 1 .. Len(s)
        BY <1>1, <1>3, <3>0
      <4>2. t[i] = s[i + 1]
        BY <1>3, <3>0
      <4> QED BY <1>2, <2>2, <3>0, <4>1, <4>2
    <3>2. s[i + 1].id = <<k, outNonce[k] - Len(s) + (i + 1)>>
      BY <3>1 DEF IdsOK, s
    <3>3. outNonce'[c] - Len(channel'[c]) + i = outNonce[k] - Len(s) + (i + 1)
      <4> DEFINE a == outNonce[k]
                 l == Len(s)
      <4>1. a \in Nat /\ l \in Nat /\ l > 0 /\ outNonce'[c] = a /\ channel'[c] = t
        BY <1>1, <1>2, <1>3, <2>2
      <4>2. Len(channel'[c]) = l - 1
        BY <1>3, <4>1
      <4>3. i \in Int
        BY <3>0
      <4> HIDE DEF a, l
      <4>4. a - (l - 1) + i = a - l + (i + 1)
        BY <4>1, <4>3
      <4> QED BY <4>1, <4>2, <4>4 DEF a, l
    <3> QED BY <2>2, <3>1, <3>2, <3>3
  <2> QED BY <2>1, <2>2
<1>12. ASSUME NEW o \in revertLookup' \cup dropped'
      PROVE  o.id[2] <= outNonce'[o.id[1]] - Len(channel'[o.id[1]])
  <2>1. CASE o \in revertLookup \cup dropped
    <3>1. o.id[1] \in Channel /\ o.id[2] \in Nat
      <4>1. o \in Message
        BY <2>1 DEF TypeOK
      <4>2. o.id \in TransferId
        BY <4>1, MessageTypes
      <4> QED BY <4>2 DEF TransferId
    <3>2. o.id[2] <= outNonce[o.id[1]] - Len(channel[o.id[1]])
      BY <2>1 DEF IdsOK
    <3>3. CASE o.id[1] # k
      BY <1>2, <3>1, <3>2, <3>3
    <3>4. CASE o.id[1] = k
      BY <1>1, <1>2, <1>3, <3>1, <3>2, <3>4 DEF s
    <3> QED BY <3>3, <3>4
  <2>2. CASE o = n
    <3>1. o.id = m.id
      BY <2>2 DEF m, s
    <3> QED BY <1>1, <1>2, <1>3, <1>4, <3>1
  <2> QED BY <2>1, <2>2
<1>13. \A o \in revertLookup \cup dropped : o.id # n.id
  BY <1>7 DEF m, s
<1>14. \A o, r \in revertLookup' \cup dropped' : o.id = r.id => o = r
  BY <1>13 DEF IdsOK
<1>15. revertLookup' \cap dropped' = {}
  BY <1>13 DEF IdsOK
<1>16. m.id[1] = k
  BY <1>4
<1> QED BY <1>1, <1>2, <1>6, <1>7, <1>8, <1>9, <1>10, <1>11, <1>12, <1>14, <1>15, <1>16
        DEF IdsOK, m, s
-----------------------------------------------------------------------------
(* Steps of a pool, one after the other; the calls of the DAO. *)

\* The price of a share does not see a step that leaves the shares alone.
LEMMA PriceChain ==
  ASSUME NEW P \in PoolState, NEW Q \in PoolState, NEW R \in PoolState
  PROVE  /\ SameShares(P, Q) => PriceKept(P, Q)
         /\ SameShares(P, Q) /\ PriceKept(Q, R) => PriceKept(P, R)
         /\ PriceKept(P, Q) /\ SameShares(Q, R) => PriceKept(P, R)
<1>1. /\ P.totalLiquidity \in Nat /\ TotalSupply(P) \in Nat
      /\ Q.totalLiquidity \in Nat /\ TotalSupply(Q) \in Nat
  BY PoolTypes, MapTypes
<1>2. /\ SameShares(P, Q) => TotalSupply(Q) = TotalSupply(P)
      /\ SameShares(Q, R) => TotalSupply(R) = TotalSupply(Q)
  BY DEF SameShares, TotalSupply
<1>3. P.totalLiquidity * TotalSupply(P) >= P.totalLiquidity * TotalSupply(P)
  BY <1>1, ProductNat
<1> QED BY <1>1, <1>2, <1>3 DEF SameShares, PriceKept

\* What moves on a path in two steps adds up.
LEMMA MovedTwice ==
  ASSUME NEW P \in PoolState, NEW Q \in PoolState, NEW R \in PoolState, NEW q \in Pool,
         NEW db \in Int, NEW dl \in Int, NEW eb \in Int, NEW el \in Int,
         PathsMoved(P, Q, q, db, dl), PathsMoved(Q, R, q, eb, el)
  PROVE  PathsMoved(P, R, q, db + eb, dl + el)
<1>1. \A r \in Pool : SameSettings(P, R, r)
  BY DEF PathsMoved, SameSettings
<1>2. \A r \in Pool \ {q} : /\ R.chainPaths[r].balance = P.chainPaths[r].balance
                            /\ R.chainPaths[r].lkb = P.chainPaths[r].lkb
  BY DEF PathsMoved
<1>3. P.chainPaths[q].balance \in Int /\ P.chainPaths[q].lkb \in Int
  BY PathTypes
<1>4. /\ R.chainPaths[q].balance = (P.chainPaths[q].balance + db) + eb
      /\ R.chainPaths[q].lkb = (P.chainPaths[q].lkb + dl) + el
  BY DEF PathsMoved
<1>5. /\ R.chainPaths[q].balance = P.chainPaths[q].balance + (db + eb)
      /\ R.chainPaths[q].lkb = P.chainPaths[q].lkb + (dl + el)
  BY <1>3, <1>4
<1> QED BY <1>1, <1>2, <1>5 DEF PathsMoved

\* Paths that stay as they are move by nothing.
LEMMA MovedNot ==
  ASSUME NEW P \in PoolState, NEW Q, SamePaths(P, Q), NEW q \in Pool
  PROVE  PathsMoved(P, Q, q, 0, 0)
<1>1. P.chainPaths[q].balance \in Int /\ P.chainPaths[q].lkb \in Int
  BY PathTypes
<1> QED BY <1>1 DEF PathsMoved, SamePaths

\* On the path to q, Q may promise db more than P and keeps dl more; the rest
\* of the paths, settings aside, is as it was.
Shifted(P, Q, q, db, dl) ==
  \A r \in Pool :
    /\ Q.chainPaths[r].balance = P.chainPaths[r].balance + (IF r = q THEN db ELSE 0)
    /\ Q.chainPaths[r].lkb = P.chainPaths[r].lkb + (IF r = q THEN dl ELSE 0)

\* A call that changes settings and empty paths only leaves the books alone.
LEMMA SettingsKeep ==
  ASSUME NEW P, PoolOK(P), NEW Q \in PoolState,
         Q.asset = P.asset, Q.lp = P.lp, Q.totalLiquidity = P.totalLiquidity,
         Q.protocolFeeBalance = P.protocolFeeBalance,
         Q.mintFeeBalance = P.mintFeeBalance, Q.eqFeePool = P.eqFeePool,
         Q.deltaCredit = P.deltaCredit,
         \A r \in Pool : /\ Q.chainPaths[r].lkb = P.chainPaths[r].lkb
                         /\ Q.chainPaths[r].credits = P.chainPaths[r].credits
                         /\ Q.chainPaths[r].balance = P.chainPaths[r].balance,
         NEW q \in Pool
  PROVE  PoolOK(Q) /\ SameShares(P, Q) /\ Net(Q) = Net(P) /\ Shifted(P, Q, q, 0, 0)
<1>1. P \in PoolState
  BY DEF PoolOK
<1>2. LkbOf(Q) = LkbOf(P) /\ CreditMap(Q) = CreditMap(P)
  BY NoPathChanges
<1>3. Booked(Q) = Booked(P)
  BY <1>1, <1>2, MapTypes
<1>4. PoolOK(Q)
  BY <1>3 DEF PoolOK, SharesBacked, TotalSupply
<1>5. \A r \in Pool : P.chainPaths[r].balance \in Nat /\ P.chainPaths[r].lkb \in Nat
  BY <1>1, PathTypes
<1>6. Shifted(P, Q, q, 0, 0)
  BY <1>5 DEF Shifted
<1>7. SameShares(P, Q) /\ Net(Q) = Net(P)
  BY DEF SameShares, Net
<1> QED BY <1>4, <1>6, <1>7

\* A path with a new setting.
LEMMA PathSet ==
  ASSUME NEW P, PoolOK(P), NEW q \in Pool, NEW x \in ChainPath,
         x.lkb = P.chainPaths[q].lkb, x.credits = P.chainPaths[q].credits,
         x.balance = P.chainPaths[q].balance
  PROVE  LET Q == [P EXCEPT !.chainPaths[q] = x]
         IN  /\ PoolOK(Q) /\ SameShares(P, Q) /\ Net(Q) = Net(P) /\ Shifted(P, Q, q, 0, 0)
             /\ Q.chainPaths[q] = x
             /\ \A r \in Pool \ {q} : Q.chainPaths[r] = P.chainPaths[r]
<1> DEFINE Q == [P EXCEPT !.chainPaths[q] = x]
<1>1. P \in PoolState
  BY DEF PoolOK
<1>2. P.chainPaths \in [Pool -> ChainPath]
  BY <1>1, PoolTypes
<1>3. /\ Q \in PoolState /\ Q.asset = P.asset /\ Q.lp = P.lp
      /\ Q.totalLiquidity = P.totalLiquidity
      /\ Q.protocolFeeBalance = P.protocolFeeBalance
      /\ Q.mintFeeBalance = P.mintFeeBalance /\ Q.eqFeePool = P.eqFeePool
      /\ Q.deltaCredit = P.deltaCredit /\ Q.chainPaths = [P.chainPaths EXCEPT ![q] = x]
  BY <1>1, <1>2 DEF PoolState
<1>4. Q.chainPaths[q] = x /\ \A r \in Pool \ {q} : Q.chainPaths[r] = P.chainPaths[r]
  BY <1>2, <1>3
<1>5. \A r \in Pool : /\ Q.chainPaths[r].lkb = P.chainPaths[r].lkb
                      /\ Q.chainPaths[r].credits = P.chainPaths[r].credits
                      /\ Q.chainPaths[r].balance = P.chainPaths[r].balance
  BY <1>4
<1> HIDE DEF Q
<1>6. PoolOK(Q) /\ SameShares(P, Q) /\ Net(Q) = Net(P) /\ Shifted(P, Q, q, 0, 0)
  BY <1>3, <1>5, SettingsKeep
<1> QED BY <1>4, <1>6 DEF Q

\* The fee, the stop switch and the parameters of Delta.
LEMMA ParamsKeep ==
  ASSUME NEW P, PoolOK(P), NEW q \in Pool, NEW Q,
         \/ \E fee \in FeeBPs : Q = SetFee(P, fee)
         \/ \E stop \in SwapStops : Q = SetSwapStop(P, stop)
         \/ \E d \in DeltaParams : Q = SetDeltaParam(P, d[1], d[2], d[3], d[4], d[5])
  PROVE  /\ PoolOK(Q) /\ SameShares(P, Q) /\ Net(Q) = Net(P) /\ Shifted(P, Q, q, 0, 0)
         /\ Q.chainPaths = P.chainPaths
<1>1. P \in PoolState
  BY DEF PoolOK
<1>2. /\ Q \in PoolState /\ Q.asset = P.asset /\ Q.lp = P.lp
      /\ Q.totalLiquidity = P.totalLiquidity
      /\ Q.protocolFeeBalance = P.protocolFeeBalance
      /\ Q.mintFeeBalance = P.mintFeeBalance /\ Q.eqFeePool = P.eqFeePool
      /\ Q.deltaCredit = P.deltaCredit /\ Q.chainPaths = P.chainPaths
  <2>1. ASSUME NEW fee \in FeeBPs, Q = SetFee(P, fee) PROVE <1>2!:
    <3>1. fee \in 0 .. BP_DENOMINATOR
      BY BridgeAssumption
    <3> QED BY <1>1, <2>1, <3>1 DEF SetFee, PoolState
  <2>2. ASSUME NEW stop \in SwapStops, Q = SetSwapStop(P, stop) PROVE <1>2!:
    <3>1. stop \in BOOLEAN
      BY BridgeAssumption
    <3> QED BY <1>1, <2>2, <3>1 DEF SetSwapStop, PoolState
  <2>3. ASSUME NEW d \in DeltaParams, Q = SetDeltaParam(P, d[1], d[2], d[3], d[4], d[5])
        PROVE  <1>2!:
    <3>1. d \in BOOLEAN \X (0 .. BP_DENOMINATOR) \X (0 .. BP_DENOMINATOR) \X BOOLEAN
                  \X BOOLEAN
      BY BridgeAssumption
    <3>2. /\ d[1] \in BOOLEAN /\ d[2] \in 0 .. BP_DENOMINATOR
          /\ d[3] \in 0 .. BP_DENOMINATOR /\ d[4] \in BOOLEAN /\ d[5] \in BOOLEAN
      BY <3>1
    <3> QED BY <1>1, <2>3, <3>2 DEF SetDeltaParam, PoolState
  <2> QED BY <2>1, <2>2, <2>3
<1>3. \A r \in Pool : /\ Q.chainPaths[r].lkb = P.chainPaths[r].lkb
                      /\ Q.chainPaths[r].credits = P.chainPaths[r].credits
                      /\ Q.chainPaths[r].balance = P.chainPaths[r].balance
  BY <1>2
<1> QED BY <1>2, <1>3, SettingsKeep
-----------------------------------------------------------------------------
(* What a step has to do for the invariant to hold after it. *)

\* What the claims on x by y change by, when p's path to q does.
ClaimShift(x, y, p, q, db, dl) ==
  IF x = p /\ y = q THEN dl ELSE IF x = q /\ y = p THEN 0 - db ELSE 0

\* Every pool is as balanced as before, and no share lost value.
PricesKept == \A x \in Pool : PriceKept(pool[x], pool'[x])

\* The parts of the invariant, as a step finds them.
LEMMA InvFacts ==
  ASSUME StargateInv
  PROVE  /\ TypeOK /\ PathsOK /\ MessagesOK /\ IdsOK /\ NoncesOK /\ WeightsOK
         /\ PathsAgree /\ GlobalSolvency
         /\ IsFiniteSet(Outstanding) /\ Outstanding \subseteq Message
         /\ pool \in [Pool -> PoolState] /\ \A p \in Pool : PoolOK(pool[p])
         /\ DOMAIN channel = Channel /\ \A c \in Channel : channel[c] \in Seq(Message)
         /\ outNonce \in [Channel -> Nat] /\ revertLookup \subseteq Message
         /\ cachedSwapLookup \subseteq Message /\ dropped \subseteq Message
<1>1. TypeOK /\ IdsOK
  BY DEF StargateInv
<1>2. Outstanding \subseteq Message
  BY <1>1, IdsKnown
<1> QED BY <1>1, <1>2 DEF StargateInv, TypeOK

\* The books after a step of one pool, when the messages carry what the pool
\* lets go and claim what its path does.
LEMMA BooksStep ==
  ASSUME StargateInv, NEW p \in Pool, NEW q \in Pool, NEW Q, PoolOK(Q),
         pool' = [pool EXCEPT ![p] = Q], NEW db \in Int, NEW dl \in Int,
         Shifted(pool[p], Q, q, db, dl), q # p \/ (db = 0 /\ dl = 0),
         IsFiniteSet(Outstanding'), Outstanding' \subseteq Message,
         \A x, y \in Pool : ClaimsOn(Outstanding', x, y)
           = ClaimsOn(Outstanding, x, y) + ClaimShift(x, y, p, q, db, dl),
         LoadOn(Outstanding') = LoadOn(Outstanding) + (Net(Q) - Net(pool[p]))
  PROVE  /\ pool' \in [Pool -> PoolState] /\ \A x \in Pool : PoolOK(pool'[x])
         /\ PathsAgree' /\ GlobalSolvency'
<1> DEFINE P == pool[p]
<1>1. /\ pool \in [Pool -> PoolState] /\ \A x \in Pool : PoolOK(pool[x])
      /\ PathsAgree /\ GlobalSolvency
      /\ IsFiniteSet(Outstanding) /\ Outstanding \subseteq Message
  BY InvFacts
<1>2. /\ pool'[p] = Q /\ \A x \in Pool \ {p} : pool'[x] = pool[x]
      /\ Q \in PoolState /\ pool' \in [Pool -> PoolState]
  BY <1>1 DEF PoolOK
<1>3. \A x \in Pool : PoolOK(pool'[x])
  BY <1>1, <1>2
<1>4. PathsAgree'
  <2> SUFFICES ASSUME NEW x \in Pool, NEW y \in Pool
               PROVE  pool'[x].chainPaths[y].lkb
                        = pool'[y].chainPaths[x].balance + ClaimsOn(Outstanding', x, y)
    BY DEF PathsAgree, ClaimsOn
  <2>1. pool[x].chainPaths[y].lkb
          = pool[y].chainPaths[x].balance + ClaimsOn(Outstanding, x, y)
    BY <1>1 DEF PathsAgree, ClaimsOn
  <2>2. ClaimsOn(Outstanding, x, y) \in Nat
    BY <1>1, SumTypes
  <2>3. /\ pool[x].chainPaths[y].lkb \in Nat /\ pool[y].chainPaths[x].balance \in Nat
        /\ pool'[x].chainPaths[y].lkb \in Nat /\ pool'[y].chainPaths[x].balance \in Nat
    BY <1>1, <1>2, PathTypes
  <2>4. pool'[x].chainPaths[y].lkb
          = pool[x].chainPaths[y].lkb + (IF x = p /\ y = q THEN dl ELSE 0)
    BY <1>2, <2>3 DEF Shifted
  <2>5. pool'[y].chainPaths[x].balance
          = pool[y].chainPaths[x].balance + (IF y = p /\ x = q THEN db ELSE 0)
    BY <1>2, <2>3 DEF Shifted
  <2>6. ClaimsOn(Outstanding', x, y)
          = ClaimsOn(Outstanding, x, y) + ClaimShift(x, y, p, q, db, dl)
    OBVIOUS
  <2> QED BY <2>1, <2>2, <2>3, <2>4, <2>5, <2>6 DEF ClaimShift
<1>5. GlobalSolvency'
  <2> DEFINE f == [x \in Pool |-> pool[x].asset]
             g == [x \in Pool |-> pool'[x].asset]
             v == [x \in Pool |-> Owes(x)]
             w == [x \in Pool |-> Owes(x)']
  <2>1. IsFiniteSet(Pool)
    BY PoolAssumption
  <2>2. /\ f \in [Pool -> Nat] /\ g \in [Pool -> Nat]
        /\ f[p] = P.asset /\ g[p] = Q.asset /\ \A x \in Pool \ {p} : g[x] = f[x]
    BY <1>1, <1>2, PoolTypes
  <2>3. /\ v \in [Pool -> Nat] /\ w \in [Pool -> Nat]
        /\ v[p] = P.totalLiquidity + P.eqFeePool + P.protocolFeeBalance + P.mintFeeBalance
        /\ w[p] = Q.totalLiquidity + Q.eqFeePool + Q.protocolFeeBalance + Q.mintFeeBalance
        /\ \A x \in Pool \ {p} : w[x] = v[x]
    BY <1>1, <1>2, PoolTypes DEF Owes
  <2> HIDE DEF f, g, v, w
  <2>4. Total(g) + f[p] = Total(f) + g[p] /\ Total(w) + v[p] = Total(v) + w[p]
    BY <2>1, <2>2, <2>3, TotalChange
  <2>5. /\ Total(f) \in Nat /\ Total(g) \in Nat /\ Total(v) \in Nat /\ Total(w) \in Nat
    BY <2>1, <2>2, <2>3, TotalType
  <2>6. Total(f) = Total(v) + LoadOn(Outstanding)
    BY <1>1 DEF GlobalSolvency, LoadOn, f, v
  <2>7. LoadOn(Outstanding) \in Nat /\ LoadOn(Outstanding') \in Nat
    BY <1>1, SumTypes
  <2>8. LoadOn(Outstanding') = LoadOn(Outstanding) + (Net(Q) - Net(P))
    OBVIOUS
  <2>9. /\ P.asset \in Nat /\ P.totalLiquidity \in Nat /\ P.eqFeePool \in Nat
        /\ P.protocolFeeBalance \in Nat /\ P.mintFeeBalance \in Nat
        /\ Q.asset \in Nat /\ Q.totalLiquidity \in Nat /\ Q.eqFeePool \in Nat
        /\ Q.protocolFeeBalance \in Nat /\ Q.mintFeeBalance \in Nat
    BY <1>1, <1>2, PoolTypes
  <2>10. Net(P) = f[p] - v[p] /\ Net(Q) = g[p] - w[p]
    BY <2>2, <2>3, <2>9 DEF Net
  <2>11. f[p] \in Nat /\ g[p] \in Nat /\ v[p] \in Nat /\ w[p] \in Nat
    BY <2>2, <2>3
  <2>12. Total(g) = Total(w) + LoadOn(Outstanding')
    BY <2>4, <2>5, <2>6, <2>7, <2>8, <2>10, <2>11
  <2> QED BY <2>12 DEF GlobalSolvency, LoadOn, g, w
<1> QED BY <1>2, <1>3, <1>4, <1>5

\* Paths stay where they exist, and pools keep the weight that they have.
LEMMA PathsStep ==
  ASSUME StargateInv, NEW p \in Pool, NEW q \in Pool, NEW Q, PoolOK(Q),
         pool' = [pool EXCEPT ![p] = Q], NEW db \in Int, NEW dl \in Int,
         PathsMoved(pool[p], Q, q, db, dl),
         pool[p].chainPaths[q].created \/ (db = 0 /\ dl = 0)
  PROVE  /\ PathsOK' /\ Shifted(pool[p], Q, q, db, dl)
         /\ \A x, y \in Pool :
              pool'[x].chainPaths[y].created = pool[x].chainPaths[y].created
         /\ \A x \in Pool : TotalWeight(pool'[x]) = TotalWeight(pool[x])
<1> DEFINE P == pool[p]
<1>1. P \in PoolState /\ pool \in [Pool -> PoolState] /\ PathsOK
  BY InvFacts
<1>2. pool'[p] = Q /\ \A x \in Pool \ {p} : pool'[x] = pool[x]
  BY <1>1
<1>3. \A r \in Pool : /\ P.chainPaths[r].balance \in Nat /\ P.chainPaths[r].lkb \in Nat
  BY <1>1, PathTypes
<1>4. Shifted(P, Q, q, db, dl)
  BY <1>3 DEF Shifted, PathsMoved
<1>5. \A x, y \in Pool :
        /\ pool'[x].chainPaths[y].created = pool[x].chainPaths[y].created
        /\ pool'[x].chainPaths[y].ready = pool[x].chainPaths[y].ready
        /\ pool'[x].chainPaths[y].weight = pool[x].chainPaths[y].weight
  BY <1>2 DEF PathsMoved, SameSettings
<1>6. \A x \in Pool : TotalWeight(pool'[x]) = TotalWeight(pool[x])
  BY <1>5 DEF TotalWeight
<1>7. PathsOK'
  <2> SUFFICES ASSUME NEW x \in Pool, NEW y \in Pool
               PROVE  /\ pool'[x].chainPaths[y].created => ChainOf[x] # ChainOf[y]
                      /\ pool'[x].chainPaths[y].ready =>
                           pool'[x].chainPaths[y].created /\ pool'[y].chainPaths[x].created
                      /\ ~pool'[x].chainPaths[y].created => BlankPath(pool'[x].chainPaths[y])
    BY DEF PathsOK
  <2>1. /\ pool[x].chainPaths[y].created => ChainOf[x] # ChainOf[y]
        /\ pool[x].chainPaths[y].ready =>
             pool[x].chainPaths[y].created /\ pool[y].chainPaths[x].created
        /\ ~pool[x].chainPaths[y].created => BlankPath(pool[x].chainPaths[y])
    BY <1>1 DEF PathsOK
  <2>2. ASSUME ~pool[x].chainPaths[y].created PROVE BlankPath(pool'[x].chainPaths[y])
    <3>1. CASE x # p
      BY <1>2, <2>1, <2>2, <3>1
    <3>2. CASE x = p
      <4>1. BlankPath(P.chainPaths[y])
        BY <2>1, <2>2, <3>2
      <4>2. SameSettings(P, Q, y)
        BY DEF PathsMoved
      <4>3. /\ Q.chainPaths[y].balance = P.chainPaths[y].balance
            /\ Q.chainPaths[y].lkb = P.chainPaths[y].lkb
        <5>1. CASE y # q
          BY <1>3, <1>4, <5>1 DEF Shifted
        <5>2. CASE y = q
          <6>1. db = 0 /\ dl = 0
            BY <2>2, <3>2, <5>2
          <6> QED BY <1>3, <1>4, <6>1 DEF Shifted
        <5> QED BY <5>1, <5>2
      <4> QED BY <1>2, <3>2, <4>1, <4>2, <4>3 DEF BlankPath, SameSettings
    <3> QED BY <3>1, <3>2
  <2> QED BY <1>5, <2>1, <2>2
<1> QED BY <1>4, <1>5, <1>6, <1>7

\* What a step of the pool at p does: on the path to q, which exists, it may
\* promise db more and keeps dl more, and the messages change accordingly.
Balanced(p, q, Q, db, dl) ==
  /\ PoolOK(Q) /\ PriceKept(pool[p], Q) /\ pool' = [pool EXCEPT ![p] = Q]
  /\ PathsMoved(pool[p], Q, q, db, dl)
  /\ (q # p /\ pool[p].chainPaths[q].created) \/ (db = 0 /\ dl = 0)
  /\ IsFiniteSet(Outstanding')
  /\ \A x, y \in Pool : ClaimsOn(Outstanding', x, y)
       = ClaimsOn(Outstanding, x, y) + ClaimShift(x, y, p, q, db, dl)
  /\ LoadOn(Outstanding') = LoadOn(Outstanding) + (Net(Q) - Net(pool[p]))
  /\ DOMAIN channel' = Channel /\ \A c \in Channel : channel'[c] \in Seq(Message)
  /\ outNonce' \in [Channel -> Nat] /\ revertLookup' \subseteq Message
  /\ cachedSwapLookup' \subseteq Message /\ dropped' \subseteq Message
  /\ IdsOK' /\ NoncesOK'
  /\ \A m \in Outstanding' :
       m \in Outstanding \/ (MessageOK(m) /\ (0 \notin Weights => HasWeight(m)))
  /\ \A m \in InFlight' : m.type # "response"
  /\ \A m \in revertLookup' :
       m.credit = NoCredit /\ m.type \in {"swap", "callback", "response"}

\* Such a step keeps the invariant.
LEMMA StepKeeps ==
  ASSUME StargateInv, NEW p \in Pool, NEW q \in Pool, NEW Q,
         NEW db \in Int, NEW dl \in Int, Balanced(p, q, Q, db, dl)
  PROVE  StargateInv' /\ PricesKept
<1>0. /\ PoolOK(Q) /\ PriceKept(pool[p], Q) /\ pool' = [pool EXCEPT ![p] = Q]
      /\ PathsMoved(pool[p], Q, q, db, dl)
      /\ (q # p /\ pool[p].chainPaths[q].created) \/ (db = 0 /\ dl = 0)
      /\ IsFiniteSet(Outstanding')
      /\ \A x, y \in Pool : ClaimsOn(Outstanding', x, y)
           = ClaimsOn(Outstanding, x, y) + ClaimShift(x, y, p, q, db, dl)
      /\ LoadOn(Outstanding') = LoadOn(Outstanding) + (Net(Q) - Net(pool[p]))
      /\ DOMAIN channel' = Channel /\ \A c \in Channel : channel'[c] \in Seq(Message)
      /\ outNonce' \in [Channel -> Nat] /\ revertLookup' \subseteq Message
      /\ cachedSwapLookup' \subseteq Message /\ dropped' \subseteq Message
      /\ IdsOK' /\ NoncesOK'
      /\ \A m \in Outstanding' :
           m \in Outstanding \/ (MessageOK(m) /\ (0 \notin Weights => HasWeight(m)))
      /\ \A m \in InFlight' : m.type # "response"
      /\ \A m \in revertLookup' :
           m.credit = NoCredit /\ m.type \in {"swap", "callback", "response"}
  BY DEF Balanced
<1>1. /\ PathsOK' /\ Shifted(pool[p], Q, q, db, dl)
      /\ \A x, y \in Pool :
           pool'[x].chainPaths[y].created = pool[x].chainPaths[y].created
      /\ \A x \in Pool : TotalWeight(pool'[x]) = TotalWeight(pool[x])
  BY <1>0, PathsStep
<1>2. /\ Outstanding' \subseteq Message /\ Outstanding \subseteq Message
      /\ pool \in [Pool -> PoolState]
  <2>1. \A m \in InFlight' : m \in Message
    BY <1>0, ElementOfSeq DEF InFlight
  <2> QED BY <1>0, <2>1, InvFacts DEF Outstanding
<1>3. /\ pool' \in [Pool -> PoolState] /\ \A x \in Pool : PoolOK(pool'[x])
      /\ PathsAgree' /\ GlobalSolvency'
  <2>1. q # p \/ (db = 0 /\ dl = 0)
    BY <1>0
  <2>2. Shifted(pool[p], Q, q, db, dl) /\ Outstanding' \subseteq Message
    BY <1>1, <1>2
  <2> QED BY <1>0, <2>1, <2>2, BooksStep, ZenonT(60)
<1>4. TypeOK'
  BY <1>0, <1>3 DEF TypeOK
<1>5. \A m \in Outstanding' : MessageOK(m)' /\ (0 \notin Weights => HasWeight(m)')
  <2> SUFFICES ASSUME NEW m \in Outstanding'
               PROVE  MessageOK(m)' /\ (0 \notin Weights => HasWeight(m)')
    OBVIOUS
  <2>1. MessageOK(m) /\ (0 \notin Weights => HasWeight(m))
    BY <1>0, InvFacts DEF MessagesOK, WeightsOK
  <2>2. m.from \in Pool /\ m.to \in Pool
    BY <1>2, MessageTypes
  <2>3. MessageOK(m)'
    BY <1>1, <2>1, <2>2 DEF MessageOK
  <2>4. 0 \notin Weights => HasWeight(m)'
    BY <1>1, <2>1, <2>2 DEF HasWeight
  <2> QED BY <2>3, <2>4
<1>6. MessagesOK' /\ WeightsOK'
  BY <1>0, <1>5 DEF MessagesOK, WeightsOK
<1>7. PricesKept
  <2>1. \A x \in Pool : x # p => PriceKept(pool[x], pool'[x])
    <3>1. ASSUME NEW x \in Pool, x # p PROVE PriceKept(pool[x], pool'[x])
      <4>1. pool'[x] = pool[x] /\ pool[x] \in PoolState
        BY <1>0, <1>2, <3>1
      <4>2. SameShares(pool[x], pool'[x])
        BY <4>1 DEF SameShares
      <4> QED BY <4>1, <4>2, PriceChain
    <3> QED BY <3>1
  <2>2. pool'[p] = Q
    BY <1>0, <1>2
  <2> QED BY <1>0, <2>1, <2>2 DEF PricesKept
<1> QED BY <1>0, <1>1, <1>3, <1>4, <1>6, <1>7 DEF StargateInv
-----------------------------------------------------------------------------
(* Steps without messages. *)

\* What depends on the messages alone does not change with a pool.
LEMMA MessagesStay ==
  ASSUME StargateInv, UNCHANGED <<channel, outNonce, revertLookup, dropped>>
  PROVE  /\ InFlight' = InFlight /\ Outstanding' = Outstanding /\ IdsOK' /\ NoncesOK'
         /\ IsFiniteSet(Outstanding') /\ Outstanding' \subseteq Message
         /\ \A x, y : ClaimsOn(Outstanding', x, y) = ClaimsOn(Outstanding, x, y)
         /\ LoadOn(Outstanding') = LoadOn(Outstanding)
<1>1. InFlight' = InFlight /\ Outstanding' = Outstanding
  BY DEF InFlight, Outstanding
<1>2. IdsOK' /\ NoncesOK'
  BY <1>1, InvFacts DEF IdsOK, NoncesOK, Answers
<1> QED BY <1>1, <1>2, InvFacts

\* A pool that moves nothing on its paths and carries nothing away.
LEMMA QuietStep ==
  ASSUME StargateInv, NEW p \in Pool, NEW Q, PoolOK(Q), PriceKept(pool[p], Q),
         SamePaths(pool[p], Q), Net(Q) = Net(pool[p]), pool' = [pool EXCEPT ![p] = Q],
         UNCHANGED <<channel, outNonce, keptVars>>
  PROVE  StargateInv' /\ PricesKept
<1>1. UNCHANGED <<channel, outNonce, revertLookup, dropped, cachedSwapLookup>>
  BY DEF keptVars
<1>2. /\ InFlight' = InFlight /\ Outstanding' = Outstanding /\ IdsOK' /\ NoncesOK'
      /\ IsFiniteSet(Outstanding') /\ Outstanding' \subseteq Message
      /\ \A x, y : ClaimsOn(Outstanding', x, y) = ClaimsOn(Outstanding, x, y)
      /\ LoadOn(Outstanding') = LoadOn(Outstanding)
  BY <1>1, MessagesStay
<1>3. pool[p] \in PoolState /\ Q \in PoolState
  BY InvFacts DEF PoolOK
<1>4. PathsMoved(pool[p], Q, p, 0, 0)
  BY <1>3, MovedNot
<1>5. Net(pool[p]) \in Int
  BY <1>3, PoolTypes DEF Net
<1>6. LoadOn(Outstanding) \in Nat /\ \A x, y : ClaimsOn(Outstanding, x, y) \in Nat
  BY SumTypes, InvFacts
<1>7. \A x, y \in Pool : ClaimsOn(Outstanding', x, y)
        = ClaimsOn(Outstanding, x, y) + ClaimShift(x, y, p, p, 0, 0)
  BY <1>2, <1>6 DEF ClaimShift
<1>8. LoadOn(Outstanding') = LoadOn(Outstanding) + (Net(Q) - Net(pool[p]))
  BY <1>2, <1>5, <1>6
<1>9. /\ DOMAIN channel' = Channel /\ \A c \in Channel : channel'[c] \in Seq(Message)
      /\ outNonce' \in [Channel -> Nat] /\ revertLookup' \subseteq Message
      /\ cachedSwapLookup' \subseteq Message /\ dropped' \subseteq Message
  BY <1>1, InvFacts
<1>10. /\ \A m \in InFlight' : m.type # "response"
       /\ \A m \in revertLookup' :
            m.credit = NoCredit /\ m.type \in {"swap", "callback", "response"}
  BY <1>1, <1>2, InvFacts DEF MessagesOK
<1>11. \A m \in Outstanding' :
         m \in Outstanding \/ (MessageOK(m) /\ (0 \notin Weights => HasWeight(m)))
  BY <1>2
<1>12. Balanced(p, p, Q, 0, 0)
  BY <1>2, <1>4, <1>7, <1>8, <1>9, <1>10, <1>11 DEF Balanced
<1> QED BY <1>12, StepKeeps

\* A call of the DAO that changes a setting or an empty path.
LEMMA SettingsStep ==
  ASSUME StargateInv, NEW p \in Pool, NEW Q, PoolOK(Q), SameShares(pool[p], Q),
         Net(Q) = Net(pool[p]), Shifted(pool[p], Q, p, 0, 0),
         pool' = [pool EXCEPT ![p] = Q], PathsOK',
         \A r \in Pool : pool[p].chainPaths[r].created => Q.chainPaths[r].created,
         0 \notin Weights => (TotalWeight(pool[p]) > 0 => TotalWeight(Q) > 0),
         UNCHANGED <<channel, outNonce, keptVars>>
  PROVE  StargateInv' /\ PricesKept
<1>1. UNCHANGED <<channel, outNonce, revertLookup, dropped, cachedSwapLookup>>
  BY DEF keptVars
<1>2. /\ InFlight' = InFlight /\ Outstanding' = Outstanding /\ IdsOK' /\ NoncesOK'
      /\ IsFiniteSet(Outstanding') /\ Outstanding' \subseteq Message
      /\ \A x, y : ClaimsOn(Outstanding', x, y) = ClaimsOn(Outstanding, x, y)
      /\ LoadOn(Outstanding') = LoadOn(Outstanding)
  BY <1>1, MessagesStay
<1>3. pool[p] \in PoolState /\ Q \in PoolState /\ pool \in [Pool -> PoolState]
  BY InvFacts DEF PoolOK
<1>4. pool'[p] = Q /\ \A x \in Pool \ {p} : pool'[x] = pool[x]
  BY <1>3
<1>5. Net(pool[p]) \in Int
  BY <1>3, PoolTypes DEF Net
<1>6. LoadOn(Outstanding) \in Nat /\ \A x, y : ClaimsOn(Outstanding, x, y) \in Nat
  BY SumTypes, InvFacts
<1>7. \A x, y \in Pool : ClaimsOn(Outstanding', x, y)
        = ClaimsOn(Outstanding, x, y) + ClaimShift(x, y, p, p, 0, 0)
  BY <1>2, <1>6 DEF ClaimShift
<1>8. LoadOn(Outstanding') = LoadOn(Outstanding) + (Net(Q) - Net(pool[p]))
  BY <1>2, <1>5, <1>6
<1>9. /\ pool' \in [Pool -> PoolState] /\ \A x \in Pool : PoolOK(pool'[x])
      /\ PathsAgree' /\ GlobalSolvency'
  <2>1. 0 \in Int /\ (p # p \/ (0 = 0 /\ 0 = 0))
    OBVIOUS
  <2> QED BY <1>2, <1>7, <1>8, <2>1, BooksStep, ZenonT(60)
<1>10. TypeOK'
  BY <1>1, <1>9, InvFacts DEF TypeOK
<1>11. ASSUME NEW m \in Outstanding'
       PROVE  MessageOK(m)' /\ (0 \notin Weights => HasWeight(m)')
  <2>1. MessageOK(m) /\ (0 \notin Weights => HasWeight(m))
    BY <1>2, InvFacts DEF MessagesOK, WeightsOK
  <2>2. m.from \in Pool /\ m.to \in Pool
    BY <1>2, MessageTypes
  <2>3. MessageOK(m)'
    BY <1>4, <2>1, <2>2 DEF MessageOK
  <2>4. 0 \notin Weights => HasWeight(m)'
    BY <1>4, <2>1, <2>2 DEF HasWeight
  <2> QED BY <2>3, <2>4
<1>12. MessagesOK' /\ WeightsOK'
  BY <1>1, <1>2, <1>11, InvFacts DEF MessagesOK, WeightsOK
<1>13. PricesKept
  <2>1. ASSUME NEW x \in Pool PROVE PriceKept(pool[x], pool'[x])
    <3>1. pool[x] \in PoolState /\ pool'[x] \in PoolState
      BY <1>3, <1>9
    <3>2. SameShares(pool[x], pool'[x])
      BY <1>4 DEF SameShares
    <3> QED BY <3>1, <3>2, PriceChain
  <2> QED BY <2>1 DEF PricesKept
<1> QED BY <1>2, <1>9, <1>10, <1>12, <1>13 DEF StargateInv

\* Deposits keep the invariant.
LEMMA AddLiquidityStep ==
  ASSUME StargateInv, NEW p \in Pool, NEW u \in User, NEW amount \in Amounts,
         AddLiquidity(p, u, amount)
  PROVE  StargateInv' /\ PricesKept
<1>1. amount \in Nat /\ PoolOK(pool[p]) /\ CanMint(pool[p])
  BY BridgeAssumption, InvFacts DEF AddLiquidity
<1>2. pool' = [pool EXCEPT ![p] = Mint(pool[p], u, amount)]
      /\ UNCHANGED <<channel, outNonce, keptVars>>
  BY DEF AddLiquidity
<1>3. LET Q == Mint(pool[p], u, amount)
      IN  PoolOK(Q) /\ PriceKept(pool[p], Q) /\ Net(Q) = Net(pool[p])
          /\ SamePaths(pool[p], Q)
  BY <1>1, MintKeeps
<1> QED BY <1>2, <1>3, QuietStep

\* Instant redemptions keep the invariant.
LEMMA RedeemAtOnceStep ==
  ASSUME StargateInv, NEW p \in Pool, NEW u \in User, NEW amount \in Amounts,
         RedeemAtOnce(p, u, amount)
  PROVE  StargateInv' /\ PricesKept
<1>1. amount \in Nat /\ PoolOK(pool[p]) /\ CanRedeemAtOnce(pool[p], u, amount)
  BY BridgeAssumption, InvFacts DEF RedeemAtOnce
<1>2. pool' = [pool EXCEPT ![p] = InstantRedeemLocal(pool[p], u, amount)]
      /\ UNCHANGED <<channel, outNonce, keptVars>>
  BY DEF RedeemAtOnce
<1>3. LET Q == InstantRedeemLocal(pool[p], u, amount)
      IN  PoolOK(Q) /\ PriceKept(pool[p], Q) /\ Net(Q) = Net(pool[p])
          /\ SamePaths(pool[p], Q)
  BY <1>1, InstantRedeemKeeps
<1> QED BY <1>2, <1>3, QuietStep

\* Running Delta keeps the invariant.
LEMMA CallDeltaStep ==
  ASSUME StargateInv, NEW p \in Pool, NEW mode \in BOOLEAN, CallDelta(p, mode)
  PROVE  StargateInv' /\ PricesKept
<1>1. PoolOK(pool[p]) /\ pool[p] \in PoolState
  BY InvFacts
<1>2. pool' = [pool EXCEPT ![p] = Delta(pool[p], mode)]
      /\ UNCHANGED <<channel, outNonce, keptVars>>
  BY DEF CallDelta
<1>3. Recredited(pool[p], Delta(pool[p], mode))
  BY <1>1, DeltaKeeps
<1>4. LET Q == Delta(pool[p], mode)
      IN  PoolOK(Q) /\ PriceKept(pool[p], Q) /\ Net(Q) = Net(pool[p])
          /\ SamePaths(pool[p], Q)
  BY <1>1, <1>3, PriceChain DEF Recredited, PoolOK
<1> QED BY <1>2, <1>4, QuietStep

\* A path that is created, activated or weighted anew.
LEMMA PathSetStep ==
  ASSUME StargateInv, NEW p \in Pool, NEW q \in Pool, NEW x \in ChainPath,
         x.lkb = pool[p].chainPaths[q].lkb, x.credits = pool[p].chainPaths[q].credits,
         x.balance = pool[p].chainPaths[q].balance, x.created, ChainOf[p] # ChainOf[q],
         x.ready => pool[q].chainPaths[p].created,
         0 \notin Weights => x.weight > 0 \/ x.weight = pool[p].chainPaths[q].weight,
         pool' = [pool EXCEPT ![p] = [pool[p] EXCEPT !.chainPaths[q] = x]],
         UNCHANGED <<channel, outNonce, keptVars>>
  PROVE  StargateInv' /\ PricesKept
<1> DEFINE P == pool[p]
           Q == [P EXCEPT !.chainPaths[q] = x]
<1>1. PoolOK(P) /\ P \in PoolState /\ pool \in [Pool -> PoolState] /\ PathsOK
  BY InvFacts
<1>2. /\ PoolOK(Q) /\ SameShares(P, Q) /\ Net(Q) = Net(P) /\ Shifted(P, Q, p, 0, 0)
      /\ Q.chainPaths[q] = x /\ \A r \in Pool \ {q} : Q.chainPaths[r] = P.chainPaths[r]
  <2>1. /\ PoolOK(Q) /\ SameShares(P, Q) /\ Net(Q) = Net(P) /\ Shifted(P, Q, q, 0, 0)
        /\ Q.chainPaths[q] = x /\ \A r \in Pool \ {q} : Q.chainPaths[r] = P.chainPaths[r]
    <3>1. /\ x.lkb = P.chainPaths[q].lkb /\ x.credits = P.chainPaths[q].credits
          /\ x.balance = P.chainPaths[q].balance
      OBVIOUS
    <3> HIDE DEF P
    <3> QED BY <1>1, <3>1, PathSet
  <2>2. Shifted(P, Q, p, 0, 0)
    BY <2>1 DEF Shifted
  <2> QED BY <2>1, <2>2
<1>3. pool' = [pool EXCEPT ![p] = Q]
  OBVIOUS
<1> HIDE DEF Q
<1>4. pool'[p] = Q /\ \A y \in Pool \ {p} : pool'[y] = pool[y]
  BY <1>1, <1>3
<1>5. \A r \in Pool : P.chainPaths[r].created => Q.chainPaths[r].created
  BY <1>2
<1>6. q # p
  OBVIOUS
<1>7. PathsOK'
  <2> SUFFICES ASSUME NEW y \in Pool, NEW z \in Pool
               PROVE  /\ pool'[y].chainPaths[z].created => ChainOf[y] # ChainOf[z]
                      /\ pool'[y].chainPaths[z].ready =>
                           pool'[y].chainPaths[z].created /\ pool'[z].chainPaths[y].created
                      /\ ~pool'[y].chainPaths[z].created => BlankPath(pool'[y].chainPaths[z])
    BY DEF PathsOK
  <2>1. /\ pool[y].chainPaths[z].created => ChainOf[y] # ChainOf[z]
        /\ pool[y].chainPaths[z].ready =>
             pool[y].chainPaths[z].created /\ pool[z].chainPaths[y].created
        /\ ~pool[y].chainPaths[z].created => BlankPath(pool[y].chainPaths[z])
    BY <1>1 DEF PathsOK
  <2>2. CASE y = p /\ z = q
    BY <1>2, <1>4, <1>6, <2>2
  <2>3. CASE ~(y = p /\ z = q)
    <3>1. pool'[y].chainPaths[z] = pool[y].chainPaths[z]
      BY <1>2, <1>4, <2>3
    <3>2. pool[z].chainPaths[y].created => pool'[z].chainPaths[y].created
      BY <1>4, <1>5
    <3> QED BY <2>1, <3>1, <3>2
  <2> QED BY <2>2, <2>3
<1>8. 0 \notin Weights => (TotalWeight(P) > 0 => TotalWeight(Q) > 0)
  <2> SUFFICES ASSUME 0 \notin Weights, TotalWeight(P) > 0 PROVE TotalWeight(Q) > 0
    OBVIOUS
  <2>1. Q \in PoolState
    BY <1>2 DEF PoolOK
  <2>2. TotalWeight(Q) \in Nat /\ TotalWeight(Q) = Total(WeightsOf(Q))
        /\ WeightsOf(Q) \in [Pool -> Nat]
    BY <2>1, MapTypes
  <2>3. CASE x.weight > 0
    <3>1. WeightsOf(Q)[q] = x.weight /\ x.weight \in Nat
      BY <1>2 DEF WeightsOf, ChainPath
    <3>2. WeightsOf(Q)[q] <= Total(WeightsOf(Q))
      BY <2>2, PoolAssumption, TotalMember
    <3> QED BY <2>2, <2>3, <3>1, <3>2
  <2>4. CASE x.weight = P.chainPaths[q].weight
    <3>1. \A r \in Pool : Q.chainPaths[r].weight = P.chainPaths[r].weight
      BY <1>2, <2>4
    <3>2. TotalWeight(Q) = TotalWeight(P)
      BY <3>1 DEF TotalWeight
    <3> QED BY <3>2
  <2> QED BY <2>3, <2>4
<1>9. UNCHANGED <<channel, outNonce, keptVars>>
  OBVIOUS
<1> QED BY <1>2, <1>3, <1>5, <1>7, <1>8, <1>9, SettingsStep

\* Every call of the DAO keeps the invariant.
LEMMA DaoStep ==
  ASSUME StargateInv, NEW p \in Pool, DaoCall(p)
  PROVE  StargateInv' /\ PricesKept
<1>1. /\ PoolOK(pool[p]) /\ pool[p] \in PoolState /\ pool \in [Pool -> PoolState]
      /\ PathsOK
  BY InvFacts
<1>2. UNCHANGED <<channel, outNonce, keptVars>>
  BY DEF DaoCall
<1>3. ASSUME NEW q \in Pool, NEW w \in Weights, ChainOf[p] # ChainOf[q],
             ~pool[p].chainPaths[q].created,
             pool' = [pool EXCEPT ![p] = CreateChainPath(@, q, w)]
      PROVE  StargateInv' /\ PricesKept
  <2> DEFINE x == [NoChainPath EXCEPT !.created = TRUE, !.weight = w]
  <2>1. w \in Nat /\ (0 \notin Weights => w > 0)
    BY BridgeAssumption
  <2>2. /\ x \in ChainPath /\ x.lkb = 0 /\ x.credits = 0 /\ x.balance = 0
        /\ x.created /\ ~x.ready /\ x.weight = w
    BY <2>1 DEF ChainPath, NoChainPath
  <2>3. BlankPath(pool[p].chainPaths[q])
    BY <1>1, <1>3 DEF PathsOK
  <2>4. pool' = [pool EXCEPT ![p] = [pool[p] EXCEPT !.chainPaths[q] = x]]
    BY <1>3 DEF CreateChainPath
  <2>5. /\ x.lkb = pool[p].chainPaths[q].lkb /\ x.credits = pool[p].chainPaths[q].credits
        /\ x.balance = pool[p].chainPaths[q].balance
    BY <2>2, <2>3 DEF BlankPath
  <2>6. /\ x.ready => pool[q].chainPaths[p].created
        /\ 0 \notin Weights => x.weight > 0 \/ x.weight = pool[p].chainPaths[q].weight
    BY <2>1, <2>2
  <2>7. x \in ChainPath /\ x.created /\ ChainOf[p] # ChainOf[q]
    BY <1>3, <2>2
  <2> HIDE DEF x
  <2> QED BY <1>2, <2>4, <2>5, <2>6, <2>7, PathSetStep, ZenonT(60)
<1>4. ASSUME NEW q \in Pool, NEW w \in Weights, pool[p].chainPaths[q].created,
             pool' = [pool EXCEPT ![p] = SetWeightForChainPath(@, q, w)]
      PROVE  StargateInv' /\ PricesKept
  <2> DEFINE y == pool[p].chainPaths[q]
             x == [y EXCEPT !.weight = w]
  <2>1. w \in Nat /\ (0 \notin Weights => w > 0)
    BY BridgeAssumption
  <2>2. y \in ChainPath
    BY <1>1, PathTypes
  <2>3. pool' = [pool EXCEPT ![p] = [pool[p] EXCEPT !.chainPaths[q] = x]]
    <3>1. pool[p].chainPaths \in [Pool -> ChainPath]
      BY <1>1, PoolTypes
    <3> QED BY <1>4, <3>1 DEF SetWeightForChainPath
  <2>4. y.created /\ ChainOf[p] # ChainOf[q] /\ (y.ready => pool[q].chainPaths[p].created)
    BY <1>1, <1>4 DEF PathsOK
  <2>5. x \in ChainPath /\ x.lkb = y.lkb /\ x.credits = y.credits /\ x.balance = y.balance
        /\ x.created = y.created /\ x.ready = y.ready /\ x.weight = w
    <3> HIDE DEF y
    <3> QED BY <2>1, <2>2 DEF ChainPath
  <2> HIDE DEF x
  <2> QED BY <1>2, <2>1, <2>3, <2>4, <2>5, PathSetStep
<1>5. ASSUME NEW Q, pool' = [pool EXCEPT ![p] = Q],
             \/ \E fee \in FeeBPs : Q = SetFee(pool[p], fee)
             \/ \E stop \in SwapStops : Q = SetSwapStop(pool[p], stop)
             \/ \E d \in DeltaParams :
                  Q = SetDeltaParam(pool[p], d[1], d[2], d[3], d[4], d[5])
      PROVE  StargateInv' /\ PricesKept
  <2>1. /\ PoolOK(Q) /\ SameShares(pool[p], Q) /\ Net(Q) = Net(pool[p])
        /\ Shifted(pool[p], Q, p, 0, 0) /\ Q.chainPaths = pool[p].chainPaths
    BY <1>1, <1>5, ParamsKeep
  <2>2. \A x \in Pool : pool'[x].chainPaths = pool[x].chainPaths
    BY <1>1, <1>5, <2>1
  <2>3. PathsOK'
    BY <1>1, <2>2 DEF PathsOK
  <2>4. TotalWeight(Q) = TotalWeight(pool[p])
    BY <2>1 DEF TotalWeight
  <2> QED BY <1>2, <1>5, <2>1, <2>3, <2>4, SettingsStep
<1>6. ASSUME NEW Q, pool' = [pool EXCEPT ![p] = Q],
             Q \in {WithdrawMintFeeBalance(pool[p]), WithdrawProtocolFeeBalance(pool[p])}
      PROVE  StargateInv' /\ PricesKept
  <2>1. PoolOK(Q) /\ SameShares(pool[p], Q) /\ Net(Q) = Net(pool[p]) /\ SamePaths(pool[p], Q)
    BY <1>1, <1>6, WithdrawKeeps
  <2>2. PriceKept(pool[p], Q)
    BY <1>1, <2>1, PriceChain DEF PoolOK
  <2> QED BY <1>2, <1>6, <2>1, <2>2, QuietStep
<1>7. CASE \E q \in Pool, w \in Weights :
             /\ ChainOf[p] # ChainOf[q] /\ ~pool[p].chainPaths[q].created
             /\ pool' = [pool EXCEPT ![p] = CreateChainPath(@, q, w)]
  BY <1>3, <1>7
<1>8. CASE \E q \in Pool, w \in Weights :
             /\ pool[p].chainPaths[q].created
             /\ pool' = [pool EXCEPT ![p] = SetWeightForChainPath(@, q, w)]
  BY <1>4, <1>8
<1>9. CASE \/ \E fee \in FeeBPs : pool' = [pool EXCEPT ![p] = SetFee(@, fee)]
           \/ \E stop \in SwapStops : pool' = [pool EXCEPT ![p] = SetSwapStop(@, stop)]
           \/ \E d \in DeltaParams :
                pool' = [pool EXCEPT ![p] = SetDeltaParam(@, d[1], d[2], d[3], d[4], d[5])]
  BY <1>5, <1>9
<1>10. CASE \/ pool' = [pool EXCEPT ![p] = WithdrawMintFeeBalance(@)]
            \/ pool' = [pool EXCEPT ![p] = WithdrawProtocolFeeBalance(@)]
  BY <1>6, <1>10
<1> QED BY <1>7, <1>8, <1>9, <1>10 DEF DaoCall

\* Activating a path keeps the invariant.
LEMMA ActivateStep ==
  ASSUME StargateInv, NEW p \in Pool, NEW q \in Pool, Activate(p, q)
  PROVE  StargateInv' /\ PricesKept
<1> DEFINE y == pool[p].chainPaths[q]
           x == [y EXCEPT !.ready = TRUE]
<1>1. pool[p] \in PoolState /\ y \in ChainPath /\ PathsOK
  BY InvFacts, PathTypes
<1>2. /\ y.created /\ pool[q].chainPaths[p].created
      /\ pool' = [pool EXCEPT ![p] = ActivateChainPath(pool[p], q)]
      /\ UNCHANGED <<channel, outNonce, keptVars>>
  BY DEF Activate, CanActivate
<1>3. pool' = [pool EXCEPT ![p] = [pool[p] EXCEPT !.chainPaths[q] = x]]
  BY <1>1, <1>2, PoolTypes DEF ActivateChainPath
<1>4. ChainOf[p] # ChainOf[q]
  BY <1>1, <1>2 DEF PathsOK
<1>5. x \in ChainPath /\ x.lkb = y.lkb /\ x.credits = y.credits /\ x.balance = y.balance
      /\ x.created = y.created /\ x.ready = TRUE /\ x.weight = y.weight
  <2> HIDE DEF y
  <2> QED BY <1>1 DEF ChainPath
<1> HIDE DEF x
<1> QED BY <1>2, <1>3, <1>4, <1>5, PathSetStep
-----------------------------------------------------------------------------
(* Messages that are sent. *)

\* The nonces add up to the number of messages sent.
LEMMA NonceSum ==
  ASSUME NEW N \in [Channel -> Nat], NEW k \in Channel
  PROVE  /\ Total(N) \in Nat /\ N[k] \in Nat /\ N[k] <= Total(N)
         /\ Total([N EXCEPT ![k] = @ + 1]) = Total(N) + 1
<1> DEFINE M == [N EXCEPT ![k] = @ + 1]
<1>1. IsFiniteSet(Channel)
  BY BridgeAssumption, FS_Product DEF Channel
<1>2. /\ M \in [Channel -> Nat] /\ M[k] = N[k] + 1 /\ N[k] \in Nat
      /\ \A c \in Channel \ {k} : M[c] = N[c]
  OBVIOUS
<1>3. Total(N) \in Nat /\ Total(M) \in Nat /\ N[k] <= Total(N)
  BY <1>1, <1>2, TotalType, TotalMember
<1> HIDE DEF M
<1>4. Total(M) + N[k] = Total(N) + M[k]
  BY <1>1, <1>2, TotalChange
<1> QED BY <1>2, <1>3, <1>4 DEF M

\* There are ids for a user's message and for the answer to each redemption.
LEMMA NewIds ==
  ASSUME StargateInv, NEW p \in Pool, NEW q \in Pool,
         MaySend \/ Answers > 0
  PROVE  /\ NextId(p, q) \in TransferId /\ ChannelOf(p, q) \in Channel
         /\ NextId(p, q)[1] = ChannelOf(p, q)
         /\ NextId(p, q)[2] = outNonce[ChannelOf(p, q)] + 1
<1> DEFINE k == ChannelOf(p, q)
<1>1. k \in Channel
  BY BridgeAssumption DEF ChannelOf, Channel
<1>2. outNonce \in [Channel -> Nat] /\ NoncesOK /\ Outstanding \subseteq Message
      /\ IsFiniteSet(Outstanding)
  BY InvFacts
<1>3. Total(outNonce) \in Nat /\ outNonce[k] \in Nat /\ outNonce[k] <= Total(outNonce)
  BY <1>1, <1>2, NonceSum
<1>4. Answers \in Nat
  BY <1>2, SumTypes DEF Answers, AnswersOn
<1>5. MaxSent \in Nat
  BY BridgeAssumption
<1>6. outNonce[k] + 1 <= 2 * MaxSent
  <2>1. CASE MaySend
    BY <1>3, <1>5, <2>1 DEF MaySend
  <2>2. CASE Answers > 0
    BY <1>2, <1>3, <1>4, <1>5, <2>2 DEF NoncesOK
  <2> QED BY <2>1, <2>2
<1>7. outNonce[k] + 1 \in 1 .. 2 * MaxSent
  BY <1>3, <1>5, <1>6
<1> QED BY <1>1, <1>7 DEF NextId, TransferId

\* A message of a user: what leaves the sender's path, the message claims and
\* carries.
LEMMA SendStep ==
  ASSUME StargateInv, NEW p \in Pool, NEW q \in Pool, NEW R, PoolOK(R),
         PriceKept(pool[p], R), NEW out \in Nat,
         PathsMoved(pool[p], R, q, 0 - out, 0),
         NEW m \in Message, m.from = p, m.to = q, m.id = NextId(p, q), MaySend,
         m.type \in {"swap", "redeem", "credits"},
         Net(R) = Net(pool[p]) + Carried(m),
         m.type = "swap" => /\ SwapAdds(m.swap) /\ m.amountSD = 0 /\ m.mintSD = 0
                            /\ out = m.swap.lkbRemove,
         m.type # "swap" => m.swap = NoSwap /\ out = 0,
         m.type = "redeem" => m.mintSD = 0 /\ m.user \in User,
         SendWithCredits(R, m), UNCHANGED keptVars
  PROVE  StargateInv' /\ PricesKept
<1> DEFINE c == CreditsOf(R, q)
           Q == SendCredits(R, q)
           n == [m EXCEPT !.credit = c]
           k == ChannelOf(p, q)
<1>1. /\ pool[p] \in PoolState /\ pool \in [Pool -> PoolState] /\ PathsOK /\ NoncesOK
      /\ IsFiniteSet(Outstanding) /\ Outstanding \subseteq Message
      /\ TypeOK /\ IdsOK /\ MessagesOK /\ outNonce \in [Channel -> Nat]
  BY InvFacts
<1>2. R \in PoolState
  BY DEF PoolOK
<1>3. k \in Channel /\ m.id[1] = k /\ m.id = <<k, outNonce[k] + 1>>
  BY NewIds DEF NextId
<1>4. /\ CanSendCredits(R, q) /\ pool' = [pool EXCEPT ![p] = Q]
      /\ channel' = [channel EXCEPT ![k] = Append(@, n)]
      /\ outNonce' = [outNonce EXCEPT ![k] = @ + 1]
      /\ UNCHANGED <<revertLookup, cachedSwapLookup, dropped>>
  BY <1>3 DEF SendWithCredits, keptVars
<1>5. /\ PoolOK(Q) /\ SameShares(R, Q) /\ Net(Q) = Net(R) /\ c \in CreditObj
      /\ PathsMoved(R, Q, q, 0, c.credits)
  BY <1>4, SendCreditsKeeps
<1>6. c.credits \in Nat
  BY <1>5 DEF CreditObj
<1>7. /\ n \in Message /\ n.id = m.id /\ n.from = p /\ n.to = q /\ n.type = m.type
      /\ n.swap = m.swap /\ n.amountSD = m.amountSD /\ n.mintSD = m.mintSD
      /\ n.user = m.user /\ n.credit = c
  <2> HIDE DEF c
  <2> QED BY <1>5 DEF Message
<1> HIDE DEF c, Q, n
<1>8. IdsOK' /\ n \notin Outstanding /\ InFlight' = InFlight \cup {n}
      /\ DOMAIN channel' = Channel /\ (\A d \in Channel : channel'[d] \in Seq(Message))
      /\ outNonce' \in [Channel -> Nat]
  BY <1>1, <1>3, <1>4, <1>7, SendOrder
<1>9. Outstanding' = Outstanding \cup {n}
  BY <1>4, <1>8 DEF Outstanding
<1>10. IsFiniteSet(Outstanding')
  BY <1>1, <1>9, FS_AddElement
<1>11. /\ R.chainPaths[q].ready /\ TotalWeight(R) > 0
       /\ pool[p].chainPaths[q].ready /\ TotalWeight(R) = TotalWeight(pool[p])
  <2>1. \A r \in Pool : SameSettings(pool[p], R, r)
    BY DEF PathsMoved
  <2> QED BY <1>4, <2>1 DEF CanSendCredits, SameSettings, TotalWeight
<1>12. /\ pool[p].chainPaths[q].created /\ pool[q].chainPaths[p].created
       /\ ChainOf[p] # ChainOf[q] /\ q # p
  BY <1>1, <1>11 DEF PathsOK
<1>13. PathsMoved(pool[p], Q, q, 0 - out, c.credits)
  <2>1. Q \in PoolState /\ 0 - out \in Int /\ 0 \in Int /\ c.credits \in Int
    BY <1>5, <1>6 DEF PoolOK
  <2>2. PathsMoved(pool[p], Q, q, (0 - out) + 0, 0 + c.credits)
    BY <1>1, <1>2, <1>5, <2>1, MovedTwice
  <2>3. (0 - out) + 0 = 0 - out /\ 0 + c.credits = c.credits
    BY <1>6
  <2> QED BY <2>2, <2>3
<1>14. PriceKept(pool[p], Q)
  BY <1>1, <1>2, <1>5, PriceChain DEF PoolOK
<1>15. /\ Carried(n) = Carried(m) /\ Carried(n) \in Nat
       /\ LoadOn(Outstanding') = LoadOn(Outstanding) + Carried(n)
       /\ AnswersOn(Outstanding') = AnswersOn(Outstanding) + Unanswered(n)
       /\ \A x, y : ClaimsOn(Outstanding', x, y) = ClaimsOn(Outstanding, x, y) + Claim(n, x, y)
  <2>1. Carried(n) = Carried(m) /\ Carried(n) \in Nat
    BY <1>7, MessageTypes DEF Carried
  <2>2. /\ LoadOn(Outstanding \cup {n}) = LoadOn(Outstanding) + Carried(n)
        /\ AnswersOn(Outstanding \cup {n}) = AnswersOn(Outstanding) + Unanswered(n)
        /\ \A x, y : ClaimsOn(Outstanding \cup {n}, x, y)
                     = ClaimsOn(Outstanding, x, y) + Claim(n, x, y)
    <3> DEFINE S == Outstanding
    <3>1. S \in SUBSET Message /\ IsFiniteSet(S) /\ n \in Message /\ n \notin S
      BY <1>1, <1>7, <1>8
    <3> HIDE DEF S
    <3>2. /\ LoadOn(S \cup {n}) = LoadOn(S) + Carried(n)
          /\ AnswersOn(S \cup {n}) = AnswersOn(S) + Unanswered(n)
          /\ \A x, y : ClaimsOn(S \cup {n}, x, y) = ClaimsOn(S, x, y) + Claim(n, x, y)
      BY ONLY <3>1, SumsJoin
    <3> QED BY <3>2 DEF S
  <2> QED BY <1>9, <2>1, <2>2
<1>16. LoadOn(Outstanding') = LoadOn(Outstanding) + (Net(Q) - Net(pool[p]))
  <2>1. Net(pool[p]) \in Int
    BY <1>1, PoolTypes DEF Net
  <2>2. LoadOn(Outstanding) \in Nat
    BY <1>1, SumTypes
  <2> QED BY <1>5, <1>15, <2>1, <2>2
<1>17. \A x, y \in Pool : ClaimsOn(Outstanding', x, y)
         = ClaimsOn(Outstanding, x, y) + ClaimShift(x, y, p, q, 0 - out, c.credits)
  <2> SUFFICES ASSUME NEW x \in Pool, NEW y \in Pool
               PROVE  Claim(n, x, y) = ClaimShift(x, y, p, q, 0 - out, c.credits)
    BY <1>15
  <2>1. NoSwap.lkbRemove = 0
    BY DEF NoSwap
  <2>2. n.swap.lkbRemove \in Nat /\ n.amountSD \in Nat
    BY <1>7, MessageTypes
  <2> QED BY <1>6, <1>7, <1>12, <2>1, <2>2 DEF Claim, ClaimShift
<1>18. NoncesOK'
  <2>1. Total(outNonce') = Total(outNonce) + 1 /\ Total(outNonce) \in Nat
    BY <1>1, <1>3, <1>4, NonceSum
  <2>2. Answers = AnswersOn(Outstanding) /\ Answers' = AnswersOn(Outstanding')
    BY DEF Answers, AnswersOn
  <2>3. AnswersOn(Outstanding) \in Nat /\ Unanswered(n) \in {0, 1}
    BY <1>1, <1>7, SumTypes, MessageTypes
  <2>4. MaxSent \in Nat
    BY BridgeAssumption
  <2> QED BY <1>1, <1>15, <2>1, <2>2, <2>3, <2>4 DEF NoncesOK, MaySend
<1>19. MessageOK(n) /\ HasWeight(n)
  <2>1. MessageOK(n)
    BY <1>3, <1>7, <1>12 DEF MessageOK
  <2>2. HasWeight(n)
    BY <1>7, <1>11 DEF HasWeight
  <2> QED BY <2>1, <2>2
<1>20. /\ \A x \in InFlight' : x.type # "response"
       /\ \A x \in revertLookup' :
            x.credit = NoCredit /\ x.type \in {"swap", "callback", "response"}
  BY <1>1, <1>4, <1>7, <1>8 DEF MessagesOK
<1>21. /\ revertLookup' \subseteq Message /\ cachedSwapLookup' \subseteq Message
       /\ dropped' \subseteq Message
  BY <1>4, InvFacts
<1>22. \A x \in Outstanding' :
         x \in Outstanding \/ (MessageOK(x) /\ (0 \notin Weights => HasWeight(x)))
  BY <1>9, <1>19
<1>23. 0 - out \in Int /\ c.credits \in Int
  BY <1>6
<1>24. pool' = [pool EXCEPT ![p] = Q]
  BY <1>4
<1>25. Balanced(p, q, Q, 0 - out, c.credits)
  BY <1>5, <1>8, <1>10, <1>12, <1>13, <1>14, <1>16, <1>17, <1>18, <1>20, <1>21, <1>22,
     <1>24 DEF Balanced
<1> QED BY <1>23, <1>25, StepKeeps

\* What a swap of an amount with these fees carries.
LEMMA SwapTypes ==
  ASSUME NEW fees \in FeesCharged, NEW amount \in Nat,
         SwapOf(amount, fees).amount >= 0
  PROVE  LET s == SwapOf(amount, fees)
         IN  /\ s \in SwapObj /\ SwapAdds(s) /\ s.eqReward \in Nat /\ s.lkbRemove \in Nat
             /\ s.lpFee \in Nat /\ s.lkbRemove + s.lpFee = amount + s.eqReward
<1>1. /\ fees.eqFee \in Nat /\ fees.lpFee \in Nat /\ fees.protocolFee \in Nat
      /\ fees.eqReward \in Nat
  <2>1. PICK f \in FeeChoices, r \in Rewards :
          fees = [eqFee |-> f.eqFee, lpFee |-> f.lpFee, protocolFee |-> f.protocolFee,
                  eqReward |-> r]
    BY DEF FeesCharged
  <2>2. f \in [eqFee : Nat, lpFee : Nat, protocolFee : Nat] /\ r \in Nat
    BY BridgeAssumption
  <2> QED BY <2>1, <2>2
<1> DEFINE s == SwapOf(amount, fees)
<1>2. /\ s.amount = amount - fees.eqFee - fees.protocolFee - fees.lpFee
      /\ s.eqFee = fees.eqFee /\ s.eqReward = fees.eqReward /\ s.lpFee = fees.lpFee
      /\ s.protocolFee = fees.protocolFee
      /\ s.lkbRemove = amount - fees.lpFee + fees.eqReward
  BY DEF SwapOf
<1>3. s.amount \in Nat /\ s.lkbRemove \in Nat
  BY <1>1, <1>2
<1>4. s \in SwapObj
  BY <1>1, <1>2, <1>3 DEF SwapOf, SwapObj
<1>5. SwapAdds(s) /\ s.lkbRemove + s.lpFee = amount + s.eqReward
  BY <1>1, <1>2 DEF SwapAdds
<1> QED BY <1>1, <1>2, <1>3, <1>4, <1>5

\* The message of a transaction, before its credits are added.
LEMMA NewMessageTypes ==
  ASSUME StargateInv, MaySend \/ Answers > 0, NEW p \in Pool, NEW q \in Pool,
         NEW u \in User \cup {NoUser},
         NEW type \in {"credits", "swap", "redeem", "response", "callback"}
  PROVE  LET m == NewMessage(type, p, q, u)
         IN  /\ m \in Message /\ m.type = type /\ m.id = NextId(p, q) /\ m.from = p
             /\ m.to = q /\ m.user = u /\ m.swap = NoSwap /\ m.amountSD = 0
             /\ m.mintSD = 0
<1>1. NextId(p, q) \in TransferId
  BY NewIds
<1>2. NoCredit \in CreditObj /\ NoSwap \in SwapObj
  BY DEF NoCredit, CreditObj, NoSwap, SwapObj
<1> QED BY <1>1, <1>2 DEF NewMessage, Message

\* Swaps keep the invariant.
LEMMA SwapTokensStep ==
  ASSUME StargateInv, NEW p \in Pool, NEW q \in Pool, NEW u \in User,
         NEW amount \in Amounts, NEW fees \in FeesCharged, NEW payload \in Payloads,
         SwapTokens(p, q, u, amount, fees, payload)
  PROVE  StargateInv' /\ PricesKept
<1> DEFINE s == SwapOf(amount, fees)
           R == Swap(pool[p], q, amount, s, TRUE)
           b == NewMessage("swap", p, q, u)
           m == [b EXCEPT !.swap = s, !.payload = payload]
<1>1. /\ MaySend /\ CanSwap(pool[p], q, s) /\ SendWithCredits(R, m) /\ UNCHANGED keptVars
  BY DEF SwapTokens
<1>2. amount \in Nat /\ payload \in BOOLEAN
  BY BridgeAssumption
<1>3. /\ s \in SwapObj /\ SwapAdds(s) /\ s.eqReward \in Nat /\ s.lkbRemove \in Nat
      /\ s.lpFee \in Nat /\ s.lkbRemove + s.lpFee = amount + s.eqReward
  BY <1>1, <1>2, SwapTypes DEF CanSwap
<1>4. PoolOK(pool[p]) /\ pool[p] \in PoolState
  BY InvFacts
<1>5. /\ b \in Message /\ b.type = "swap" /\ b.id = NextId(p, q) /\ b.from = p
      /\ b.to = q /\ b.amountSD = 0 /\ b.mintSD = 0
  BY <1>1, NewMessageTypes
<1> HIDE DEF b
<1>6. /\ m \in Message /\ m.type = "swap" /\ m.id = NextId(p, q) /\ m.from = p
      /\ m.to = q /\ m.swap = s /\ m.amountSD = 0 /\ m.mintSD = 0
  <2> HIDE DEF s
  <2> QED BY <1>2, <1>3, <1>5 DEF Message
<1> HIDE DEF m, s
<1>7. /\ PoolOK(R) /\ SameShares(pool[p], R)
      /\ Net(R) = Net(pool[p]) + amount + s.eqReward
      /\ PathsMoved(pool[p], R, q, 0 - s.lkbRemove, 0)
  BY <1>1, <1>2, <1>3, <1>4, SwapKeeps
<1> HIDE DEF R
<1>8. PriceKept(pool[p], R)
  BY <1>4, <1>7, PriceChain DEF PoolOK
<1>9. Net(R) = Net(pool[p]) + Carried(m)
  <2>1. Carried(m) = s.lkbRemove + s.lpFee
    BY <1>6 DEF Carried
  <2>2. Net(pool[p]) \in Int
    BY <1>4, PoolTypes DEF Net
  <2> QED BY <1>2, <1>3, <1>7, <2>1, <2>2
<1> QED BY <1>1, <1>3, <1>6, <1>7, <1>8, <1>9, SendStep

\* Redemptions that are paid out elsewhere keep the invariant.
LEMMA RedeemRemotelyStep ==
  ASSUME StargateInv, NEW p \in Pool, NEW q \in Pool, NEW u \in User,
         NEW amountLP \in Amounts, NEW fees \in FeesCharged,
         RedeemRemotely(p, q, u, amountLP, fees)
  PROVE  StargateInv' /\ PricesKept
<1> DEFINE P == pool[p]
           sd == AmountLPtoSD(P, amountLP)
           s == SwapOf(sd, fees)
           S == Swap(P, q, sd, s, FALSE)
           R == RedeemRemote(S, u, amountLP)
           b == NewMessage("swap", p, q, u)
           m == [b EXCEPT !.swap = s]
<1>1. /\ MaySend /\ CanBurn(P, u, amountLP) /\ CanSwap(P, q, s)
      /\ SendWithCredits(R, m) /\ UNCHANGED keptVars
  BY DEF RedeemRemotely
<1>2. amountLP \in Nat
  BY BridgeAssumption
<1>3. PoolOK(P) /\ P \in PoolState
  BY InvFacts
<1>4. sd \in Nat
  BY <1>1, <1>2, <1>3, BurnKeeps
<1> HIDE DEF sd
<1>5. /\ s \in SwapObj /\ SwapAdds(s) /\ s.eqReward \in Nat /\ s.lkbRemove \in Nat
      /\ s.lpFee \in Nat /\ s.lkbRemove + s.lpFee = sd + s.eqReward
  BY <1>1, <1>4, SwapTypes DEF CanSwap
<1>6. /\ b \in Message /\ b.type = "swap" /\ b.id = NextId(p, q) /\ b.from = p
      /\ b.to = q /\ b.amountSD = 0 /\ b.mintSD = 0
  BY <1>1, NewMessageTypes
<1> HIDE DEF b
<1>7. /\ m \in Message /\ m.type = "swap" /\ m.id = NextId(p, q) /\ m.from = p
      /\ m.to = q /\ m.swap = s /\ m.amountSD = 0 /\ m.mintSD = 0
  <2> HIDE DEF s
  <2> QED BY <1>5, <1>6 DEF Message
<1> HIDE DEF m, s
<1>8. /\ PoolOK(S) /\ SameShares(P, S) /\ Net(S) = Net(P) + 0 + s.eqReward
      /\ PathsMoved(P, S, q, 0 - s.lkbRemove, 0)
  <2>1. PICK new : new = FALSE
    OBVIOUS
  <2>2. PICK none \in Nat : none = 0
    OBVIOUS
  <2> DEFINE T == Swap(P, q, sd, s, new)
  <2>3. /\ PoolOK(T) /\ SameShares(P, T) /\ Net(T) = Net(P) + none + s.eqReward
        /\ PathsMoved(P, T, q, 0 - s.lkbRemove, 0)
    <3>1. ~new
      BY <2>1
    <3> QED BY <1>1, <1>3, <1>4, <1>5, <2>2, <3>1, SwapKeeps
  <2>4. T = S
    BY <2>1
  <2> HIDE DEF T, S
  <2> QED BY <2>2, <2>3, <2>4
<1>9. S \in PoolState /\ S.defaultLPMode \in BOOLEAN
  BY <1>8, PoolTypes DEF PoolOK
<1>10. CanBurn(S, u, amountLP) /\ AmountLPtoSD(S, amountLP) = sd
  BY <1>1, <1>8 DEF SameShares, CanBurn, AmountLPtoSD, TotalSupply, sd
<1> HIDE DEF S
<1>11. /\ PoolOK(R) /\ PriceKept(S, R) /\ Net(R) = Net(S) + sd /\ SamePaths(S, R)
  BY <1>2, <1>8, <1>9, <1>10, RedeemKeeps DEF RedeemRemote
<1> HIDE DEF R
<1>12. R \in PoolState
  BY <1>11 DEF PoolOK
<1>13. PathsMoved(P, R, q, 0 - s.lkbRemove, 0)
  <2>1. PathsMoved(S, R, q, 0, 0)
    BY <1>9, <1>11, MovedNot
  <2>2. 0 - s.lkbRemove \in Int /\ 0 \in Int
    BY <1>5
  <2>3. PathsMoved(P, R, q, (0 - s.lkbRemove) + 0, 0 + 0)
    BY <1>3, <1>8, <1>9, <1>12, <2>1, <2>2, MovedTwice
  <2>4. (0 - s.lkbRemove) + 0 = 0 - s.lkbRemove /\ 0 + 0 = 0
    BY <2>2
  <2> QED BY <2>3, <2>4
<1>14. PriceKept(P, R)
  BY <1>3, <1>8, <1>9, <1>11, <1>12, PriceChain
<1>15. Net(R) = Net(P) + Carried(m)
  <2>1. Carried(m) = s.lkbRemove + s.lpFee
    BY <1>7 DEF Carried
  <2>2. Net(P) \in Int
    BY <1>3, PoolTypes DEF Net
  <2> QED BY <1>4, <1>5, <1>8, <1>11, <2>1, <2>2
<1> QED BY <1>1, <1>5, <1>7, <1>11, <1>13, <1>14, <1>15, SendStep

\* Redemptions that the other end answers keep the invariant.
LEMMA RedeemLocallyStep ==
  ASSUME StargateInv, NEW p \in Pool, NEW q \in Pool, NEW u \in User,
         NEW amountLP \in Amounts, RedeemLocally(p, q, u, amountLP)
  PROVE  StargateInv' /\ PricesKept
<1> DEFINE P == pool[p]
           sd == AmountLPtoSD(P, amountLP)
           R == RedeemLocal(P, u, amountLP)
           b == NewMessage("redeem", p, q, u)
           m == [b EXCEPT !.amountSD = sd]
<1>1. /\ MaySend /\ CanBurn(P, u, amountLP) /\ SendWithCredits(R, m) /\ UNCHANGED keptVars
  BY DEF RedeemLocally
<1>2. amountLP \in Nat
  BY BridgeAssumption
<1>3. PoolOK(P) /\ P \in PoolState
  BY InvFacts
<1>4. /\ PoolOK(R) /\ PriceKept(P, R) /\ sd \in Nat /\ Net(R) = Net(P) + sd
      /\ SamePaths(P, R)
  BY <1>1, <1>2, <1>3, RedeemKeeps DEF RedeemLocal
<1>5. /\ b \in Message /\ b.type = "redeem" /\ b.id = NextId(p, q) /\ b.from = p
      /\ b.to = q /\ b.user = u /\ b.swap = NoSwap /\ b.mintSD = 0
  BY <1>1, NewMessageTypes
<1> HIDE DEF b, sd
<1>6. /\ m \in Message /\ m.type = "redeem" /\ m.id = NextId(p, q) /\ m.from = p
      /\ m.to = q /\ m.user = u /\ m.swap = NoSwap /\ m.amountSD = sd /\ m.mintSD = 0
  BY <1>4, <1>5 DEF Message
<1> HIDE DEF m, R
<1>7. PathsMoved(P, R, q, 0 - 0, 0)
  <2>1. PathsMoved(P, R, q, 0, 0) /\ 0 - 0 = 0
    BY <1>3, <1>4, MovedNot
  <2> QED BY <2>1
<1>8. Net(R) = Net(P) + Carried(m)
  BY <1>4, <1>6 DEF Carried
<1> QED BY <1>1, <1>4, <1>6, <1>7, <1>8, SendStep

\* Sending credits keeps the invariant.
LEMMA SendCreditsOnlyStep ==
  ASSUME StargateInv, NEW p \in Pool, NEW q \in Pool, SendCreditsOnly(p, q)
  PROVE  StargateInv' /\ PricesKept
<1> DEFINE P == pool[p]
           m == NewMessage("credits", p, q, NoUser)
<1>1. MaySend /\ SendWithCredits(P, m) /\ UNCHANGED keptVars
  BY DEF SendCreditsOnly
<1>2. PoolOK(P) /\ P \in PoolState
  BY InvFacts
<1>3. SamePaths(P, P) /\ SameShares(P, P)
  BY DEF SamePaths, SameSettings, SameShares
<1>4. PathsMoved(P, P, q, 0 - 0, 0)
  <2>1. PathsMoved(P, P, q, 0, 0) /\ 0 - 0 = 0
    BY <1>2, <1>3, MovedNot
  <2> QED BY <2>1
<1>5. /\ m \in Message /\ m.type = "credits" /\ m.id = NextId(p, q) /\ m.from = p
      /\ m.to = q /\ m.swap = NoSwap
  BY <1>1, NewMessageTypes
<1> HIDE DEF m
<1>6. Net(P) = Net(P) + Carried(m)
  <2>1. Net(P) \in Int
    BY <1>2, PoolTypes DEF Net
  <2> QED BY <1>5, <2>1 DEF Carried
<1>7. PriceKept(P, P)
  BY <1>2, <1>3, PriceChain
<1> QED BY <1>1, <1>2, <1>4, <1>5, <1>6, <1>7, SendStep
-----------------------------------------------------------------------------
(* Messages that arrive, or are retried. *)

\* What is kept of a message.
LEMMA KeptTypes ==
  ASSUME NEW m \in Message, NEW type \in {"swap", "callback", "response"}
  PROVE  LET n == Kept(m, type)
         IN  /\ n \in Message /\ n.type = type /\ n.credit = NoCredit /\ n.id = m.id
             /\ n.from = m.from /\ n.to = m.to /\ n.user = m.user /\ n.swap = m.swap
             /\ n.amountSD = m.amountSD /\ n.mintSD = m.mintSD /\ n.origin = m.origin
             /\ n.credit.credits = 0
             /\ m.type = type /\ m.credit = NoCredit => n = m
<1>1. NoCredit \in CreditObj /\ NoCredit.credits = 0
  BY DEF NoCredit, CreditObj
<1> QED BY <1>1 DEF Kept, Message

\* What a pool holds beyond what it owes is an integer.
LEMMA NetType == ASSUME NEW P \in PoolState PROVE Net(P) \in Int
BY PoolTypes DEF Net

\* The ends of an outstanding message.
LEMMA EndsKnown ==
  ASSUME StargateInv, NEW m \in Outstanding
  PROVE  /\ m \in Message /\ m.from \in Pool /\ m.to \in Pool /\ m.from # m.to
         /\ pool[m.to].chainPaths[m.from].created
         /\ pool[m.from].chainPaths[m.to].created
         /\ PoolOK(pool[m.to]) /\ pool[m.to] \in PoolState
         /\ MessageOK(m) /\ (0 \notin Weights => HasWeight(m))
<1>1. m \in Message /\ MessageOK(m) /\ (0 \notin Weights => HasWeight(m))
  BY InvFacts DEF MessagesOK, WeightsOK
<1>2. m.from \in Pool /\ m.to \in Pool
  BY <1>1, MessageTypes
<1>3. pool[m.to].chainPaths[m.from].created /\ pool[m.from].chainPaths[m.to].created
  BY <1>1 DEF MessageOK
<1>4. ChainOf[m.to] # ChainOf[m.from]
  BY <1>2, <1>3, InvFacts DEF PathsOK
<1> QED BY <1>1, <1>2, <1>3, <1>4, InvFacts

\* m is no longer outstanding, and no other message has come or gone.
Gone(m) ==
  /\ m \in Outstanding /\ Outstanding' = Outstanding \ {m}
  /\ IdsOK' /\ InFlight' \subseteq InFlight /\ DOMAIN channel' = Channel
  /\ \A c \in Channel : channel'[c] \in Seq(Message)
  /\ outNonce' = outNonce /\ revertLookup' \subseteq revertLookup
  /\ cachedSwapLookup' \subseteq Message /\ dropped' \subseteq Message

\* A message is taken in: the receiver's path does what the message claimed, and
\* the pool takes on what it carried.
LEMMA TakeStep ==
  ASSUME StargateInv, NEW m, Gone(m), Unanswered(m) = 0, NEW Q, PoolOK(Q),
         NEW p, NEW q, m.to = p, m.from = q,
         PriceKept(pool[p], Q), pool' = [pool EXCEPT ![p] = Q],
         PathsMoved(pool[p], Q, q, Claim(m, q, p), 0 - Claim(m, p, q)),
         Net(Q) = Net(pool[p]) - Carried(m)
  PROVE  StargateInv' /\ PricesKept
<1>0. /\ m \in Outstanding /\ Outstanding' = Outstanding \ {m}
      /\ IdsOK' /\ InFlight' \subseteq InFlight /\ DOMAIN channel' = Channel
      /\ \A c \in Channel : channel'[c] \in Seq(Message)
      /\ outNonce' = outNonce /\ revertLookup' \subseteq revertLookup
      /\ cachedSwapLookup' \subseteq Message /\ dropped' \subseteq Message
  BY DEF Gone
<1> DEFINE db == Claim(m, q, p)
           dl == 0 - Claim(m, p, q)
<1>1. /\ m \in Message /\ p \in Pool /\ q \in Pool /\ q # p
      /\ pool[p].chainPaths[q].created /\ pool[p] \in PoolState
  BY <1>0, EndsKnown
<1>2. db \in Nat /\ dl \in Int /\ Carried(m) \in Nat /\ \A x, y : Claim(m, x, y) \in Nat
  <2>1. /\ Carried(m) \in Nat /\ \A x, y : Claim(m, x, y) \in Nat
    BY <1>1, MessageTypes
  <2> QED BY <2>1
<1>3. IsFiniteSet(Outstanding) /\ Outstanding \subseteq Message /\ MessagesOK /\ NoncesOK
      /\ outNonce \in [Channel -> Nat] /\ revertLookup \subseteq Message
  BY InvFacts
<1>4. /\ IsFiniteSet(Outstanding')
      /\ LoadOn(Outstanding) = LoadOn(Outstanding') + Carried(m)
      /\ AnswersOn(Outstanding) = AnswersOn(Outstanding') + Unanswered(m)
      /\ \A x, y : ClaimsOn(Outstanding, x, y) = ClaimsOn(Outstanding', x, y) + Claim(m, x, y)
      /\ Outstanding' \subseteq Message
  <2> DEFINE S == Outstanding
  <2>1. S \in SUBSET Message /\ IsFiniteSet(S) /\ m \in S
    BY <1>0, <1>3
  <2> HIDE DEF S
  <2>2. /\ IsFiniteSet(S \ {m}) /\ S \ {m} \subseteq Message
        /\ LoadOn(S) = LoadOn(S \ {m}) + Carried(m)
        /\ AnswersOn(S) = AnswersOn(S \ {m}) + Unanswered(m)
        /\ \A x, y : ClaimsOn(S, x, y) = ClaimsOn(S \ {m}, x, y) + Claim(m, x, y)
    BY <2>1, SumsLeave
  <2> QED BY <1>0, <2>2 DEF S
<1>5. /\ LoadOn(Outstanding') \in Nat /\ AnswersOn(Outstanding') \in Nat
      /\ \A x, y : ClaimsOn(Outstanding', x, y) \in Nat
  BY <1>4, SumTypes
<1>6. \A x, y \in Pool : ClaimsOn(Outstanding', x, y)
        = ClaimsOn(Outstanding, x, y) + ClaimShift(x, y, p, q, db, dl)
  <2> SUFFICES ASSUME NEW x \in Pool, NEW y \in Pool
               PROVE  ClaimsOn(Outstanding', x, y)
                        = ClaimsOn(Outstanding, x, y) + ClaimShift(x, y, p, q, db, dl)
    OBVIOUS
  <2>1. ClaimShift(x, y, p, q, db, dl) = 0 - Claim(m, x, y)
    <3>1. CASE x = p /\ y = q
      BY <3>1 DEF ClaimShift
    <3>2. CASE x = q /\ y = p
      BY <1>1, <3>2 DEF ClaimShift
    <3>3. CASE ~(x = p /\ y = q) /\ ~(x = q /\ y = p)
      BY <1>2, <3>3 DEF ClaimShift, Claim
    <3> QED BY <3>1, <3>2, <3>3
  <2>2. /\ ClaimsOn(Outstanding, x, y) = ClaimsOn(Outstanding', x, y) + Claim(m, x, y)
        /\ ClaimsOn(Outstanding', x, y) \in Nat /\ Claim(m, x, y) \in Nat
    BY <1>2, <1>4, <1>5
  <2> QED BY <2>1, <2>2
<1>7. LoadOn(Outstanding') = LoadOn(Outstanding) + (Net(Q) - Net(pool[p]))
  <2>1. Net(pool[p]) \in Int
    BY <1>1, NetType
  <2> QED BY <1>2, <1>4, <1>5, <2>1
<1>8. NoncesOK'
  <2>1. Answers' = AnswersOn(Outstanding') /\ Answers = AnswersOn(Outstanding)
    BY DEF Answers, AnswersOn
  <2>2. Answers' = Answers
    BY <1>4, <1>5, <2>1
  <2> QED BY <1>0, <1>3, <2>2 DEF NoncesOK
<1>9. /\ \A x \in InFlight' : x.type # "response"
      /\ \A x \in revertLookup' :
           x.credit = NoCredit /\ x.type \in {"swap", "callback", "response"}
      /\ outNonce' \in [Channel -> Nat] /\ revertLookup' \subseteq Message
  BY <1>0, <1>3 DEF MessagesOK
<1>10. \A x \in Outstanding' :
         x \in Outstanding \/ (MessageOK(x) /\ (0 \notin Weights => HasWeight(x)))
  BY <1>0
<1>11. db \in Int /\ dl \in Int
  BY <1>2
<1>13. (q # p /\ pool[p].chainPaths[q].created) \/ (db = 0 /\ dl = 0)
  BY <1>1
<1>14. p \in Pool /\ q \in Pool /\ IsFiniteSet(Outstanding')
  BY <1>1, <1>4
<1>12. /\ pool' = [pool EXCEPT ![p] = Q] /\ PathsMoved(pool[p], Q, q, db, dl)
       /\ PriceKept(pool[p], Q)
  OBVIOUS
<1> HIDE DEF db, dl
<1>15. Balanced(p, q, Q, db, dl)
  BY <1>0, <1>6, <1>7, <1>8, <1>9, <1>10, <1>12, <1>13, <1>14 DEF Balanced
<1> QED BY <1>11, <1>14, <1>15, StepKeeps

\* m is no longer outstanding, but n is in its place.
Replaced(m, n) ==
  /\ m \in Outstanding /\ n \in Message /\ n \notin Outstanding \ {m}
  /\ Outstanding' = (Outstanding \ {m}) \cup {n}
  /\ n.credit = NoCredit /\ n.type \in {"swap", "callback", "response"}
  /\ MessageOK(n) /\ (0 \notin Weights => HasWeight(n))
  /\ IdsOK' /\ InFlight' \subseteq InFlight /\ DOMAIN channel' = Channel
  /\ \A c \in Channel : channel'[c] \in Seq(Message)
  /\ outNonce' = outNonce /\ revertLookup' \subseteq revertLookup \cup {n}
  /\ cachedSwapLookup' \subseteq Message /\ dropped' \subseteq Message

\* A message is taken in, and n is kept in its place.
LEMMA KeepStep ==
  ASSUME StargateInv, NEW m, NEW n, Replaced(m, n), Unanswered(n) = Unanswered(m),
         NEW Q, PoolOK(Q), NEW p, NEW q, m.to = p, m.from = q, n.from = q, n.to = p,
         PriceKept(pool[p], Q), pool' = [pool EXCEPT ![p] = Q],
         PathsMoved(pool[p], Q, q, Claim(m, q, p) - Claim(n, q, p),
                    Claim(n, p, q) - Claim(m, p, q)),
         Net(Q) = Net(pool[p]) + Carried(n) - Carried(m)
  PROVE  StargateInv' /\ PricesKept
<1>0. /\ m \in Outstanding /\ n \in Message /\ n \notin Outstanding \ {m}
      /\ Outstanding' = (Outstanding \ {m}) \cup {n}
      /\ n.credit = NoCredit /\ n.type \in {"swap", "callback", "response"}
      /\ MessageOK(n) /\ (0 \notin Weights => HasWeight(n))
      /\ IdsOK' /\ InFlight' \subseteq InFlight /\ DOMAIN channel' = Channel
      /\ \A c \in Channel : channel'[c] \in Seq(Message)
      /\ outNonce' = outNonce /\ revertLookup' \subseteq revertLookup \cup {n}
      /\ cachedSwapLookup' \subseteq Message /\ dropped' \subseteq Message
  BY DEF Replaced
<1> DEFINE db == Claim(m, q, p) - Claim(n, q, p)
           dl == Claim(n, p, q) - Claim(m, p, q)
           rest == Outstanding \ {m}
<1>1. /\ m \in Message /\ p \in Pool /\ q \in Pool /\ q # p
      /\ pool[p].chainPaths[q].created /\ pool[p] \in PoolState
  BY <1>0, EndsKnown
<1>2. /\ Carried(m) \in Nat /\ Carried(n) \in Nat
      /\ \A x, y : Claim(m, x, y) \in Nat /\ Claim(n, x, y) \in Nat
  BY <1>0, <1>1, MessageTypes
<1>3. db \in Int /\ dl \in Int
  BY <1>2
<1>4. IsFiniteSet(Outstanding) /\ Outstanding \subseteq Message /\ MessagesOK /\ NoncesOK
      /\ outNonce \in [Channel -> Nat] /\ revertLookup \subseteq Message
  BY InvFacts
<1>5. /\ IsFiniteSet(rest) /\ rest \subseteq Message
      /\ LoadOn(Outstanding) = LoadOn(rest) + Carried(m)
      /\ AnswersOn(Outstanding) = AnswersOn(rest) + Unanswered(m)
      /\ \A x, y : ClaimsOn(Outstanding, x, y) = ClaimsOn(rest, x, y) + Claim(m, x, y)
  <2> DEFINE S == Outstanding
  <2>1. S \in SUBSET Message /\ IsFiniteSet(S) /\ m \in S
    BY <1>0, <1>4
  <2> HIDE DEF S
  <2>2. /\ IsFiniteSet(S \ {m}) /\ S \ {m} \subseteq Message
        /\ LoadOn(S) = LoadOn(S \ {m}) + Carried(m)
        /\ AnswersOn(S) = AnswersOn(S \ {m}) + Unanswered(m)
        /\ \A x, y : ClaimsOn(S, x, y) = ClaimsOn(S \ {m}, x, y) + Claim(m, x, y)
    BY <2>1, SumsLeave
  <2> QED BY <1>0, <2>2 DEF S
<1> HIDE DEF rest
<1>6. n \notin rest /\ Outstanding' = rest \cup {n}
  BY <1>0 DEF rest
<1>7. /\ IsFiniteSet(Outstanding')
      /\ LoadOn(Outstanding') = LoadOn(rest) + Carried(n)
      /\ AnswersOn(Outstanding') = AnswersOn(rest) + Unanswered(n)
      /\ \A x, y : ClaimsOn(Outstanding', x, y) = ClaimsOn(rest, x, y) + Claim(n, x, y)
  <2>1. /\ LoadOn(rest \cup {n}) = LoadOn(rest) + Carried(n)
        /\ AnswersOn(rest \cup {n}) = AnswersOn(rest) + Unanswered(n)
        /\ \A x, y : ClaimsOn(rest \cup {n}, x, y) = ClaimsOn(rest, x, y) + Claim(n, x, y)
    BY <1>0, <1>5, <1>6, SumsJoin
  <2>2. IsFiniteSet(rest \cup {n})
    BY <1>5, FS_AddElement
  <2> QED BY <1>6, <2>1, <2>2
<1>8. /\ LoadOn(rest) \in Nat /\ AnswersOn(rest) \in Nat
      /\ \A x, y : ClaimsOn(rest, x, y) \in Nat
  BY <1>5, SumTypes
<1>9. \A x, y \in Pool : ClaimsOn(Outstanding', x, y)
        = ClaimsOn(Outstanding, x, y) + ClaimShift(x, y, p, q, db, dl)
  <2> SUFFICES ASSUME NEW x \in Pool, NEW y \in Pool
               PROVE  ClaimsOn(Outstanding', x, y)
                        = ClaimsOn(Outstanding, x, y) + ClaimShift(x, y, p, q, db, dl)
    OBVIOUS
  <2>1. ClaimShift(x, y, p, q, db, dl) = Claim(n, x, y) - Claim(m, x, y)
    <3>1. CASE x = p /\ y = q
      BY <3>1 DEF ClaimShift
    <3>2. CASE x = q /\ y = p
      BY <1>1, <1>2, <3>2 DEF ClaimShift
    <3>3. CASE ~(x = p /\ y = q) /\ ~(x = q /\ y = p)
      BY <1>2, <3>3 DEF ClaimShift, Claim
    <3> QED BY <3>1, <3>2, <3>3
  <2>2. /\ ClaimsOn(Outstanding, x, y) = ClaimsOn(rest, x, y) + Claim(m, x, y)
        /\ ClaimsOn(Outstanding', x, y) = ClaimsOn(rest, x, y) + Claim(n, x, y)
        /\ ClaimsOn(rest, x, y) \in Nat /\ Claim(m, x, y) \in Nat /\ Claim(n, x, y) \in Nat
    BY <1>2, <1>5, <1>7, <1>8
  <2> HIDE DEF db, dl
  <2> QED BY <2>1, <2>2
<1>10. LoadOn(Outstanding') = LoadOn(Outstanding) + (Net(Q) - Net(pool[p]))
  <2>1. Net(pool[p]) \in Int
    BY <1>1, NetType
  <2> QED BY <1>2, <1>5, <1>7, <1>8, <2>1
<1>11. NoncesOK'
  <2>1. Answers' = AnswersOn(Outstanding') /\ Answers = AnswersOn(Outstanding)
    BY DEF Answers, AnswersOn
  <2>2. Answers' = Answers
    BY <1>5, <1>7, <1>8, <2>1
  <2> QED BY <1>0, <1>4, <2>2 DEF NoncesOK
<1>12. /\ \A x \in InFlight' : x.type # "response"
       /\ \A x \in revertLookup' :
            x.credit = NoCredit /\ x.type \in {"swap", "callback", "response"}
       /\ outNonce' \in [Channel -> Nat] /\ revertLookup' \subseteq Message
  BY <1>0, <1>4 DEF MessagesOK
<1>13. \A x \in Outstanding' :
         x \in Outstanding \/ (MessageOK(x) /\ (0 \notin Weights => HasWeight(x)))
  BY <1>0, <1>6 DEF rest
<1>14. /\ pool' = [pool EXCEPT ![p] = Q] /\ PathsMoved(pool[p], Q, q, db, dl)
       /\ PriceKept(pool[p], Q)
  OBVIOUS
<1> HIDE DEF db, dl
<1>15. Balanced(p, q, Q, db, dl)
  BY <1>0, <1>1, <1>7, <1>9, <1>10, <1>11, <1>12, <1>13, <1>14 DEF Balanced
<1> QED BY <1>1, <1>3, <1>15, StepKeeps

\* pl is the receiving pool once the credits of m are booked.
Booking(m, p, q, pl) ==
  /\ m.to = p /\ m.from = q /\ PoolOK(pl) /\ SameShares(pool[p], pl)
  /\ Net(pl) = Net(pool[p]) /\ PathsMoved(pool[p], pl, q, m.credit.credits, 0)

\* The facts about a message and the pool that it arrives at.
LEMMA BookingFacts ==
  ASSUME StargateInv, NEW m, m \in Outstanding, NEW p, NEW q, NEW pl,
         Booking(m, p, q, pl)
  PROVE  /\ m \in Message /\ p \in Pool /\ q \in Pool /\ p # q
         /\ m.to = p /\ m.from = q /\ PoolOK(pl) /\ pl \in PoolState
         /\ SameShares(pool[p], pl) /\ Net(pl) = Net(pool[p]) /\ PriceKept(pool[p], pl)
         /\ PathsMoved(pool[p], pl, q, m.credit.credits, 0)
         /\ pool[p] \in PoolState /\ Net(pool[p]) \in Int
         /\ m.credit.credits \in Nat /\ m.swap \in SwapObj
         /\ m.amountSD \in Nat /\ m.mintSD \in Nat /\ m.swap.lkbRemove \in Nat
         /\ m.swap.lpFee \in Nat
         /\ m.type = "swap" => SwapAdds(m.swap) /\ m.amountSD = 0 /\ m.mintSD = 0
         /\ m.type # "swap" => m.swap.lkbRemove = 0
         /\ m.type \in {"redeem", "response", "callback"} => m.user \in User
         /\ Claim(m, q, p) = m.credit.credits + (IF m.type = "response" THEN m.amountSD ELSE 0)
         /\ Claim(m, p, q) = IF m.type \in {"swap", "callback"}
                             THEN m.swap.lkbRemove + m.amountSD ELSE 0
<1>1. /\ m.to = p /\ m.from = q /\ PoolOK(pl) /\ SameShares(pool[p], pl)
      /\ Net(pl) = Net(pool[p]) /\ PathsMoved(pool[p], pl, q, m.credit.credits, 0)
  BY DEF Booking
<1>2. /\ m \in Message /\ p \in Pool /\ q \in Pool /\ p # q /\ pool[p] \in PoolState
      /\ MessageOK(m)
  BY <1>1, EndsKnown
<1>3. pl \in PoolState
  BY <1>1 DEF PoolOK
<1>4. PriceKept(pool[p], pl)
  BY <1>1, <1>2, <1>3, PriceChain
<1>5. Net(pool[p]) \in Int
  BY <1>2, NetType
<1>6. NoSwap.lkbRemove = 0
  BY DEF NoSwap
<1>7. /\ m.type = "swap" => SwapAdds(m.swap) /\ m.amountSD = 0 /\ m.mintSD = 0
      /\ m.type # "swap" => m.swap.lkbRemove = 0
      /\ m.type \in {"redeem", "response", "callback"} => m.user \in User
  BY <1>2, <1>6 DEF MessageOK
<1>8. /\ Claim(m, q, p) = m.credit.credits + (IF m.type = "response" THEN m.amountSD ELSE 0)
      /\ Claim(m, p, q) = IF m.type \in {"swap", "callback"}
                          THEN m.swap.lkbRemove + m.amountSD ELSE 0
  BY <1>1, <1>2 DEF Claim
<1> QED BY <1>1, <1>2, <1>3, <1>4, <1>5, <1>7, <1>8, MessageTypes

\* A swap is paid out.
LEMMA SwapTaken ==
  ASSUME StargateInv, NEW m, Gone(m), m.type = "swap", NEW p, NEW q, NEW pl,
         Booking(m, p, q, pl), CanSwapRemote(pl, q, m.swap),
         pool' = [pool EXCEPT ![p] = SwapRemote(pl, q, m.swap)]
  PROVE  StargateInv' /\ PricesKept
<1> DEFINE Q == SwapRemote(pl, q, m.swap)
           c == m.credit.credits
           r == m.swap.lkbRemove
<1>1. /\ m \in Message /\ p \in Pool /\ q \in Pool /\ p # q
      /\ m.to = p /\ m.from = q /\ PoolOK(pl) /\ pl \in PoolState
      /\ SameShares(pool[p], pl) /\ Net(pl) = Net(pool[p])
      /\ PathsMoved(pool[p], pl, q, c, 0)
      /\ pool[p] \in PoolState /\ Net(pool[p]) \in Int
      /\ c \in Nat /\ m.swap \in SwapObj /\ r \in Nat /\ m.swap.lpFee \in Nat
      /\ SwapAdds(m.swap) /\ m.amountSD = 0
      /\ Claim(m, q, p) = c + 0 /\ Claim(m, p, q) = r + 0
  BY BookingFacts DEF Gone
<1>2. /\ PoolOK(Q) /\ PriceKept(pl, Q) /\ Net(Q) = Net(pl) - r - m.swap.lpFee
      /\ PathsMoved(pl, Q, q, 0, 0 - r)
  BY <1>1, SwapRemoteKeeps
<1>3. Q \in PoolState
  BY <1>2 DEF PoolOK
<1>4. pool' = [pool EXCEPT ![p] = Q]
  OBVIOUS
<1> HIDE DEF Q, c, r
<1>5. PriceKept(pool[p], Q)
  BY <1>1, <1>2, <1>3, PriceChain
<1>6. PathsMoved(pool[p], Q, q, c + 0, 0 + (0 - r))
  <2>1. c \in Int /\ 0 \in Int /\ 0 - r \in Int
    BY <1>1
  <2> QED BY <1>1, <1>2, <1>3, <2>1, MovedTwice
<1>7. c + 0 = Claim(m, q, p) /\ 0 + (0 - r) = 0 - Claim(m, p, q)
  BY <1>1
<1>8. PathsMoved(pool[p], Q, q, Claim(m, q, p), 0 - Claim(m, p, q))
  BY <1>6, <1>7
<1>9. Net(Q) = Net(pool[p]) - Carried(m) /\ Unanswered(m) = 0
  BY <1>1, <1>2 DEF Carried, Unanswered, r
<1> QED BY <1>1, <1>2, <1>4, <1>5, <1>8, <1>9, TakeStep

\* The answer to a redemption is paid out and minted back.
LEMMA CallbackTaken ==
  ASSUME StargateInv, NEW m, Gone(m), m.type = "callback", NEW p, NEW q, NEW pl,
         Booking(m, p, q, pl), CanRedeemCallback(pl, q, m.amountSD, m.mintSD),
         pool' = [pool EXCEPT ![p] =
                    RedeemLocalCallback(pl, q, m.user, m.amountSD, m.mintSD)]
  PROVE  StargateInv' /\ PricesKept
<1> DEFINE Q == RedeemLocalCallback(pl, q, m.user, m.amountSD, m.mintSD)
           c == m.credit.credits
           r == m.amountSD
<1>1. /\ m \in Message /\ p \in Pool /\ q \in Pool /\ p # q
      /\ m.to = p /\ m.from = q /\ PoolOK(pl) /\ pl \in PoolState
      /\ SameShares(pool[p], pl) /\ Net(pl) = Net(pool[p])
      /\ PathsMoved(pool[p], pl, q, c, 0)
      /\ pool[p] \in PoolState /\ Net(pool[p]) \in Int
      /\ c \in Nat /\ r \in Nat /\ m.mintSD \in Nat /\ m.user \in User
      /\ Claim(m, q, p) = c + 0 /\ Claim(m, p, q) = 0 + r
  BY BookingFacts DEF Gone
<1>2. /\ PoolOK(Q) /\ PriceKept(pl, Q) /\ Net(Q) = Net(pl) - r - m.mintSD
      /\ PathsMoved(pl, Q, q, 0, 0 - r)
  BY <1>1, CallbackKeeps
<1>3. Q \in PoolState
  BY <1>2 DEF PoolOK
<1>4. pool' = [pool EXCEPT ![p] = Q]
  OBVIOUS
<1> HIDE DEF Q, c, r
<1>5. PriceKept(pool[p], Q)
  BY <1>1, <1>2, <1>3, PriceChain
<1>6. PathsMoved(pool[p], Q, q, c + 0, 0 + (0 - r))
  <2>1. c \in Int /\ 0 \in Int /\ 0 - r \in Int
    BY <1>1
  <2> QED BY <1>1, <1>2, <1>3, <2>1, MovedTwice
<1>7. c + 0 = Claim(m, q, p) /\ 0 + (0 - r) = 0 - Claim(m, p, q)
  BY <1>1
<1>8. PathsMoved(pool[p], Q, q, Claim(m, q, p), 0 - Claim(m, p, q))
  BY <1>6, <1>7
<1>9. Net(Q) = Net(pool[p]) - Carried(m) /\ Unanswered(m) = 0
  BY <1>1, <1>2 DEF Carried, Unanswered, r
<1> QED BY <1>1, <1>2, <1>4, <1>5, <1>8, <1>9, TakeStep

\* Credits are booked.
LEMMA CreditsTaken ==
  ASSUME StargateInv, NEW m, Gone(m), m.type = "credits", NEW p, NEW q, NEW pl,
         Booking(m, p, q, pl), pool' = [pool EXCEPT ![p] = pl]
  PROVE  StargateInv' /\ PricesKept
<1> DEFINE c == m.credit.credits
<1>1. /\ m.to = p /\ m.from = q /\ PoolOK(pl) /\ Net(pl) = Net(pool[p])
      /\ PriceKept(pool[p], pl) /\ PathsMoved(pool[p], pl, q, c, 0)
      /\ Net(pool[p]) \in Int /\ c \in Nat
      /\ Claim(m, q, p) = c + 0 /\ Claim(m, p, q) = 0
  BY BookingFacts DEF Gone
<1>2. c = Claim(m, q, p) /\ 0 = 0 - Claim(m, p, q)
  BY <1>1
<1>3. PathsMoved(pool[p], pl, q, Claim(m, q, p), 0 - Claim(m, p, q))
  BY <1>1, <1>2
<1>4. Net(pl) = Net(pool[p]) - Carried(m) /\ Unanswered(m) = 0
  BY <1>1 DEF Carried, Unanswered
<1> QED BY <1>1, <1>3, <1>4, TakeStep

\* A swap or an answer that cannot be paid out is kept.
LEMMA FailureKept ==
  ASSUME StargateInv, NEW m, NEW n, Replaced(m, n), m.type \in {"swap", "callback"},
         n = Kept(m, m.type), NEW p, NEW q, NEW pl, Booking(m, p, q, pl),
         pool' = [pool EXCEPT ![p] = pl]
  PROVE  StargateInv' /\ PricesKept
<1> DEFINE c == m.credit.credits
<1>1. /\ m.to = p /\ m.from = q /\ PoolOK(pl) /\ Net(pl) = Net(pool[p]) /\ p # q
      /\ PriceKept(pool[p], pl) /\ PathsMoved(pool[p], pl, q, c, 0)
      /\ Net(pool[p]) \in Int /\ c \in Nat /\ m.amountSD \in Nat /\ m.swap.lkbRemove \in Nat
      /\ m.mintSD \in Nat /\ m.swap.lpFee \in Nat /\ m \in Message
      /\ Claim(m, q, p) = c + 0 /\ Claim(m, p, q) = m.swap.lkbRemove + m.amountSD
  BY BookingFacts DEF Replaced
<1>2. /\ n.type = m.type /\ n.credit.credits = 0 /\ n.from = q /\ n.to = p
      /\ n.swap = m.swap /\ n.amountSD = m.amountSD /\ n.mintSD = m.mintSD
  BY <1>1, KeptTypes
<1>3. Claim(n, q, p) = 0 + 0 /\ Claim(n, p, q) = m.swap.lkbRemove + m.amountSD
  BY <1>1, <1>2 DEF Claim
<1>4. c = Claim(m, q, p) - Claim(n, q, p) /\ 0 = Claim(n, p, q) - Claim(m, p, q)
  BY <1>1, <1>3
<1>5. PathsMoved(pool[p], pl, q, Claim(m, q, p) - Claim(n, q, p),
                 Claim(n, p, q) - Claim(m, p, q))
  BY <1>1, <1>4
<1>6. Carried(n) = Carried(m) /\ Carried(m) \in Nat /\ Unanswered(n) = Unanswered(m)
  BY <1>1, <1>2 DEF Carried, Unanswered
<1>7. Net(pl) = Net(pool[p]) + Carried(n) - Carried(m)
  BY <1>1, <1>6
<1> QED BY <1>1, <1>2, <1>5, <1>6, <1>7, KeepStep

\* A redemption is checked; what the check grants is taken off the balance, and
\* the answer is kept.
LEMMA RedeemChecked ==
  ASSUME StargateInv, NEW m, NEW n, Replaced(m, n), m.type = "redeem",
         NEW p, NEW q, NEW pl, Booking(m, p, q, pl), NEW g \in Nat, g <= m.amountSD,
         n = [Kept(m, "response") EXCEPT !.amountSD = g, !.mintSD = m.amountSD - g],
         NEW Q, PoolOK(Q), SameShares(pl, Q), Net(Q) = Net(pl),
         PathsMoved(pl, Q, q, 0 - g, 0), pool' = [pool EXCEPT ![p] = Q]
  PROVE  StargateInv' /\ PricesKept
<1> DEFINE c == m.credit.credits
<1>1. /\ m.to = p /\ m.from = q /\ PoolOK(pl) /\ Net(pl) = Net(pool[p]) /\ p # q
      /\ q \in Pool /\ pl \in PoolState /\ pool[p] \in PoolState
      /\ PriceKept(pool[p], pl) /\ PathsMoved(pool[p], pl, q, c, 0)
      /\ Net(pool[p]) \in Int /\ c \in Nat /\ m.amountSD \in Nat
      /\ m.mintSD \in Nat /\ m \in Message
      /\ Claim(m, q, p) = c + 0 /\ Claim(m, p, q) = 0
  BY BookingFacts DEF Replaced
<1>2. /\ n.type = "response" /\ n.credit.credits = 0 /\ n.from = q /\ n.to = p
      /\ n.amountSD = g /\ n.mintSD = m.amountSD - g
  <2> DEFINE o == Kept(m, "response")
  <2>1. /\ o \in Message /\ o.type = "response" /\ o.credit.credits = 0 /\ o.from = q
        /\ o.to = p
    BY <1>1, KeptTypes
  <2>2. n = [o EXCEPT !.amountSD = g, !.mintSD = m.amountSD - g]
    OBVIOUS
  <2> HIDE DEF o
  <2> QED BY <2>1, <2>2 DEF Message
<1>3. Claim(n, q, p) = 0 + g /\ Claim(n, p, q) = 0
  BY <1>1, <1>2 DEF Claim
<1>4. PathsMoved(pool[p], Q, q, Claim(m, q, p) - Claim(n, q, p),
                 Claim(n, p, q) - Claim(m, p, q))
  <2>1. Q \in PoolState
    BY DEF PoolOK
  <2>2. c \in Int /\ 0 \in Int /\ 0 - g \in Int
    BY <1>1
  <2>3. PathsMoved(pool[p], Q, q, c + (0 - g), 0 + 0)
    BY <1>1, <2>1, <2>2, MovedTwice
  <2>4. c + (0 - g) = Claim(m, q, p) - Claim(n, q, p)
        /\ 0 + 0 = Claim(n, p, q) - Claim(m, p, q)
    BY <1>1, <1>3
  <2> QED BY <2>3, <2>4
<1>5. PriceKept(pool[p], Q)
  BY <1>1, PriceChain DEF PoolOK
<1>6. Carried(n) = m.amountSD /\ Carried(m) = m.amountSD /\ Unanswered(n) = Unanswered(m)
  <2>1. m.mintSD = 0
    BY BookingFacts, EndsKnown DEF Replaced, MessageOK
  <2> QED BY <1>1, <1>2, <2>1 DEF Carried, Unanswered
<1>7. Net(Q) = Net(pool[p]) + Carried(n) - Carried(m)
  BY <1>1, <1>6
<1> QED BY <1>1, <1>2, <1>4, <1>5, <1>6, <1>7, KeepStep

\* A message that is delivered and not kept is gone.
LEMMA DeliveredGone ==
  ASSUME StargateInv, NEW k \in Channel, channel[k] # <<>>,
         channel' = [channel EXCEPT ![k] = Tail(@)],
         UNCHANGED <<outNonce, revertLookup, dropped>>, cachedSwapLookup' \subseteq Message
  PROVE  Gone(Head(channel[k])) /\ Head(channel[k]) \in InFlight
<1> DEFINE m == Head(channel[k])
<1>1. TypeOK /\ IdsOK
  BY InvFacts
<1>2. m \in Message
  <2>1. channel[k] \in Seq(Message)
    BY InvFacts
  <2> QED BY <2>1, HeadTailProperties
<1>3. /\ IdsOK' /\ m \in InFlight /\ InFlight' = InFlight \ {m}
      /\ \A o \in revertLookup \cup dropped : o.id # m.id
      /\ DOMAIN channel' = Channel /\ \A c \in Channel : channel'[c] \in Seq(Message)
  BY <1>1, <1>2, DeliverOrder
<1> HIDE DEF m
<1>4. Outstanding' = Outstanding \ {m} /\ m \in Outstanding
  BY <1>3 DEF Outstanding
<1>5. dropped' \subseteq Message /\ revertLookup' \subseteq revertLookup
  BY InvFacts
<1> QED BY <1>3, <1>4, <1>5 DEF Gone, m

\* A message that is delivered and kept as n is replaced by it.
LEMMA DeliveredKept ==
  ASSUME StargateInv, NEW k \in Channel, channel[k] # <<>>,
         channel' = [channel EXCEPT ![k] = Tail(@)],
         NEW n, n \in Message, n.id = Head(channel[k]).id, n.credit = NoCredit,
         n.type \in {"swap", "callback", "response"}, MessageOK(n),
         0 \notin Weights => HasWeight(n), revertLookup' = revertLookup \cup {n},
         UNCHANGED <<outNonce, dropped, cachedSwapLookup>>
  PROVE  Replaced(Head(channel[k]), n)
<1> DEFINE m == Head(channel[k])
<1>1. TypeOK /\ IdsOK
  BY InvFacts
<1>2. m \in Message
  <2>1. channel[k] \in Seq(Message)
    BY InvFacts
  <2> QED BY <2>1, HeadTailProperties
<1>3. /\ IdsOK' /\ m \in InFlight /\ InFlight' = InFlight \ {m}
      /\ \A o \in revertLookup \cup dropped : o.id # m.id
      /\ DOMAIN channel' = Channel /\ \A c \in Channel : channel'[c] \in Seq(Message)
  BY <1>1, <1>2, DeliverOrder
<1>4. n.id = m.id
  OBVIOUS
<1> HIDE DEF m
<1>5. Outstanding' = (Outstanding \ {m}) \cup {n} /\ m \in Outstanding
  BY <1>3 DEF Outstanding
<1>6. n \notin Outstanding \ {m}
  BY <1>1, <1>4, <1>5, IdsKnown
<1>7. dropped' \subseteq Message /\ cachedSwapLookup' \subseteq Message
  BY InvFacts
<1> QED BY <1>3, <1>5, <1>6, <1>7 DEF Replaced, m

\* What becomes of a message that arrives or is retried: it is paid out, kept, or
\* checked and kept; pl is the receiving pool once its credits are booked.
Outcome(m, pl) ==
  \/ /\ m.type = "credits" /\ Gone(m) /\ pool' = [pool EXCEPT ![m.to] = pl]
     /\ UNCHANGED settled
  \/ /\ m.type = "swap" /\ Gone(m) /\ CanSwapRemote(pl, m.from, m.swap)
     /\ pool' = [pool EXCEPT ![m.to] = SwapRemote(pl, m.from, m.swap)]
     /\ Settle(m.origin, m.swap.amount + m.swap.eqReward, 0, m.user)
  \/ /\ m.type = "callback" /\ Gone(m)
     /\ CanRedeemCallback(pl, m.from, m.amountSD, m.mintSD)
     /\ pool' = [pool EXCEPT ![m.to] =
          RedeemLocalCallback(pl, m.from, m.user, m.amountSD, m.mintSD)]
     /\ Settle(m.origin, m.amountSD, m.mintSD, m.user)
  \/ /\ m.type \in {"swap", "callback"} /\ Replaced(m, Kept(m, m.type))
     /\ pool' = [pool EXCEPT ![m.to] = pl] /\ UNCHANGED settled
  \/ /\ m.type = "redeem" /\ UNCHANGED settled
     /\ \E g \in 0 .. m.amountSD, Q \in PoolState :
          /\ Replaced(m, [Kept(m, "response") EXCEPT !.amountSD = g,
                                                     !.mintSD = m.amountSD - g])
          /\ PoolOK(Q) /\ SameShares(pl, Q) /\ Net(Q) = Net(pl)
          /\ PathsMoved(pl, Q, m.from, 0 - g, 0)
          /\ pool' = [pool EXCEPT ![m.to] = Q]

Arrives(m, pl) == m \in Outstanding /\ Booking(m, m.to, m.from, pl) /\ Outcome(m, pl)

\* Whatever becomes of a message, the invariant holds.
LEMMA ArrivalKeeps ==
  ASSUME StargateInv, NEW m, NEW pl, Arrives(m, pl)
  PROVE  StargateInv' /\ PricesKept
<1> DEFINE p == m.to
           q == m.from
<1>1. m \in Outstanding /\ Booking(m, p, q, pl) /\ Outcome(m, pl)
  BY DEF Arrives
<1>2. m.amountSD \in Nat
  BY <1>1, EndsKnown, MessageTypes
<1> HIDE DEF p, q
<1>3. CASE m.type = "credits" /\ Gone(m) /\ pool' = [pool EXCEPT ![m.to] = pl]
  BY <1>1, <1>3, CreditsTaken DEF p, q
<1>4. CASE /\ m.type = "swap" /\ Gone(m) /\ CanSwapRemote(pl, m.from, m.swap)
           /\ pool' = [pool EXCEPT ![m.to] = SwapRemote(pl, m.from, m.swap)]
  BY <1>1, <1>4, SwapTaken DEF p, q
<1>5. CASE /\ m.type = "callback" /\ Gone(m)
           /\ CanRedeemCallback(pl, m.from, m.amountSD, m.mintSD)
           /\ pool' = [pool EXCEPT ![m.to] =
                RedeemLocalCallback(pl, m.from, m.user, m.amountSD, m.mintSD)]
  BY <1>1, <1>5, CallbackTaken DEF p, q
<1>6. CASE /\ m.type \in {"swap", "callback"} /\ Replaced(m, Kept(m, m.type))
           /\ pool' = [pool EXCEPT ![m.to] = pl]
  BY <1>1, <1>6, FailureKept DEF p, q
<1>7. ASSUME m.type = "redeem", NEW g \in 0 .. m.amountSD, NEW Q \in PoolState,
             Replaced(m, [Kept(m, "response") EXCEPT !.amountSD = g,
                                                     !.mintSD = m.amountSD - g]),
             PoolOK(Q), SameShares(pl, Q), Net(Q) = Net(pl),
             PathsMoved(pl, Q, m.from, 0 - g, 0), pool' = [pool EXCEPT ![m.to] = Q]
      PROVE  StargateInv' /\ PricesKept
  <2>1. g \in Nat /\ g <= m.amountSD
    BY <1>2
  <2> DEFINE n == [Kept(m, "response") EXCEPT !.amountSD = g, !.mintSD = m.amountSD - g]
  <2>2. n = [Kept(m, "response") EXCEPT !.amountSD = g, !.mintSD = m.amountSD - g]
        /\ Replaced(m, n)
    BY <1>7
  <2> HIDE DEF n
  <2>3. PathsMoved(pl, Q, q, 0 - g, 0) /\ pool' = [pool EXCEPT ![p] = Q]
    BY <1>7 DEF p, q
  <2>4. /\ Booking(m, p, q, pl) /\ m.type = "redeem" /\ PoolOK(Q) /\ SameShares(pl, Q)
        /\ Net(Q) = Net(pl) /\ g \in Nat
    BY <1>1, <1>7, <2>1
  <2> HIDE <1>7
  <2> QED BY <2>1, <2>2, <2>3, <2>4, RedeemChecked, ZenonT(60)
<1> QED BY <1>1, <1>3, <1>4, <1>5, <1>6, <1>7 DEF Outcome

\* What lzReceive does with the first message of a channel.
LEMMA ReceiveArrives ==
  ASSUME StargateInv, NEW k \in Channel, Receive(k)
  PROVE  UNCHANGED outNonce /\ \E m, pl : Arrives(m, pl)
<1> DEFINE m == Head(channel[k])
           p == m.to
           q == m.from
           pl == CreditChainPath(pool[p], q, m.credit)
<1>1. /\ channel[k] # <<>> /\ channel' = [channel EXCEPT ![k] = Tail(@)]
      /\ UNCHANGED <<outNonce, dropped>>
      /\ CASE m.type = "swap" -> SwapRemotely(pl, m)
           [] m.type = "redeem" -> CheckOnRemote(pl, m)
           [] m.type = "callback" -> CallbackLocally(pl, m)
           [] OTHER -> /\ pool' = [pool EXCEPT ![p] = pl]
                       /\ UNCHANGED <<revertLookup, cachedSwapLookup, settled>>
  BY DEF Receive
<1>2. m \in Message /\ TypeOK /\ IdsOK /\ cachedSwapLookup \subseteq Message
  <2>1. channel[k] \in Seq(Message)
    BY InvFacts
  <2> QED BY <1>1, <2>1, HeadTailProperties, InvFacts
<1>3. m \in Outstanding /\ m \in InFlight
      /\ \A o \in revertLookup \cup dropped : o.id # m.id
  <2>1. channel[k] \in Seq(Message) /\ channel[k] # <<>>
    BY <1>1, InvFacts
  <2>2. m = channel[k][1] /\ 1 \in DOMAIN channel[k]
    BY <2>1, EmptySeq, LenProperties
  <2>3. m \in InFlight
    BY <2>2 DEF InFlight
  <2>4. m \in Outstanding
    BY <2>3 DEF Outstanding
  <2>5. \A o \in revertLookup \cup dropped : o.id # m.id
    <3>1. ASSUME NEW o \in revertLookup \cup dropped, o.id = m.id PROVE FALSE
      <4>1. o \in Outstanding
        BY DEF Outstanding
      <4>2. o = m
        BY <1>2, <2>4, <3>1, <4>1, IdsKnown
      <4> QED BY <1>2, <2>3, <4>2, IdsKnown
    <3> QED BY <3>1
  <2> QED BY <2>3, <2>4, <2>5
<1>4. /\ p \in Pool /\ q \in Pool /\ PoolOK(pool[p]) /\ pool[p] \in PoolState
      /\ MessageOK(m) /\ (0 \notin Weights => HasWeight(m)) /\ m.credit \in CreditObj
      /\ m.amountSD \in Nat
  BY <1>2, <1>3, EndsKnown, MessageTypes
<1>5. Booking(m, p, q, pl) /\ p = m.to /\ q = m.from
  <2> DEFINE P == pool[p]
             d == m.credit
  <2>1. PoolOK(P) /\ q \in Pool /\ d \in CreditObj
    BY <1>4
  <2> HIDE DEF P, d
  <2>2. LET Q == CreditChainPath(P, q, d)
        IN  /\ PoolOK(Q) /\ SameShares(P, Q) /\ Net(Q) = Net(P)
            /\ PathsMoved(P, Q, q, d.credits, 0)
    BY <2>1, CreditKeeps
  <2> QED BY <2>2 DEF Booking, P, d
<1>6. PoolOK(pl) /\ pl \in PoolState
  BY <1>5 DEF Booking, PoolOK
<1> HIDE DEF m, p, q, pl
<1>7. \A type : m.type = type => Kept(m, type).id = m.id
  BY <1>2 DEF Kept, Message
<1>8. ASSUME revertLookup' = revertLookup \ {Kept(m, m.type)} PROVE revertLookup' = revertLookup
  BY <1>3, <1>7, <1>8
<1>9. ASSUME m.type \in {"swap", "callback"},
             revertLookup' = revertLookup \cup {Kept(m, m.type)},
             UNCHANGED cachedSwapLookup
      PROVE  Replaced(m, Kept(m, m.type))
  <2> DEFINE n == Kept(m, m.type)
  <2>1. /\ n \in Message /\ n.type = m.type /\ n.credit = NoCredit /\ n.id = m.id
        /\ n.from = m.from /\ n.to = m.to /\ n.user = m.user /\ n.swap = m.swap
        /\ n.amountSD = m.amountSD /\ n.mintSD = m.mintSD
    BY <1>2, <1>9, KeptTypes
  <2>2. MessageOK(n) /\ (0 \notin Weights => HasWeight(n))
    BY <1>4, <2>1 DEF MessageOK, HasWeight
  <2> HIDE DEF n
  <2>3. Replaced(Head(channel[k]), n)
    <3>1. n.type \in {"swap", "callback", "response"} /\ n.id = Head(channel[k]).id
      BY <1>9, <2>1 DEF m
    <3>2. revertLookup' = revertLookup \cup {n} /\ UNCHANGED <<outNonce, dropped, cachedSwapLookup>>
      BY <1>1, <1>9 DEF n
    <3> QED BY <1>1, <2>1, <2>2, <3>1, <3>2, DeliveredKept
  <2> QED BY <2>3 DEF m, n
<1>10. ASSUME revertLookup' = revertLookup, cachedSwapLookup' \subseteq Message
       PROVE  Gone(m)
  BY <1>1, <1>10, DeliveredGone DEF m
<1> SUFFICES Outcome(m, pl)
  BY <1>1, <1>3, <1>5 DEF Arrives
<1>11. CASE m.type = "swap"
  <2>1. SwapRemotely(pl, m)
    BY <1>1, <1>11
  <2>2. CASE /\ CanSwapRemote(pl, m.from, m.swap)
             /\ pool' = [pool EXCEPT ![m.to] = SwapRemote(pl, m.from, m.swap)]
             /\ revertLookup' = revertLookup \ {Kept(m, "swap")}
             /\ Settle(m.origin, m.swap.amount + m.swap.eqReward, 0, m.user)
             /\ \/ UNCHANGED cachedSwapLookup
                \/ cachedSwapLookup' = cachedSwapLookup \cup {Kept(m, "swap")}
    <3>1. cachedSwapLookup' \subseteq Message
      BY <1>2, <2>2, KeptTypes
    <3>2. Gone(m)
      BY <1>8, <1>10, <1>11, <2>2, <3>1
    <3> QED BY <1>11, <2>2, <3>2 DEF Outcome
  <2>3. CASE /\ pool' = [pool EXCEPT ![m.to] = pl]
             /\ revertLookup' = revertLookup \cup {Kept(m, "swap")}
             /\ UNCHANGED <<cachedSwapLookup, settled>>
    <3>1. Replaced(m, Kept(m, m.type))
      BY <1>9, <1>11, <2>3
    <3> QED BY <1>11, <2>3, <3>1 DEF Outcome
  <2> QED BY <2>1, <2>2, <2>3 DEF SwapRemotely
<1>12. CASE m.type = "callback"
  <2>1. CallbackLocally(pl, m)
    BY <1>1, <1>12
  <2>2. CASE /\ CanRedeemCallback(pl, m.from, m.amountSD, m.mintSD)
             /\ pool' = [pool EXCEPT ![m.to] =
                  RedeemLocalCallback(pl, m.from, m.user, m.amountSD, m.mintSD)]
             /\ revertLookup' = revertLookup \ {Kept(m, "callback")}
             /\ Settle(m.origin, m.amountSD, m.mintSD, m.user)
             /\ UNCHANGED cachedSwapLookup
    <3>1. Gone(m)
      BY <1>2, <1>8, <1>10, <1>12, <2>2
    <3> QED BY <1>12, <2>2, <3>1 DEF Outcome
  <2>3. CASE /\ pool' = [pool EXCEPT ![m.to] = pl]
             /\ revertLookup' = revertLookup \cup {Kept(m, "callback")}
             /\ UNCHANGED <<cachedSwapLookup, settled>>
    <3>1. Replaced(m, Kept(m, m.type))
      BY <1>9, <1>12, <2>3
    <3> QED BY <1>12, <2>3, <3>1 DEF Outcome
  <2> QED BY <2>1, <2>2, <2>3 DEF CallbackLocally
<1>13. CASE m.type = "redeem"
  <2>1. CheckOnRemote(pl, m)
    BY <1>1, <1>13
  <2>2. PICK ok \in BOOLEAN :
          LET g == IF ok THEN RedeemedOnRemote(pl, m.from, m.amountSD) ELSE 0
          IN  /\ pool' = [pool EXCEPT ![m.to] =
                   IF ok THEN RedeemLocalCheckOnRemote(pl, m.from, m.amountSD) ELSE pl]
              /\ revertLookup' = revertLookup \cup
                   {[Kept(m, "response") EXCEPT !.amountSD = g, !.mintSD = m.amountSD - g]}
    BY <2>1 DEF CheckOnRemote
  <2> DEFINE g == IF ok THEN RedeemedOnRemote(pl, q, m.amountSD) ELSE 0
             Q == IF ok THEN RedeemLocalCheckOnRemote(pl, q, m.amountSD) ELSE pl
             o == Kept(m, "response")
             n == [o EXCEPT !.amountSD = g, !.mintSD = m.amountSD - g]
  <2>3. /\ g \in Nat /\ g <= m.amountSD /\ PoolOK(Q) /\ SameShares(pl, Q)
        /\ Net(Q) = Net(pl) /\ PathsMoved(pl, Q, q, 0 - g, 0)
    <3>1. CASE ok
      BY <1>4, <1>6, <3>1, CheckKeeps
    <3>2. CASE ~ok
      <4>1. SamePaths(pl, pl) /\ SameShares(pl, pl)
        BY DEF SamePaths, SameSettings, SameShares
      <4>2. PathsMoved(pl, pl, q, 0, 0) /\ 0 - 0 = 0
        BY <1>4, <1>6, <4>1, MovedNot
      <4>3. g = 0 /\ Q = pl
        BY <3>2
      <4>4. 0 <= m.amountSD
        BY <1>4
      <4> QED BY <1>6, <4>1, <4>2, <4>3, <4>4
    <3> QED BY <3>1, <3>2
  <2>4. pool' = [pool EXCEPT ![p] = Q] /\ revertLookup' = revertLookup \cup {n}
    BY <2>2 DEF p, q
  <2>5. /\ o \in Message /\ o.type = "response" /\ o.credit = NoCredit /\ o.id = m.id
        /\ o.from = m.from /\ o.to = m.to /\ o.user = m.user /\ o.swap = m.swap
    BY <1>2, KeptTypes
  <2> HIDE DEF o, g, Q
  <2>6. /\ n \in Message /\ n.type = "response" /\ n.credit = NoCredit /\ n.id = m.id
        /\ n.from = m.from /\ n.to = m.to /\ n.user = m.user /\ n.swap = m.swap
    <3>1. m.amountSD - g \in Nat
      BY <1>4, <2>3
    <3> QED BY <2>3, <2>5, <3>1 DEF Message
  <2>7. n = [Kept(m, "response") EXCEPT !.amountSD = g, !.mintSD = m.amountSD - g]
    BY DEF o
  <2> HIDE DEF n
  <2>8. MessageOK(n) /\ (0 \notin Weights => HasWeight(n))
    BY <1>4, <1>13, <2>6 DEF MessageOK, HasWeight
  <2>9. Replaced(m, n)
    <3>1. n.id = Head(channel[k]).id /\ n.type \in {"swap", "callback", "response"}
      BY <2>6 DEF m
    <3>2. UNCHANGED <<outNonce, dropped, cachedSwapLookup>>
      BY <1>1, <2>1 DEF CheckOnRemote
    <3>3. Replaced(Head(channel[k]), n)
      BY <1>1, <2>4, <2>6, <2>8, <3>1, <3>2, DeliveredKept
    <3> QED BY <3>3 DEF m
  <2>10. Q \in PoolState /\ g \in 0 .. m.amountSD
    BY <1>4, <2>3 DEF PoolOK
  <2>11. UNCHANGED settled
    BY <2>1 DEF CheckOnRemote
  <2>12. pool' = [pool EXCEPT ![m.to] = Q] /\ PathsMoved(pl, Q, m.from, 0 - g, 0)
    BY <1>5, <2>3, <2>4
  <2>13. Replaced(m, [Kept(m, "response") EXCEPT !.amountSD = g, !.mintSD = m.amountSD - g])
    BY <2>7, <2>9
  <2> QED BY <1>13, <2>3, <2>10, <2>11, <2>12, <2>13 DEF Outcome
<1>14. CASE m.type \notin {"swap", "callback", "redeem"}
  <2>1. /\ pool' = [pool EXCEPT ![m.to] = pl]
        /\ UNCHANGED <<revertLookup, cachedSwapLookup, settled>>
    BY <1>1, <1>5, <1>14
  <2>2. m.type \in {"credits", "swap", "redeem", "response", "callback"}
    BY <1>2 DEF Message
  <2>3. m.type # "response"
    BY <1>3, InvFacts DEF MessagesOK
  <2>4. m.type = "credits"
    BY <1>14, <2>2, <2>3
  <2>5. Gone(m)
    BY <1>2, <1>10, <2>1
  <2> QED BY <2>1, <2>4, <2>5 DEF Outcome
<1> QED BY <1>11, <1>12, <1>13, <1>14

\* lzReceive keeps the invariant.
LEMMA ReceiveStep ==
  ASSUME StargateInv, NEW k \in Channel, Receive(k)
  PROVE  StargateInv' /\ PricesKept
<1>1. PICK m, pl : Arrives(m, pl)
  BY ReceiveArrives
<1> QED BY <1>1, ArrivalKeeps

\* What is taken out of revertLookup is gone.
LEMMA RetriedGone ==
  ASSUME StargateInv, NEW e \in revertLookup, revertLookup' = revertLookup \ {e},
         UNCHANGED <<channel, outNonce, dropped>>, cachedSwapLookup' \subseteq Message
  PROVE  Gone(e)
<1>1. TypeOK /\ IdsOK /\ e \in Outstanding
  BY InvFacts DEF Outstanding
<1>2. e \notin InFlight /\ e \notin dropped
  BY <1>1, IdsKnown DEF IdsOK
<1>3. InFlight' = InFlight
  BY DEF InFlight
<1>4. Outstanding' = Outstanding \ {e}
  BY <1>2, <1>3 DEF Outstanding
<1>5. IdsOK'
  BY <1>1 DEF IdsOK
<1>6. /\ DOMAIN channel' = Channel /\ \A c \in Channel : channel'[c] \in Seq(Message)
      /\ dropped' \subseteq Message /\ revertLookup' \subseteq revertLookup
  BY InvFacts
<1> QED BY <1>1, <1>3, <1>4, <1>5, <1>6 DEF Gone

\* What a retry does: it succeeds, or leaves everything as it was.
LEMMA RetryArrives ==
  ASSUME StargateInv, NEW e \in revertLookup, RetryRevert(e)
  PROVE  UNCHANGED outNonce /\ ((\E m, pl : Arrives(m, pl)) \/ UNCHANGED vars)
<1> DEFINE P == pool[e.to]
<1>1. UNCHANGED <<channel, outNonce, dropped>>
  BY DEF RetryRevert
<1>2. /\ e \in Outstanding /\ e.credit = NoCredit /\ cachedSwapLookup \subseteq Message
      /\ pool \in [Pool -> PoolState]
  BY InvFacts DEF Outstanding, MessagesOK
<1>3. /\ e \in Message /\ e.to \in Pool /\ e.from \in Pool /\ PoolOK(P) /\ P \in PoolState
  BY <1>2, EndsKnown
<1>4. e.credit.credits = 0
  BY <1>2 DEF NoCredit
<1>5. Booking(e, e.to, e.from, P)
  <2>1. SamePaths(P, P) /\ SameShares(P, P)
    BY DEF SamePaths, SameSettings, SameShares
  <2>2. PathsMoved(P, P, e.from, e.credit.credits, 0)
    BY <1>3, <1>4, <2>1, MovedNot
  <2> QED BY <1>3, <2>1, <2>2 DEF Booking
<1> HIDE DEF P
<1>6. ASSUME e.type \in {"swap", "callback"}, revertLookup' = revertLookup \ {Kept(e, e.type)},
             cachedSwapLookup' \subseteq Message
      PROVE  Gone(e)
  <2>1. Kept(e, e.type) = e
    BY <1>2, <1>3, <1>6, KeptTypes
  <2> QED BY <1>1, <1>6, <2>1, RetriedGone
<1>7. ASSUME e.type \in {"swap", "callback"}, pool' = [pool EXCEPT ![e.to] = P],
             revertLookup' = revertLookup \cup {Kept(e, e.type)},
             UNCHANGED <<cachedSwapLookup, settled>>
      PROVE  UNCHANGED vars
  <2>1. Kept(e, e.type) = e
    BY <1>2, <1>3, <1>7, KeptTypes
  <2>2. pool' = pool
    BY <1>2, <1>7 DEF P
  <2> QED BY <1>1, <1>7, <2>1, <2>2 DEF vars
<1>8. CASE e.type = "swap"
  <2>1. SwapRemotely(P, e)
    BY <1>8 DEF RetryRevert, P
  <2>2. CASE /\ CanSwapRemote(P, e.from, e.swap)
             /\ pool' = [pool EXCEPT ![e.to] = SwapRemote(P, e.from, e.swap)]
             /\ revertLookup' = revertLookup \ {Kept(e, "swap")}
             /\ Settle(e.origin, e.swap.amount + e.swap.eqReward, 0, e.user)
             /\ \/ UNCHANGED cachedSwapLookup
                \/ cachedSwapLookup' = cachedSwapLookup \cup {Kept(e, "swap")}
    <3>1. cachedSwapLookup' \subseteq Message
      BY <1>2, <1>3, <2>2, KeptTypes
    <3>2. Gone(e)
      BY <1>6, <1>8, <2>2, <3>1
    <3>3. Outcome(e, P)
      BY <1>8, <2>2, <3>2 DEF Outcome
    <3> QED BY <1>1, <1>2, <1>5, <3>3 DEF Arrives
  <2>3. CASE /\ pool' = [pool EXCEPT ![e.to] = P]
             /\ revertLookup' = revertLookup \cup {Kept(e, "swap")}
             /\ UNCHANGED <<cachedSwapLookup, settled>>
    BY <1>1, <1>7, <1>8, <2>3
  <2> QED BY <2>1, <2>2, <2>3 DEF SwapRemotely
<1>9. CASE e.type = "callback"
  <2>1. CallbackLocally(P, e)
    BY <1>9 DEF RetryRevert, P
  <2>2. CASE /\ CanRedeemCallback(P, e.from, e.amountSD, e.mintSD)
             /\ pool' = [pool EXCEPT ![e.to] =
                  RedeemLocalCallback(P, e.from, e.user, e.amountSD, e.mintSD)]
             /\ revertLookup' = revertLookup \ {Kept(e, "callback")}
             /\ Settle(e.origin, e.amountSD, e.mintSD, e.user)
             /\ UNCHANGED cachedSwapLookup
    <3>1. Gone(e)
      BY <1>2, <1>6, <1>9, <2>2
    <3>2. Outcome(e, P)
      BY <1>9, <2>2, <3>1 DEF Outcome
    <3> QED BY <1>1, <1>2, <1>5, <3>2 DEF Arrives
  <2>3. CASE /\ pool' = [pool EXCEPT ![e.to] = P]
             /\ revertLookup' = revertLookup \cup {Kept(e, "callback")}
             /\ UNCHANGED <<cachedSwapLookup, settled>>
    BY <1>1, <1>7, <1>9, <2>3
  <2> QED BY <2>1, <2>2, <2>3 DEF CallbackLocally
<1> QED BY <1>8, <1>9 DEF RetryRevert

\* The answer to a redemption takes its place.
LEMMA RevertRedeemLocalStep ==
  ASSUME StargateInv, NEW e \in revertLookup, RevertRedeemLocal(e)
  PROVE  StargateInv' /\ PricesKept
<1> DEFINE p == e.to
           q == e.from
           u == e.user
           P == pool[p]
           b == NewMessage("callback", p, q, u)
           m == [b EXCEPT !.amountSD = e.amountSD, !.mintSD = e.mintSD, !.origin = e.origin]
           c == CreditsOf(P, q)
           Q == SendCredits(P, q)
           n == [m EXCEPT !.credit = c]
           k == ChannelOf(p, q)
           rest == Outstanding \ {e}
<1>1. /\ e.type = "response" /\ SendWithCredits(P, m)
      /\ revertLookup' = revertLookup \ {e}
      /\ UNCHANGED <<cachedSwapLookup, dropped, settled>>
  BY DEF RevertRedeemLocal
<1>2. /\ pool \in [Pool -> PoolState] /\ NoncesOK /\ IsFiniteSet(Outstanding)
      /\ Outstanding \subseteq Message /\ TypeOK /\ IdsOK /\ MessagesOK
      /\ outNonce \in [Channel -> Nat] /\ revertLookup \subseteq Message
      /\ cachedSwapLookup \subseteq Message /\ dropped \subseteq Message
  BY InvFacts
<1>3. e \in Outstanding
  BY DEF Outstanding
<1>4. /\ e \in Message /\ p \in Pool /\ q \in Pool /\ q # p
      /\ P.chainPaths[q].created /\ pool[q].chainPaths[p].created
      /\ PoolOK(P) /\ P \in PoolState
      /\ MessageOK(e) /\ (0 \notin Weights => HasWeight(e))
  BY <1>3, EndsKnown
<1>5. /\ e.amountSD \in Nat /\ e.mintSD \in Nat /\ e.origin \in TransferId
      /\ u \in User /\ u \in User \cup {NoUser} /\ e.credit.credits = 0
  <2>1. e.credit = NoCredit
    BY <1>2 DEF MessagesOK
  <2> QED BY <1>1, <1>4, <2>1, MessageTypes DEF MessageOK, NoCredit
<1>6. Answers \in Nat /\ Answers > 0 /\ Unanswered(e) = 1
  <2>1. Answers = AnswersOn(Outstanding) /\ AnswersOn(Outstanding) \in Nat
        /\ Unanswered(e) <= AnswersOn(Outstanding)
    BY <1>2, <1>3, SumTypes DEF Answers, AnswersOn
  <2>2. Unanswered(e) = 1
    BY <1>1 DEF Unanswered
  <2> QED BY <2>1, <2>2
<1>7. /\ b \in Message /\ b.type = "callback" /\ b.id = NextId(p, q) /\ b.from = p
      /\ b.to = q /\ b.user = u /\ b.swap = NoSwap
  BY <1>4, <1>5, <1>6, NewMessageTypes
<1>8. k \in Channel /\ NextId(p, q) = <<k, outNonce[k] + 1>> /\ NextId(p, q)[1] = k
  BY <1>4, <1>6, NewIds DEF NextId
<1> HIDE DEF b
<1>9. /\ m \in Message /\ m.type = "callback" /\ m.id = NextId(p, q) /\ m.from = p
      /\ m.to = q /\ m.user = u /\ m.swap = NoSwap /\ m.amountSD = e.amountSD
      /\ m.mintSD = e.mintSD
  BY <1>5, <1>7 DEF Message
<1> HIDE DEF m
<1>10. /\ CanSendCredits(P, q) /\ pool' = [pool EXCEPT ![p] = Q]
       /\ channel' = [channel EXCEPT ![k] = Append(@, n)]
       /\ outNonce' = [outNonce EXCEPT ![k] = @ + 1]
  BY <1>1, <1>8, <1>9 DEF SendWithCredits
<1>11. /\ PoolOK(Q) /\ SameShares(P, Q) /\ Net(Q) = Net(P) /\ c \in CreditObj
       /\ PathsMoved(P, Q, q, 0, c.credits)
  BY <1>4, <1>10, SendCreditsKeeps
<1>12. c.credits \in Nat
  BY <1>11 DEF CreditObj
<1>13. /\ n \in Message /\ n.id = <<k, outNonce[k] + 1>> /\ n.from = p /\ n.to = q
       /\ n.type = "callback" /\ n.swap = NoSwap /\ n.amountSD = e.amountSD
       /\ n.mintSD = e.mintSD /\ n.user = u /\ n.credit = c
  <2> HIDE DEF c
  <2> QED BY <1>8, <1>9, <1>11 DEF Message
<1> HIDE DEF c, Q, n
<1>14. /\ IdsOK' /\ n \notin Outstanding /\ InFlight' = InFlight \cup {n}
       /\ DOMAIN channel' = Channel /\ (\A d \in Channel : channel'[d] \in Seq(Message))
       /\ outNonce' \in [Channel -> Nat]
  <2>1. revertLookup' \subseteq revertLookup /\ UNCHANGED dropped
    BY <1>1
  <2> QED BY <1>2, <1>8, <1>10, <1>13, <2>1, SendOrder
<1>15. e \notin InFlight /\ e \notin dropped
  BY <1>2, IdsKnown DEF IdsOK
<1>16. Outstanding' = rest \cup {n} /\ n \notin rest
  BY <1>1, <1>14, <1>15 DEF Outstanding
<1>17. /\ IsFiniteSet(rest) /\ rest \subseteq Message
       /\ LoadOn(Outstanding) = LoadOn(rest) + Carried(e)
       /\ AnswersOn(Outstanding) = AnswersOn(rest) + Unanswered(e)
       /\ \A x, y : ClaimsOn(Outstanding, x, y) = ClaimsOn(rest, x, y) + Claim(e, x, y)
  <2> DEFINE S == Outstanding
  <2>1. S \in SUBSET Message /\ IsFiniteSet(S) /\ e \in S
    BY <1>2, <1>3
  <2> HIDE DEF S
  <2>2. /\ IsFiniteSet(S \ {e}) /\ S \ {e} \subseteq Message
        /\ LoadOn(S) = LoadOn(S \ {e}) + Carried(e)
        /\ AnswersOn(S) = AnswersOn(S \ {e}) + Unanswered(e)
        /\ \A x, y : ClaimsOn(S, x, y) = ClaimsOn(S \ {e}, x, y) + Claim(e, x, y)
    BY <2>1, SumsLeave
  <2> QED BY <2>2 DEF S
<1> HIDE DEF rest
<1>18. /\ IsFiniteSet(Outstanding')
       /\ LoadOn(Outstanding') = LoadOn(rest) + Carried(n)
       /\ AnswersOn(Outstanding') = AnswersOn(rest) + Unanswered(n)
       /\ \A x, y : ClaimsOn(Outstanding', x, y) = ClaimsOn(rest, x, y) + Claim(n, x, y)
  <2>1. /\ LoadOn(rest \cup {n}) = LoadOn(rest) + Carried(n)
        /\ AnswersOn(rest \cup {n}) = AnswersOn(rest) + Unanswered(n)
        /\ \A x, y : ClaimsOn(rest \cup {n}, x, y) = ClaimsOn(rest, x, y) + Claim(n, x, y)
    BY <1>13, <1>16, <1>17, SumsJoin
  <2>2. IsFiniteSet(rest \cup {n})
    BY <1>17, FS_AddElement
  <2> QED BY <1>16, <2>1, <2>2
<1>19. /\ LoadOn(rest) \in Nat /\ AnswersOn(rest) \in Nat
       /\ \A x, y : ClaimsOn(rest, x, y) \in Nat
  BY <1>17, SumTypes
<1>20. Carried(n) = Carried(e) /\ Carried(e) \in Nat /\ Unanswered(n) = 0
  BY <1>1, <1>4, <1>13, MessageTypes DEF Carried, Unanswered
<1>21. LoadOn(Outstanding') = LoadOn(Outstanding) + (Net(Q) - Net(pool[p]))
  <2>1. Net(P) \in Int
    BY <1>4, NetType
  <2> QED BY <1>11, <1>17, <1>18, <1>19, <1>20, <2>1
<1>22. \A x, y \in Pool : ClaimsOn(Outstanding', x, y)
         = ClaimsOn(Outstanding, x, y) + ClaimShift(x, y, p, q, 0, c.credits)
  <2> SUFFICES ASSUME NEW x \in Pool, NEW y \in Pool
               PROVE  ClaimsOn(Outstanding', x, y)
                 = ClaimsOn(Outstanding, x, y) + ClaimShift(x, y, p, q, 0, c.credits)
    OBVIOUS
  <2>1. NoSwap.lkbRemove = 0
    BY DEF NoSwap
  <2>2. Claim(n, x, y) = Claim(e, x, y) + ClaimShift(x, y, p, q, 0, c.credits)
    <3>1. CASE x = p /\ y = q
      <4>1. Claim(n, x, y) = c.credits + 0
        BY <1>13, <3>1 DEF Claim
      <4>2. Claim(e, x, y) = 0
        BY <1>1, <1>4, <3>1 DEF Claim
      <4> QED BY <1>12, <3>1, <4>1, <4>2 DEF ClaimShift
    <3>2. CASE x = q /\ y = p
      <4>1. Claim(n, x, y) = 0 + e.amountSD
        BY <1>4, <1>13, <2>1, <3>2 DEF Claim
      <4>2. Claim(e, x, y) = 0 + e.amountSD
        BY <1>1, <1>4, <1>5, <3>2 DEF Claim
      <4>3. ClaimShift(x, y, p, q, 0, c.credits) = 0
        BY <1>4, <3>2 DEF ClaimShift
      <4> QED BY <1>5, <4>1, <4>2, <4>3
    <3>3. CASE ~(x = p /\ y = q) /\ ~(x = q /\ y = p)
      BY <1>13, <3>3 DEF Claim, ClaimShift
    <3> QED BY <3>1, <3>2, <3>3
  <2>3. ClaimShift(x, y, p, q, 0, c.credits) \in Int /\ Claim(e, x, y) \in Nat
        /\ Claim(n, x, y) \in Nat
    <3>1. Claim(e, x, y) \in Nat /\ Claim(n, x, y) \in Nat
      BY <1>4, <1>13, MessageTypes
    <3> QED BY <1>12, <3>1 DEF ClaimShift
  <2>4. /\ ClaimsOn(Outstanding, x, y) = ClaimsOn(rest, x, y) + Claim(e, x, y)
        /\ ClaimsOn(Outstanding', x, y) = ClaimsOn(rest, x, y) + Claim(n, x, y)
        /\ ClaimsOn(rest, x, y) \in Nat
    BY <1>17, <1>18, <1>19
  <2> QED BY <2>2, <2>3, <2>4
<1>23. NoncesOK'
  <2>1. Total(outNonce') = Total(outNonce) + 1 /\ Total(outNonce) \in Nat
    BY <1>2, <1>8, <1>10, NonceSum
  <2>2. Answers = AnswersOn(Outstanding) /\ Answers' = AnswersOn(Outstanding')
    BY DEF Answers, AnswersOn
  <2>3. MaxSent \in Nat
    BY BridgeAssumption
  <2> QED BY <1>2, <1>6, <1>17, <1>18, <1>19, <1>20, <2>1, <2>2, <2>3 DEF NoncesOK
<1>24. MessageOK(n) /\ (0 \notin Weights => HasWeight(n))
  <2>1. n.id[1] = ChannelOf(p, q)
    BY <1>13
  <2>2. MessageOK(n)
    BY <1>4, <1>5, <1>13, <2>1 DEF MessageOK
  <2>3. 0 \notin Weights => HasWeight(n)
    BY <1>1, <1>4, <1>13 DEF HasWeight
  <2> QED BY <2>2, <2>3
<1>25. /\ \A x \in InFlight' : x.type # "response"
       /\ \A x \in revertLookup' :
            x.credit = NoCredit /\ x.type \in {"swap", "callback", "response"}
  BY <1>1, <1>2, <1>13, <1>14 DEF MessagesOK
<1>26. /\ revertLookup' \subseteq Message /\ cachedSwapLookup' \subseteq Message
       /\ dropped' \subseteq Message
  BY <1>1, <1>2
<1>27. \A x \in Outstanding' :
         x \in Outstanding \/ (MessageOK(x) /\ (0 \notin Weights => HasWeight(x)))
  BY <1>16, <1>24 DEF rest
<1>28. PriceKept(pool[p], Q) /\ 0 \in Int /\ c.credits \in Int
  BY <1>4, <1>11, <1>12, PriceChain DEF PoolOK
<1>29. Balanced(p, q, Q, 0, c.credits)
  <2>1. PathsMoved(pool[p], Q, q, 0, c.credits)
    BY <1>11
  <2>2. pool' = [pool EXCEPT ![p] = Q] /\ q # p /\ pool[p].chainPaths[q].created
    BY <1>4, <1>10
  <2> HIDE DEF p, q, P
  <2> QED BY <1>11, <1>14, <1>18, <1>21, <1>22, <1>23, <1>25, <1>26, <1>27, <1>28, <2>1, <2>2
      DEF Balanced
<1> QED BY <1>4, <1>28, <1>29, StepKeeps

\* Dropping a message keeps it in the books.
LEMMA ForceResumeStep ==
  ASSUME StargateInv, NEW k \in Channel, ForceResumeReceive(k)
  PROVE  StargateInv' /\ PricesKept
<1> DEFINE m == Head(channel[k])
           p == m.to
           P == pool[p]
<1>1. /\ channel[k] # <<>> /\ dropped' = dropped \cup {m}
      /\ channel' = [channel EXCEPT ![k] = Tail(@)]
      /\ UNCHANGED <<pool, outNonce, revertLookup, cachedSwapLookup>>
  BY DEF ForceResumeReceive
<1>2. /\ TypeOK /\ IdsOK /\ NoncesOK /\ MessagesOK /\ IsFiniteSet(Outstanding)
      /\ Outstanding \subseteq Message /\ pool \in [Pool -> PoolState]
      /\ revertLookup \subseteq Message /\ cachedSwapLookup \subseteq Message
      /\ dropped \subseteq Message
  BY InvFacts
<1>3. m \in Message
  <2>1. channel[k] \in Seq(Message)
    BY InvFacts
  <2> QED BY <1>1, <2>1, HeadTailProperties
<1>4. /\ IdsOK' /\ m \in InFlight /\ InFlight' = InFlight \ {m}
      /\ DOMAIN channel' = Channel /\ \A c \in Channel : channel'[c] \in Seq(Message)
      /\ outNonce' \in [Channel -> Nat]
  BY <1>1, <1>2, <1>3, DeliverOrder
<1> HIDE DEF m
<1>5. p \in Pool /\ PoolOK(P) /\ P \in PoolState
  BY <1>3, MessageTypes, InvFacts
<1>6. Outstanding' = Outstanding
  BY <1>1, <1>4 DEF Outstanding
<1>7. /\ pool' = [pool EXCEPT ![p] = P] /\ PriceKept(P, P) /\ PathsMoved(P, P, p, 0, 0)
      /\ Net(P) \in Int
  <2>1. SamePaths(P, P) /\ SameShares(P, P)
    BY DEF SamePaths, SameSettings, SameShares
  <2> QED BY <1>1, <1>2, <1>5, <2>1, MovedNot, PriceChain, NetType
<1>8. /\ \A x, y \in Pool : ClaimsOn(Outstanding', x, y)
           = ClaimsOn(Outstanding, x, y) + ClaimShift(x, y, p, p, 0, 0)
      /\ LoadOn(Outstanding') = LoadOn(Outstanding) + (Net(P) - Net(pool[p]))
  <2>1. LoadOn(Outstanding) \in Nat /\ \A x, y : ClaimsOn(Outstanding, x, y) \in Nat
    BY <1>2, SumTypes
  <2>2. \A x, y : ClaimShift(x, y, p, p, 0, 0) = 0
    BY DEF ClaimShift
  <2> QED BY <1>6, <1>7, <2>1, <2>2
<1>9. NoncesOK'
  BY <1>1, <1>2, <1>6 DEF NoncesOK, Answers
<1>10. /\ revertLookup' \subseteq Message /\ cachedSwapLookup' \subseteq Message
       /\ dropped' \subseteq Message /\ IsFiniteSet(Outstanding')
       /\ \A x \in InFlight' : x.type # "response"
       /\ \A x \in revertLookup' :
            x.credit = NoCredit /\ x.type \in {"swap", "callback", "response"}
  BY <1>1, <1>2, <1>3, <1>4, <1>6 DEF MessagesOK
<1>11. \A x \in Outstanding' :
         x \in Outstanding \/ (MessageOK(x) /\ (0 \notin Weights => HasWeight(x)))
  BY <1>6
<1> HIDE DEF p
<1>12. Balanced(p, p, P, 0, 0)
  BY <1>4, <1>5, <1>7, <1>8, <1>9, <1>10, <1>11 DEF Balanced
<1> QED BY <1>5, <1>12, StepKeeps

\* What is kept of the payload of a swap is not in the books.
LEMMA CachedStep ==
  ASSUME StargateInv, cachedSwapLookup' \subseteq cachedSwapLookup,
         UNCHANGED <<pool, channel, outNonce, revertLookup, dropped>>
  PROVE  StargateInv' /\ PricesKept
<1>1. /\ InFlight' = InFlight /\ Outstanding' = Outstanding /\ IdsOK' /\ NoncesOK'
      /\ IsFiniteSet(Outstanding')
  BY MessagesStay
<1>2. TypeOK /\ PathsOK /\ MessagesOK /\ WeightsOK /\ PathsAgree /\ GlobalSolvency
      /\ pool \in [Pool -> PoolState] /\ \A p \in Pool : PoolOK(pool[p])
  BY InvFacts
<1>3. TypeOK' /\ PathsOK'
  BY <1>2 DEF TypeOK, PathsOK
<1>4. MessagesOK' /\ WeightsOK'
  BY <1>1, <1>2 DEF MessagesOK, MessageOK, WeightsOK, HasWeight
<1>5. PathsAgree' /\ GlobalSolvency'
  BY <1>1, <1>2 DEF PathsAgree, GlobalSolvency, Owes
<1>6. PricesKept
  <2> SUFFICES ASSUME NEW x \in Pool PROVE PriceKept(pool[x], pool'[x])
    BY DEF PricesKept
  <2>1. pool'[x] = pool[x] /\ pool[x] \in PoolState /\ SameShares(pool[x], pool'[x])
    BY <1>2 DEF SameShares
  <2> QED BY <2>1, PriceChain
<1> QED BY <1>1, <1>2, <1>3, <1>4, <1>5, <1>6 DEF StargateInv
-----------------------------------------------------------------------------
(* The invariant of the system. *)

\* At first the books are empty, and paths come in pairs.
LEMMA StargateInit == Init => StargateInv
<1> SUFFICES ASSUME Init PROVE StargateInv
  OBVIOUS
<1> DEFINE pathOf(p, q) == IF <<p, q>> \in InitialPaths
                           THEN [NoChainPath EXCEPT !.created = TRUE, !.ready = TRUE,
                                                    !.weight = InitialWeight[q]]
                           ELSE NoChainPath
           paths(p) == [q \in Pool |-> pathOf(p, q)]
<1>1. ASSUME NEW p \in Pool, NEW q \in Pool
      PROVE  /\ pathOf(p, q) \in ChainPath /\ pathOf(p, q).balance = 0
             /\ pathOf(p, q).lkb = 0 /\ pathOf(p, q).credits = 0
             /\ pathOf(p, q).created => <<p, q>> \in InitialPaths
             /\ <<p, q>> \in InitialPaths => pathOf(p, q).created
             /\ pathOf(p, q).ready => pathOf(p, q).created
             /\ ~pathOf(p, q).created => pathOf(p, q).weight = 0
  <2>1. InitialWeight[q] \in Nat
    BY BridgeAssumption
  <2> DEFINE w == InitialWeight[q]
             x == [NoChainPath EXCEPT !.created = TRUE, !.ready = TRUE, !.weight = w]
  <2>2. /\ x \in ChainPath /\ x.balance = 0 /\ x.lkb = 0 /\ x.credits = 0
        /\ x.created /\ x.ready
    <3> HIDE DEF w
    <3> QED BY <2>1 DEF NoChainPath, ChainPath, w
  <2>3. /\ NoChainPath \in ChainPath /\ NoChainPath.balance = 0 /\ NoChainPath.lkb = 0
        /\ NoChainPath.credits = 0 /\ NoChainPath.weight = 0
        /\ ~NoChainPath.created /\ ~NoChainPath.ready
    BY DEF NoChainPath, ChainPath
  <2>4. CASE <<p, q>> \in InitialPaths
    <3>1. pathOf(p, q) = x
      BY <2>4
    <3> HIDE DEF x, pathOf
    <3> QED BY <2>2, <2>4, <3>1
  <2>5. CASE <<p, q>> \notin InitialPaths
    <3>1. pathOf(p, q) = NoChainPath
      BY <2>5
    <3> HIDE DEF pathOf
    <3> QED BY <2>3, <2>5, <3>1
  <2> QED BY <2>4, <2>5
<1> HIDE DEF pathOf
<1>2. /\ pool = [p \in Pool |-> [NewPool EXCEPT !.chainPaths = paths(p)]]
      /\ channel = [k \in Channel |-> <<>>] /\ outNonce = [k \in Channel |-> 0]
      /\ revertLookup = {} /\ cachedSwapLookup = {} /\ dropped = {}
  BY DEF Init, pathOf
<1>3. ASSUME NEW p \in Pool
      PROVE  /\ pool[p] \in PoolState /\ pool[p].chainPaths = paths(p) /\ pool[p].asset = 0
             /\ pool[p].lp = [u \in User |-> 0] /\ pool[p].totalLiquidity = 0
             /\ pool[p].eqFeePool = 0 /\ pool[p].protocolFeeBalance = 0
             /\ pool[p].mintFeeBalance = 0 /\ pool[p].deltaCredit = 0
  <2>1. paths(p) \in [Pool -> ChainPath]
    BY <1>1
  <2>2. NewPool \in PoolState
    <3>1. 0 \in 0 .. BP_DENOMINATOR
      BY PoolAssumption
    <3>2. NoChainPath \in ChainPath
      BY DEF NoChainPath, ChainPath
    <3> QED BY <3>1, <3>2 DEF NewPool, PoolState
  <2>3. pool[p] = [NewPool EXCEPT !.chainPaths = paths(p)]
    BY <1>2
  <2> DEFINE P == pool[p]
             N == NewPool
  <2>4. /\ N.asset = 0 /\ N.lp = [u \in User |-> 0] /\ N.totalLiquidity = 0
        /\ N.eqFeePool = 0 /\ N.protocolFeeBalance = 0
        /\ N.mintFeeBalance = 0 /\ N.deltaCredit = 0
    BY DEF NewPool
  <2> HIDE DEF paths, P, N
  <2>5. N \in PoolState /\ P = [N EXCEPT !.chainPaths = paths(p)]
    BY <2>2, <2>3 DEF P, N
  <2>6. /\ P \in PoolState /\ P.chainPaths = paths(p) /\ P.asset = N.asset
        /\ P.lp = N.lp /\ P.totalLiquidity = N.totalLiquidity
        /\ P.eqFeePool = N.eqFeePool /\ P.protocolFeeBalance = N.protocolFeeBalance
        /\ P.mintFeeBalance = N.mintFeeBalance /\ P.deltaCredit = N.deltaCredit
    BY <2>1, <2>5 DEF PoolState
  <2> QED BY <2>4, <2>6 DEF P
<1>4. ASSUME NEW p \in Pool, NEW q \in Pool
      PROVE  pool[p].chainPaths[q] = pathOf(p, q)
  <2>1. pool[p].chainPaths = paths(p)
    BY <1>3
  <2> QED BY <2>1
<1> HIDE DEF paths
<1>5. \A p \in Pool : PoolOK(pool[p])
  <2> SUFFICES ASSUME NEW p \in Pool PROVE PoolOK(pool[p])
    OBVIOUS
  <2>1. Total(LkbOf(pool[p])) = 0 /\ Total(CreditMap(pool[p])) = 0
    <3>1. ASSUME NEW q \in Pool
          PROVE  pool[p].chainPaths[q].lkb = 0 /\ pool[p].chainPaths[q].credits = 0
      <4>1. pool[p].chainPaths[q] = pathOf(p, q)
        BY <1>4
      <4>2. pathOf(p, q).lkb = 0 /\ pathOf(p, q).credits = 0
        BY <1>1
      <4> QED BY <4>1, <4>2
    <3>2. /\ LkbOf(pool[p]) \in [Pool -> Nat] /\ CreditMap(pool[p]) \in [Pool -> Nat]
          /\ \A q \in Pool : LkbOf(pool[p])[q] = 0 /\ CreditMap(pool[p])[q] = 0
      BY <3>1 DEF LkbOf, CreditMap
    <3> QED BY <3>2, TotalZero
  <2>2. TotalSupply(pool[p]) = 0
    <3> DEFINE f == [u \in User |-> 0]
    <3>1. f \in [User -> Nat] /\ \A u \in User : f[u] = 0
      OBVIOUS
    <3>2. pool[p].lp = f
      BY <1>3
    <3> HIDE DEF f
    <3>3. Total(f) = 0
      BY <3>1, TotalZero
    <3> QED BY <3>2, <3>3 DEF TotalSupply
  <2>3. pool[p].asset = Booked(pool[p])
    <3>1. /\ pool[p].asset = 0 /\ pool[p].eqFeePool = 0 /\ pool[p].protocolFeeBalance = 0
          /\ pool[p].mintFeeBalance = 0 /\ pool[p].deltaCredit = 0
      BY <1>3
    <3> QED BY <2>1, <3>1 DEF Booked, LkbOf, CreditMap
  <2> QED BY <1>3, <2>2, <2>3 DEF PoolOK, SharesBacked
<1>6. PathsOK
  <2>1. \A p, q \in Pool : <<p, q>> \in InitialPaths =>
          ChainOf[p] # ChainOf[q] /\ <<q, p>> \in InitialPaths
    BY BridgeAssumption
  <2> SUFFICES ASSUME NEW p \in Pool, NEW q \in Pool
               PROVE  LET x == pool[p].chainPaths[q]
                      IN  /\ x.created => ChainOf[p] # ChainOf[q]
                          /\ x.ready => x.created /\ pool[q].chainPaths[p].created
                          /\ ~x.created => BlankPath(x)
    BY DEF PathsOK
  <2>2. /\ pool[p].chainPaths[q] = pathOf(p, q) /\ pool[q].chainPaths[p] = pathOf(q, p)
        /\ pathOf(p, q).created => <<p, q>> \in InitialPaths
        /\ <<q, p>> \in InitialPaths => pathOf(q, p).created
    BY <1>1, <1>4
  <2>3. /\ pathOf(p, q).ready => pathOf(p, q).created
        /\ ~pathOf(p, q).created => BlankPath(pathOf(p, q))
    BY <1>1 DEF BlankPath
  <2> QED BY <2>1, <2>2, <2>3
<1>7. InFlight = {} /\ Outstanding = {}
  BY <1>2 DEF InFlight, Outstanding
<1>8. TypeOK
  <2>1. pool \in [Pool -> PoolState]
    <3>1. \A p \in Pool : pool[p] \in PoolState
      BY <1>3
    <3>2. pool = [p \in Pool |-> pool[p]]
      BY <1>2
    <3> QED BY <3>1, <3>2
  <2>2. /\ DOMAIN channel = Channel /\ outNonce \in [Channel -> Nat]
        /\ \A k \in Channel : channel[k] \in Seq(Message)
    BY <1>2
  <2> QED BY <1>2, <2>1, <2>2 DEF TypeOK
<1>9. MessagesOK /\ WeightsOK
  BY <1>2, <1>7 DEF MessagesOK, WeightsOK
<1>10. IdsOK
  BY <1>2 DEF IdsOK
<1>11. NoncesOK
  <2>1. Answers = 0
    BY <1>7, TotalEmpty DEF Answers
  <2>2. outNonce \in [Channel -> Nat] /\ \A k \in Channel : outNonce[k] = 0
    BY <1>2
  <2>3. Total(outNonce) = 0
    BY <2>2, TotalZero
  <2> QED BY <2>1, <2>3, BridgeAssumption DEF NoncesOK
<1>12. PathsAgree
  <2>1. ASSUME NEW p \in Pool, NEW q \in Pool
        PROVE  Total([m \in Outstanding |-> Claim(m, p, q)]) = 0
    BY <1>7, TotalEmpty
  <2>2. ASSUME NEW p \in Pool, NEW q \in Pool
        PROVE  pool[p].chainPaths[q].lkb = 0 /\ pool[q].chainPaths[p].balance = 0
    <3>1. /\ pool[p].chainPaths[q] = pathOf(p, q) /\ pool[q].chainPaths[p] = pathOf(q, p)
      BY <1>4
    <3>2. pathOf(p, q).lkb = 0 /\ pathOf(q, p).balance = 0
      BY <1>1
    <3> QED BY <3>1, <3>2
  <2> QED BY <2>1, <2>2 DEF PathsAgree
<1>13. GlobalSolvency
  <2> DEFINE A == [p \in Pool |-> pool[p].asset]
             O == [p \in Pool |-> Owes(p)]
             C == [m \in Outstanding |-> Carried(m)]
  <2>1. Total(C) = 0
    BY <1>7, TotalEmpty
  <2>0. ASSUME NEW p \in Pool PROVE pool[p].asset = 0 /\ Owes(p) = 0
    <3>1. /\ pool[p].asset = 0 /\ pool[p].eqFeePool = 0 /\ pool[p].protocolFeeBalance = 0
          /\ pool[p].mintFeeBalance = 0 /\ pool[p].totalLiquidity = 0
      BY <1>3
    <3> QED BY <3>1 DEF Owes
  <2>2. A \in [Pool -> Nat] /\ \A p \in Pool : A[p] = 0
    BY <2>0
  <2>3. O \in [Pool -> Nat] /\ \A p \in Pool : O[p] = 0
    BY <2>0
  <2>4. Total(A) = 0 /\ Total(O) = 0
    BY <2>2, <2>3, TotalZero
  <2> QED BY <2>1, <2>4 DEF GlobalSolvency
<1>14. IsFiniteSet(Outstanding)
  BY <1>7, FS_EmptySet
<1> QED BY <1>5, <1>6, <1>8, <1>9, <1>10, <1>11, <1>12, <1>13, <1>14 DEF StargateInv

\* Every step keeps the invariant, and lets no share lose value.
LEMMA StargateNext ==
  ASSUME StargateInv, [Next]_vars
  PROVE  StargateInv' /\ PricesKept
<1>1. CASE UserCall
  <2>1. PICK p \in Pool, q \in Pool, u \in User, amount \in Amounts :
          \/ AddLiquidity(p, u, amount)
          \/ RedeemAtOnce(p, u, amount)
          \/ RedeemLocally(p, q, u, amount)
          \/ SendCreditsOnly(p, q)
          \/ \E fees \in FeesCharged :
               \/ RedeemRemotely(p, q, u, amount, fees)
               \/ \E payload \in Payloads : SwapTokens(p, q, u, amount, fees, payload)
    BY <1>1 DEF UserCall
  <2>2. CASE AddLiquidity(p, u, amount)
    BY <2>2, AddLiquidityStep
  <2>3. CASE RedeemAtOnce(p, u, amount)
    BY <2>3, RedeemAtOnceStep
  <2>4. CASE RedeemLocally(p, q, u, amount)
    BY <2>4, RedeemLocallyStep
  <2>5. CASE SendCreditsOnly(p, q)
    BY <2>5, SendCreditsOnlyStep
  <2>6. ASSUME NEW fees \in FeesCharged, RedeemRemotely(p, q, u, amount, fees)
        PROVE  StargateInv' /\ PricesKept
    BY <2>6, RedeemRemotelyStep
  <2>7. ASSUME NEW fees \in FeesCharged, NEW payload \in Payloads,
               SwapTokens(p, q, u, amount, fees, payload)
        PROVE  StargateInv' /\ PricesKept
    BY <2>7, SwapTokensStep
  <2> QED BY <2>1, <2>2, <2>3, <2>4, <2>5, <2>6, <2>7
<1>2. ASSUME NEW p \in Pool, NEW fullMode \in BOOLEAN, CallDelta(p, fullMode)
      PROVE  StargateInv' /\ PricesKept
  BY <1>2, CallDeltaStep
<1>3. ASSUME NEW p \in Pool, DaoCall(p)
      PROVE  StargateInv' /\ PricesKept
  BY <1>3, DaoStep
<1>4. ASSUME NEW p \in Pool, NEW q \in Pool, Activate(p, q)
      PROVE  StargateInv' /\ PricesKept
  BY <1>4, ActivateStep
<1>5. ASSUME NEW k \in Channel, Receive(k)
      PROVE  StargateInv' /\ PricesKept
  BY <1>5, ReceiveStep
<1>6. ASSUME NEW k \in Channel, ForceResumeReceive(k)
      PROVE  StargateInv' /\ PricesKept
  BY <1>6, ForceResumeStep
<1>7. ASSUME NEW e \in revertLookup, RevertRedeemLocal(e)
      PROVE  StargateInv' /\ PricesKept
  BY <1>7, RevertRedeemLocalStep
<1>8. ASSUME NEW e \in revertLookup, RetryRevert(e)
      PROVE  (\E m, pl : Arrives(m, pl)) \/ UNCHANGED vars
  BY <1>8, RetryArrives
<1>11. ASSUME NEW m, NEW pl, Arrives(m, pl)
       PROVE  StargateInv' /\ PricesKept
  BY <1>11, ArrivalKeeps
<1>9. ASSUME NEW e \in cachedSwapLookup, ClearCachedSwap(e)
      PROVE  StargateInv' /\ PricesKept
  <2>1. /\ cachedSwapLookup' \subseteq cachedSwapLookup
        /\ UNCHANGED <<pool, channel, outNonce, revertLookup, dropped>>
    BY <1>9 DEF ClearCachedSwap
  <2> QED BY <2>1, CachedStep
<1>10. CASE UNCHANGED vars
  <2>1. /\ cachedSwapLookup' \subseteq cachedSwapLookup
        /\ UNCHANGED <<pool, channel, outNonce, revertLookup, dropped>>
    BY <1>10 DEF vars
  <2> QED BY <2>1, CachedStep
<1> QED BY <1>1, <1>2, <1>3, <1>4, <1>5, <1>6, <1>7, <1>8, <1>9, <1>10, <1>11 DEF Next

\* In every reachable state the invariant holds.
THEOREM StargateInvariant == Spec => []StargateInv
<1>1. Init => StargateInv
  BY StargateInit
<1>2. StargateInv /\ [Next]_vars => StargateInv'
  BY StargateNext
<1> QED BY <1>1, <1>2, PTL DEF Spec

\* The audit of the tests: whatever users, relayers, the DAO and the owner of
\* the bridges do, in any order and with messages in flight, failed or dropped,
\* no balance or credit becomes negative, every pool's tokens are accounted for
\* and all pools together hold what they owe.
THEOREM StargateBooks == Spec => []BooksBalance
<1>1. StargateInv => BooksBalance
  <2> SUFFICES ASSUME StargateInv PROVE BooksBalance
    OBVIOUS
  <2>1. TypeOK /\ GlobalSolvency /\ \A p \in Pool : PoolOK(pool[p])
    BY InvFacts
  <2>2. AssetsBooked
    BY <2>1 DEF AssetsBooked, PoolOK
  <2> QED BY <2>1, <2>2 DEF BooksBalance
<1> QED BY <1>1, StargateInvariant, PTL

\* What a pool keeps for another is always what that one may promise from it,
\* plus what the messages between them will add or take off.
THEOREM StargatePaths == Spec => []PathsAgree
<1>1. StargateInv => PathsAgree
  BY InvFacts
<1> QED BY <1>1, StargateInvariant, PTL

\* Instant guaranteed finality: whatever happened since a transfer left, its
\* destination has the tokens and the credits for it, as long as the DAO gives no
\* path a weight of zero, with which nothing could be minted back.
THEOREM StargatePromises ==
  ASSUME 0 \notin Weights
  PROVE  Spec => []PromisesKept
<1>1. StargateInv => PromisesKept
  <2> SUFFICES ASSUME StargateInv, NEW m \in InFlight \cup revertLookup
               PROVE  /\ m.type = "swap" => CanSwapRemote(pool[m.to], m.from, m.swap)
                      /\ m.type = "callback" =>
                           CanRedeemCallback(pool[m.to], m.from, m.amountSD, m.mintSD)
    BY DEF PromisesKept
  <2> DEFINE p == m.to
             q == m.from
             y == pool[p].chainPaths[q]
  <2>1. m \in Outstanding
    BY DEF Outstanding
  <2>2. /\ m \in Message /\ p \in Pool /\ q \in Pool /\ p # q
        /\ PoolOK(pool[p]) /\ pool[p] \in PoolState /\ MessageOK(m) /\ HasWeight(m)
    BY <2>1, EndsKnown
  <2>3. /\ IsFiniteSet(Outstanding) /\ Outstanding \subseteq Message
        /\ y.lkb = pool[q].chainPaths[p].balance + ClaimsOn(Outstanding, p, q)
        /\ pool[q].chainPaths[p].balance \in Nat /\ y.lkb \in Nat
    <3>1. PathsAgree /\ pool[q] \in PoolState
      BY <2>2, InvFacts
    <3> QED BY <2>2, <3>1, InvFacts, PathTypes DEF PathsAgree, ClaimsOn
  <2>4. Claim(m, p, q) <= y.lkb /\ Claim(m, p, q) \in Nat
    <3>1. /\ ClaimsOn(Outstanding, p, q) \in Nat
          /\ Claim(m, p, q) <= ClaimsOn(Outstanding, p, q)
      BY <2>1, <2>3, SumTypes
    <3>2. Claim(m, p, q) \in Nat
      BY <2>2, MessageTypes
    <3> QED BY <2>3, <3>1, <3>2
  <2>5. y.lkb <= pool[p].asset /\ pool[p].asset \in Nat
    BY <2>2, LkbCovered, PoolTypes
  <2>6. m.swap \in SwapObj /\ m.amountSD \in Nat /\ m.mintSD \in Nat
    BY <2>2, MessageTypes
  <2>7. ASSUME m.type = "swap" PROVE CanSwapRemote(pool[p], q, m.swap)
    <3>1. SwapAdds(m.swap) /\ m.amountSD = 0
      BY <2>2, <2>7 DEF MessageOK
    <3>2. Claim(m, p, q) = m.swap.lkbRemove + 0
      BY <2>2, <2>7, <3>1 DEF Claim
    <3>3. /\ m.swap.amount \in Nat /\ m.swap.eqReward \in Nat /\ m.swap.eqFee \in Nat
          /\ m.swap.protocolFee \in Nat /\ m.swap.lkbRemove \in Nat
      BY <2>6 DEF SwapObj
    <3>4. m.swap.amount + m.swap.eqReward <= m.swap.lkbRemove
      BY <3>1, <3>3 DEF SwapAdds
    <3> QED BY <2>3, <2>4, <2>5, <3>2, <3>3, <3>4 DEF CanSwapRemote
  <2>8. ASSUME m.type = "callback"
        PROVE  CanRedeemCallback(pool[p], q, m.amountSD, m.mintSD)
    <3>1. m.swap.lkbRemove = 0
      BY <2>2, <2>8 DEF MessageOK, NoSwap
    <3>2. Claim(m, p, q) = 0 + m.amountSD
      BY <2>2, <2>8, <3>1 DEF Claim
    <3>3. TotalWeight(pool[p]) > 0
      BY <2>2, <2>8 DEF HasWeight
    <3>4. TotalSupply(pool[p]) # 0 => pool[p].totalLiquidity > 0
      <4>1. TotalSupply(pool[p]) \in Nat
        BY <2>2, MapTypes
      <4> QED BY <2>2, <4>1 DEF PoolOK, SharesBacked
    <3>5. m.amountSD <= y.lkb /\ m.amountSD <= pool[p].asset
      BY <2>3, <2>4, <2>5, <2>6, <3>2
    <3> QED BY <3>3, <3>4, <3>5 DEF CanRedeemCallback, CanMint
  <2> QED BY <2>7, <2>8
<1> QED BY <1>1, StargateInvariant, PTL

\* No call of anybody ever makes an LP token stand for less liquidity.
THEOREM StargatePrice == Spec => SharePriceNeverFalls
<1> DEFINE HoldsPrice == \A p \in Pool :
             TotalSupply(pool[p]) > 0 /\ TotalSupply(pool'[p]) > 0 =>
               pool'[p].totalLiquidity * TotalSupply(pool[p])
                 >= pool[p].totalLiquidity * TotalSupply(pool'[p])
<1>1. StargateInv /\ [Next]_vars => [HoldsPrice]_vars
  <2> SUFFICES ASSUME StargateInv, [Next]_vars PROVE HoldsPrice
    OBVIOUS
  <2>1. PricesKept
    BY StargateNext
  <2> QED BY <2>1 DEF PricesKept, PriceKept
<1> QED BY <1>1, StargateInvariant, PTL DEF Spec, SharePriceNeverFalls
-----------------------------------------------------------------------------
(* Transfers are honoured as they were accepted: the steps of the system are *)
(* steps of GuaranteedTransfers, for any amounts.                            *)

Promises ==
  INSTANCE GuaranteedTransfers WITH
    Amount <- Nat,
    promised <- {Promised(m) : m \in Waiting},
    honoured <- settled

\* A transfer is known by the nonce of its first message, at most one message
\* stands for it, and none does once it was honoured.
OriginsOK ==
  /\ \A m \in Waiting : m.origin[2] <= outNonce[m.origin[1]]
  /\ \A m, n \in Waiting : m.origin = n.origin => m = n
  /\ DOMAIN settled = TransferId
  /\ \A id \in TransferId : settled[id] # <<>> =>
       /\ id[2] <= outNonce[id[1]]
       /\ \A m \in Waiting : m.origin # id

\* What a step does to a transfer, and nothing else changes.
Honoured == OriginsOK' /\ [Promises!Next]_Promises!promiseVars

\* Nonces never become smaller.
NoncesGrow == \A k \in Channel : outNonce[k] <= outNonce'[k]

\* What waits has a nonce and amounts.
LEMMA WaitingTypes ==
  ASSUME StargateInv, NEW m \in Waiting
  PROVE  /\ m \in Outstanding /\ m \in Message /\ m.type # "credits"
         /\ m.origin \in TransferId /\ m.origin[1] \in Channel /\ m.origin[2] \in Nat
         /\ Promised(m).id = m.origin /\ Promised(m).user = m.user
         /\ Promised(m).amount \in Nat
<1>1. m \in Outstanding /\ m \in Message /\ m.type # "credits"
  BY InvFacts DEF Waiting
<1>2. m.origin \in TransferId /\ m.swap \in SwapObj /\ m.amountSD \in Nat /\ m.mintSD \in Nat
  BY <1>1, MessageTypes
<1>3. m.swap.amount \in Nat /\ m.swap.eqReward \in Nat
  BY <1>2 DEF SwapObj
<1> QED BY <1>1, <1>2, <1>3 DEF Promised, TransferId

\* Nothing happens to any transfer.
LEMMA TransfersStay ==
  ASSUME StargateInv, OriginsOK, Waiting' = Waiting,
         NoncesGrow, outNonce' \in [Channel -> Nat], UNCHANGED settled
  PROVE  Honoured
<1>1. OriginsOK'
  <2>1. ASSUME NEW id \in TransferId, id[2] <= outNonce[id[1]]
        PROVE  id[2] <= outNonce'[id[1]]
    <3>1. id[1] \in Channel /\ id[2] \in Nat
      BY DEF TransferId
    <3>2. outNonce \in [Channel -> Nat]
      BY InvFacts
    <3> QED BY <2>1, <3>1, <3>2 DEF NoncesGrow
  <2>2. \A m \in Waiting : m.origin \in TransferId
    BY WaitingTypes
  <2> QED BY <2>1, <2>2 DEF OriginsOK
<1>2. UNCHANGED Promises!promiseVars
  BY DEF Promises!promiseVars
<1> QED BY <1>1, <1>2 DEF Honoured

\* A transfer is accepted when its first message is sent.
LEMMA TransferSent ==
  ASSUME StargateInv, OriginsOK, NEW n \in Message, NEW k \in Channel,
         n.type # "credits", Waiting' = Waiting \cup {n}, n.user \in User,
         n.origin = <<k, outNonce[k] + 1>>, outNonce' = [outNonce EXCEPT ![k] = @ + 1],
         UNCHANGED settled
  PROVE  Honoured
<1>1. outNonce \in [Channel -> Nat] /\ outNonce[k] \in Nat
  BY InvFacts
<1>2. n.origin \in TransferId
  BY MessageTypes
<1>3. \A m \in Waiting : m.origin # n.origin
  <2> SUFFICES ASSUME NEW m \in Waiting, m.origin = n.origin PROVE FALSE
    OBVIOUS
  <2>1. outNonce[k] + 1 <= outNonce[k]
    BY DEF OriginsOK
  <2> QED BY <1>1, <2>1
<1>4. settled[n.origin] = <<>>
  <2> SUFFICES ASSUME settled[n.origin] # <<>> PROVE FALSE
    OBVIOUS
  <2>1. outNonce[k] + 1 <= outNonce[k]
    BY <1>2 DEF OriginsOK
  <2> QED BY <1>1, <2>1
<1>5. ASSUME NEW id \in TransferId, id[2] <= outNonce[id[1]]
      PROVE  id[2] <= outNonce'[id[1]]
  <2>1. id[1] \in Channel /\ id[2] \in Nat
    BY DEF TransferId
  <2> QED BY <1>1, <1>5, <2>1
<1>6. OriginsOK'
  <2>1. \A m \in Waiting : m.origin \in TransferId
    BY WaitingTypes
  <2>2. n.origin[2] <= outNonce'[n.origin[1]]
    BY <1>1
  <2>3. \A m \in Waiting' : m.origin[2] <= outNonce'[m.origin[1]]
    BY <1>5, <2>1, <2>2 DEF OriginsOK
  <2>4. \A m, o \in Waiting' : m.origin = o.origin => m = o
    BY <1>3 DEF OriginsOK
  <2>5. ASSUME NEW id \in TransferId, settled'[id] # <<>>
        PROVE  id[2] <= outNonce'[id[1]] /\ \A m \in Waiting' : m.origin # id
    BY <1>4, <1>5, <2>5 DEF OriginsOK
  <2> QED BY <2>3, <2>4, <2>5 DEF OriginsOK
<1>7. Promises!Accept(n.origin, n.user, Promised(n).amount)
  <2>1. \A p \in {Promised(m) : m \in Waiting} : p.id # n.origin
    BY <1>3 DEF Promised
  <2>2. Promised(n) = [id |-> n.origin, user |-> n.user, amount |-> Promised(n).amount]
    BY DEF Promised
  <2>3. {Promised(m) : m \in Waiting}' = {Promised(m) : m \in Waiting} \cup {Promised(n)}
    BY DEF Promised
  <2> QED BY <1>4, <2>1, <2>2, <2>3 DEF Promises!Accept
<1>8. Promised(n).amount \in Nat
  <2>1. n.swap \in SwapObj /\ n.amountSD \in Nat /\ n.mintSD \in Nat
    BY MessageTypes
  <2>2. n.swap.amount \in Nat /\ n.swap.eqReward \in Nat
    BY <2>1 DEF SwapObj
  <2> QED BY <2>1, <2>2 DEF Promised
<1> QED BY <1>2, <1>6, <1>7, <1>8 DEF Honoured, Promises!Next

\* Another message takes over the transfer.
LEMMA TransferPassed ==
  ASSUME StargateInv, OriginsOK, NEW m \in Waiting, NEW n \in Message,
         Waiting' = (Waiting \ {m}) \cup {n}, Promised(n) = Promised(m),
         NoncesGrow, outNonce' \in [Channel -> Nat], UNCHANGED settled
  PROVE  Honoured
<1>1. n.origin = m.origin
  BY DEF Promised
<1>2. ASSUME NEW id \in TransferId, id[2] <= outNonce[id[1]]
      PROVE  id[2] <= outNonce'[id[1]]
  <2>1. id[1] \in Channel /\ id[2] \in Nat
    BY DEF TransferId
  <2>2. outNonce \in [Channel -> Nat]
    BY InvFacts
  <2> QED BY <1>2, <2>1, <2>2 DEF NoncesGrow
<1>3. OriginsOK'
  <2>1. \A o \in Waiting : o.origin \in TransferId
    BY WaitingTypes
  <2>2. \A o \in Waiting' : \E w \in Waiting : w.origin = o.origin
    BY <1>1
  <2>3. \A o \in Waiting' : o.origin[2] <= outNonce'[o.origin[1]]
    BY <1>2, <2>1, <2>2 DEF OriginsOK
  <2>4. \A o, w \in Waiting' : o.origin = w.origin => o = w
    BY <1>1 DEF OriginsOK
  <2>5. ASSUME NEW id \in TransferId, settled'[id] # <<>>
        PROVE  id[2] <= outNonce'[id[1]] /\ \A o \in Waiting' : o.origin # id
    BY <1>2, <2>2, <2>5 DEF OriginsOK
  <2> QED BY <2>3, <2>4, <2>5 DEF OriginsOK
<1>4. {Promised(o) : o \in Waiting}' = {Promised(o) : o \in Waiting}
  <2>1. {Promised(o) : o \in Waiting}' = {Promised(o) : o \in Waiting'}
    BY DEF Promised
  <2> QED BY <2>1
<1>5. UNCHANGED Promises!promiseVars
  BY <1>4 DEF Promises!promiseVars
<1> QED BY <1>3, <1>5 DEF Honoured

\* A transfer is honoured, and nothing waits for it any more.
LEMMA TransferSettled ==
  ASSUME StargateInv, OriginsOK, NEW m \in Waiting, Waiting' = Waiting \ {m},
         NEW cash \in Nat, NEW minted \in Nat, cash + minted = Promised(m).amount,
         Settle(m.origin, cash, minted, m.user), UNCHANGED outNonce
  PROVE  Honoured
<1> DEFINE i == m.origin
           paid == [cash |-> cash, minted |-> minted, user |-> m.user]
<1>1. i \in TransferId /\ i[2] <= outNonce[i[1]] /\ DOMAIN settled = TransferId
  BY WaitingTypes DEF OriginsOK
<1>2. settled' = [settled EXCEPT ![i] = Append(@, paid)]
  BY DEF Settle
<1>3. \A o \in Waiting' : o.origin # i
  BY DEF OriginsOK
<1>4. OriginsOK'
  <2>1. \A o \in Waiting' : o.origin[2] <= outNonce'[o.origin[1]]
    BY DEF OriginsOK
  <2>2. \A o, w \in Waiting' : o.origin = w.origin => o = w
    BY DEF OriginsOK
  <2>3. DOMAIN settled' = TransferId
    BY <1>1, <1>2
  <2>4. ASSUME NEW id \in TransferId, settled'[id] # <<>>
        PROVE  id[2] <= outNonce'[id[1]] /\ \A o \in Waiting' : o.origin # id
    <3>1. CASE id = i
      BY <1>1, <1>3, <3>1
    <3>2. CASE id # i
      BY <1>2, <2>4, <3>2 DEF OriginsOK
    <3> QED BY <3>1, <3>2
  <2> QED BY <2>1, <2>2, <2>3, <2>4 DEF OriginsOK
<1>5. {Promised(o) : o \in Waiting}' = {Promised(o) : o \in Waiting} \ {Promised(m)}
  <2>1. {Promised(o) : o \in Waiting}' = {Promised(o) : o \in Waiting'}
    BY DEF Promised
  <2>2. \A o \in Waiting' : Promised(o) # Promised(m)
    BY <1>3 DEF Promised
  <2> QED BY <2>1, <2>2
<1>6. Promises!Honour(i)
  <2>1. /\ Promised(m) \in {Promised(o) : o \in Waiting} /\ Promised(m).id = i
        /\ Promised(m).user = m.user /\ Promised(m).amount \in Nat
    BY WaitingTypes
  <2>2. cash <= Promised(m).amount /\ minted = Promised(m).amount - cash
    BY <2>1
  <2> QED BY <1>2, <1>5, <2>1, <2>2 DEF Promises!Honour
<1> QED BY <1>1, <1>4, <1>6 DEF Honoured, Promises!Next

\* A message is sent, and is the only change to what is outstanding.
LEMMA SendEffect ==
  ASSUME StargateInv, StargateInv', NEW p \in Pool, NEW q \in Pool, NEW n,
         n.id = NextId(p, q),
         channel' = [channel EXCEPT ![ChannelOf(p, q)] = Append(@, n)],
         outNonce' = [outNonce EXCEPT ![ChannelOf(p, q)] = @ + 1],
         revertLookup' \subseteq revertLookup, UNCHANGED dropped
  PROVE  /\ n \in Message /\ n \notin Outstanding /\ InFlight' = InFlight \cup {n}
         /\ ChannelOf(p, q) \in Channel /\ NoncesGrow /\ outNonce' \in [Channel -> Nat]
<1> DEFINE k == ChannelOf(p, q)
           s == channel[k]
           t == Append(s, n)
<1>1. k \in Channel
  BY BridgeAssumption DEF ChannelOf, Channel
<1>2. /\ s \in Seq(Message) /\ DOMAIN channel = Channel
      /\ outNonce \in [Channel -> Nat] /\ TypeOK /\ IdsOK
  BY <1>1, InvFacts
<1>3. channel'[k] = t /\ channel'[k] \in Seq(Message)
  <2>1. \A c \in DOMAIN channel' : channel'[c] \in Seq(Message)
    BY DEF StargateInv, TypeOK
  <2> QED BY <1>1, <1>2, <2>1
<1> HIDE DEF s
<1>4. n \in Message
  <2> DEFINE S == Message \cup {n}
  <2>1. s \in Seq(S) /\ n \in S
    BY <1>2
  <2> HIDE DEF S
  <2>2. Len(t) = Len(s) + 1 /\ t[Len(s) + 1] = n /\ Len(s) \in Nat
    BY <2>1, AppendProperties, LenProperties
  <2>3. t[Len(s) + 1] \in Message
    BY <1>3, <2>2, ElementOfSeq
  <2> QED BY <2>2, <2>3
<1>5. n.id = <<k, outNonce[k] + 1>>
  BY DEF NextId
<1>6. n \notin Outstanding /\ InFlight' = InFlight \cup {n} /\ outNonce' \in [Channel -> Nat]
  BY <1>1, <1>2, <1>4, <1>5, SendOrder
<1>7. NoncesGrow
  BY <1>1, <1>2 DEF NoncesGrow
<1> QED BY <1>1, <1>4, <1>6, <1>7

\* Users' messages are transfers that are accepted, or carry credits only.
LEMMA UserSends ==
  ASSUME StargateInv, StargateInv', OriginsOK, NEW p \in Pool, NEW q \in Pool,
         NEW R, NEW m, SendWithCredits(R, m), UNCHANGED keptVars,
         m.id = NextId(p, q), NEW n, n = [m EXCEPT !.credit = CreditsOf(R, m.to)],
         n.id = NextId(p, q), n.origin = NextId(p, q),
         n.type # "credits" => n.user \in User
  PROVE  Honoured
<1> DEFINE k == ChannelOf(p, q)
<1>1. m.id[1] = k
  BY DEF NextId
<1>2. /\ channel' = [channel EXCEPT ![k] = Append(@, n)]
      /\ outNonce' = [outNonce EXCEPT ![k] = @ + 1]
      /\ UNCHANGED <<revertLookup, dropped, settled>>
  BY <1>1 DEF SendWithCredits, keptVars
<1>3. /\ n \in Message /\ InFlight' = InFlight \cup {n}
      /\ k \in Channel /\ NoncesGrow /\ outNonce' \in [Channel -> Nat]
  BY <1>2, SendEffect
<1>4. Outstanding' = Outstanding \cup {n}
  BY <1>2, <1>3 DEF Outstanding
<1>5. CASE n.type = "credits"
  <2>1. Waiting' = Waiting
    BY <1>4, <1>5 DEF Waiting
  <2> QED BY <1>2, <1>3, <2>1, TransfersStay
<1>6. CASE n.type # "credits"
  <2>1. Waiting' = Waiting \cup {n}
    BY <1>4, <1>6 DEF Waiting
  <2>2. n.origin = <<k, outNonce[k] + 1>>
    BY DEF NextId
  <2> QED BY <1>2, <1>3, <1>6, <2>1, <2>2, TransferSent
<1> QED BY <1>5, <1>6

\* A step that leaves the messages alone, or only drops one.
LEMMA OutstandingStays ==
  ASSUME StargateInv, OriginsOK, Outstanding' = Outstanding, UNCHANGED <<outNonce, settled>>
  PROVE  Honoured
<1>1. Waiting' = Waiting
  BY DEF Waiting
<1>2. outNonce \in [Channel -> Nat]
  BY InvFacts
<1>3. NoncesGrow /\ outNonce' \in [Channel -> Nat]
  BY <1>2 DEF NoncesGrow
<1> QED BY <1>1, <1>3, TransfersStay

\* A user's call accepts at most one transfer.
LEMMA UserCallHonours ==
  ASSUME StargateInv, StargateInv', OriginsOK, UserCall
  PROVE  Honoured
<1>1. PICK p \in Pool, q \in Pool, u \in User, amount \in Amounts :
        \/ AddLiquidity(p, u, amount)
        \/ RedeemAtOnce(p, u, amount)
        \/ RedeemLocally(p, q, u, amount)
        \/ SendCreditsOnly(p, q)
        \/ \E fees \in FeesCharged :
             \/ RedeemRemotely(p, q, u, amount, fees)
             \/ \E payload \in Payloads : SwapTokens(p, q, u, amount, fees, payload)
  BY DEF UserCall
<1>2. CASE AddLiquidity(p, u, amount) \/ RedeemAtOnce(p, u, amount)
  <2>1. UNCHANGED <<channel, outNonce, revertLookup, dropped, settled>>
    BY <1>2 DEF AddLiquidity, RedeemAtOnce, keptVars
  <2>2. Outstanding' = Outstanding
    BY <2>1 DEF Outstanding, InFlight
  <2> QED BY <2>1, <2>2, OutstandingStays
<1>3. CASE RedeemLocally(p, q, u, amount)
  <2> DEFINE R == RedeemLocal(pool[p], u, amount)
             a == AmountLPtoSD(pool[p], amount)
             m == [NewMessage("redeem", p, q, u) EXCEPT !.amountSD = a]
             n == [m EXCEPT !.credit = CreditsOf(R, m.to)]
  <2>1. SendWithCredits(R, m) /\ UNCHANGED keptVars
    BY <1>3 DEF RedeemLocally
  <2>2. /\ m.id = NextId(p, q) /\ n.id = NextId(p, q) /\ n.origin = NextId(p, q)
        /\ n.user = u
    <3> HIDE DEF R, a
    <3> QED BY DEF NewMessage
  <2>3. n = [m EXCEPT !.credit = CreditsOf(R, m.to)]
    OBVIOUS
  <2> HIDE DEF R, m, n
  <2> QED BY <2>1, <2>2, <2>3, UserSends
<1>4. CASE SendCreditsOnly(p, q)
  <2> DEFINE R == pool[p]
             m == NewMessage("credits", p, q, NoUser)
             n == [m EXCEPT !.credit = CreditsOf(R, m.to)]
  <2>1. SendWithCredits(R, m) /\ UNCHANGED keptVars
    BY <1>4 DEF SendCreditsOnly
  <2>2. /\ m.id = NextId(p, q) /\ n.id = NextId(p, q) /\ n.origin = NextId(p, q)
        /\ n.type = "credits"
    <3> HIDE DEF R
    <3> QED BY DEF NewMessage
  <2>3. n = [m EXCEPT !.credit = CreditsOf(R, m.to)]
    OBVIOUS
  <2> HIDE DEF R, m, n
  <2> QED BY <2>1, <2>2, <2>3, UserSends
<1>5. ASSUME NEW fees \in FeesCharged, RedeemRemotely(p, q, u, amount, fees)
      PROVE  Honoured
  <2> DEFINE a == AmountLPtoSD(pool[p], amount)
             s == SwapOf(a, fees)
             R == RedeemRemote(Swap(pool[p], q, a, s, FALSE), u, amount)
             m == [NewMessage("swap", p, q, u) EXCEPT !.swap = s]
             n == [m EXCEPT !.credit = CreditsOf(R, m.to)]
  <2>1. SendWithCredits(R, m) /\ UNCHANGED keptVars
    BY <1>5 DEF RedeemRemotely
  <2>2. /\ m.id = NextId(p, q) /\ n.id = NextId(p, q) /\ n.origin = NextId(p, q)
        /\ n.user = u
    <3> HIDE DEF R, s
    <3> QED BY DEF NewMessage
  <2>3. n = [m EXCEPT !.credit = CreditsOf(R, m.to)]
    OBVIOUS
  <2> HIDE DEF R, m, n
  <2> QED BY <2>1, <2>2, <2>3, UserSends
<1>6. ASSUME NEW fees \in FeesCharged, NEW payload \in Payloads,
             SwapTokens(p, q, u, amount, fees, payload)
      PROVE  Honoured
  <2> DEFINE s == SwapOf(amount, fees)
             R == Swap(pool[p], q, amount, s, TRUE)
             m == [NewMessage("swap", p, q, u) EXCEPT !.swap = s, !.payload = payload]
             n == [m EXCEPT !.credit = CreditsOf(R, m.to)]
  <2>1. SendWithCredits(R, m) /\ UNCHANGED keptVars
    BY <1>6 DEF SwapTokens
  <2>2. /\ m.id = NextId(p, q) /\ n.id = NextId(p, q) /\ n.origin = NextId(p, q)
        /\ n.user = u
    <3> HIDE DEF R, s
    <3> QED BY DEF NewMessage
  <2>3. n = [m EXCEPT !.credit = CreditsOf(R, m.to)]
    OBVIOUS
  <2> HIDE DEF R, m, n
  <2> QED BY <2>1, <2>2, <2>3, UserSends
<1> QED BY <1>1, <1>2, <1>3, <1>4, <1>5, <1>6

\* A transfer that arrives is honoured as promised, or waits further.
LEMMA ArrivalHonours ==
  ASSUME StargateInv, OriginsOK, NEW m, NEW pl, Arrives(m, pl), UNCHANGED outNonce
  PROVE  Honoured
<1>1. m \in Outstanding /\ Outcome(m, pl)
  BY DEF Arrives
<1>2. /\ m \in Message /\ MessageOK(m) /\ m.swap \in SwapObj
      /\ m.amountSD \in Nat /\ m.mintSD \in Nat
  BY <1>1, EndsKnown, MessageTypes
<1>3. NoncesGrow /\ outNonce' \in [Channel -> Nat]
  <2>1. outNonce \in [Channel -> Nat]
    BY InvFacts
  <2> QED BY <2>1 DEF NoncesGrow
<1>4. ASSUME Gone(m) PROVE Waiting' = Waiting \ {m}
  BY <1>4 DEF Gone, Waiting
<1>5. ASSUME NEW n, Replaced(m, n)
      PROVE  n \in Message /\ Waiting' = (Waiting \ {m}) \cup {n}
  BY <1>5 DEF Replaced, Waiting
<1>6. m.type # "credits" => m \in Waiting
  BY <1>1 DEF Waiting
<1>7. CASE m.type = "credits" /\ Gone(m) /\ UNCHANGED settled
  <2>1. Waiting' = Waiting
    BY <1>4, <1>7 DEF Waiting
  <2> QED BY <1>3, <1>7, <2>1, TransfersStay
<1>8. CASE /\ m.type = "swap" /\ Gone(m)
           /\ Settle(m.origin, m.swap.amount + m.swap.eqReward, 0, m.user)
  <2> DEFINE cash == m.swap.amount + m.swap.eqReward
  <2>1. cash \in Nat /\ cash + 0 = Promised(m).amount
    BY <1>2, <1>8 DEF SwapObj, Promised
  <2> HIDE DEF cash
  <2>2. Settle(m.origin, cash, 0, m.user)
    BY <1>8 DEF cash
  <2> QED BY <1>4, <1>6, <1>8, <2>1, <2>2, TransferSettled
<1>9. CASE m.type = "callback" /\ Gone(m) /\ Settle(m.origin, m.amountSD, m.mintSD, m.user)
  <2>1. m.amountSD + m.mintSD = Promised(m).amount
    BY <1>9 DEF Promised
  <2> QED BY <1>2, <1>4, <1>6, <1>9, <2>1, TransferSettled
<1>10. CASE /\ m.type \in {"swap", "callback"} /\ Replaced(m, Kept(m, m.type))
            /\ UNCHANGED settled
  <2> DEFINE n == Kept(m, m.type)
  <2>1. /\ n.type = m.type /\ n.user = m.user /\ n.swap = m.swap /\ n.origin = m.origin
        /\ n.amountSD = m.amountSD /\ n.mintSD = m.mintSD
    BY <1>2, <1>10, KeptTypes
  <2>2. Replaced(m, n)
    BY <1>10
  <2> HIDE DEF n
  <2>3. Promised(n) = Promised(m)
    BY <2>1 DEF Promised
  <2> QED BY <1>3, <1>5, <1>6, <1>10, <2>2, <2>3, TransferPassed
<1>11. ASSUME m.type = "redeem", UNCHANGED settled, NEW g \in 0 .. m.amountSD,
              Replaced(m, [Kept(m, "response") EXCEPT !.amountSD = g,
                                                      !.mintSD = m.amountSD - g])
       PROVE  Honoured
  <2> DEFINE o == Kept(m, "response")
             n == [o EXCEPT !.amountSD = g, !.mintSD = m.amountSD - g]
  <2>1. o \in Message /\ o.type = "response" /\ o.user = m.user /\ o.origin = m.origin
    BY <1>2, KeptTypes
  <2>2. Replaced(m, n)
    BY <1>11
  <2> HIDE DEF o
  <2>3. /\ n.type = "response" /\ n.user = m.user /\ n.origin = m.origin
        /\ n.amountSD = g /\ n.mintSD = m.amountSD - g
    BY <2>1 DEF Message
  <2> HIDE DEF n
  <2>4. m.mintSD = 0
    BY <1>2, <1>11 DEF MessageOK
  <2>5. Promised(n) = Promised(m)
    BY <1>2, <1>11, <2>3, <2>4 DEF Promised
  <2> QED BY <1>3, <1>5, <1>6, <1>11, <2>2, <2>5, TransferPassed
<1> QED BY <1>1, <1>7, <1>8, <1>9, <1>10, <1>11 DEF Outcome

\* The answer to a redemption stands for the same transfer.
LEMMA AnswerHonours ==
  ASSUME StargateInv, StargateInv', OriginsOK, NEW e \in revertLookup, RevertRedeemLocal(e)
  PROVE  Honoured
<1> DEFINE p == e.to
           q == e.from
           m == [NewMessage("callback", p, q, e.user) EXCEPT
                   !.amountSD = e.amountSD, !.mintSD = e.mintSD, !.origin = e.origin]
           n == [m EXCEPT !.credit = CreditsOf(pool[p], m.to)]
           k == ChannelOf(p, q)
<1>1. /\ e.type = "response" /\ SendWithCredits(pool[p], m)
      /\ revertLookup' = revertLookup \ {e}
      /\ UNCHANGED <<dropped, settled>>
  BY DEF RevertRedeemLocal
<1>2. e \in Outstanding /\ e \in Waiting
  BY <1>1 DEF Outstanding, Waiting
<1>3. p \in Pool /\ q \in Pool
  BY <1>2, EndsKnown
<1>4. /\ m.id = NextId(p, q) /\ n.id = NextId(p, q) /\ n.type = "callback"
      /\ n.origin = e.origin /\ n.user = e.user /\ n.amountSD = e.amountSD
      /\ n.mintSD = e.mintSD
  BY DEF NewMessage
<1> HIDE DEF p, q, m
<1>5. m.id[1] = k
  BY <1>4 DEF NextId
<1>6. /\ channel' = [channel EXCEPT ![k] = Append(@, n)]
      /\ outNonce' = [outNonce EXCEPT ![k] = @ + 1]
  BY <1>1, <1>5 DEF SendWithCredits
<1> HIDE DEF n
<1>7. /\ n \in Message /\ n \notin Outstanding /\ InFlight' = InFlight \cup {n}
      /\ NoncesGrow /\ outNonce' \in [Channel -> Nat]
  <2>1. revertLookup' \subseteq revertLookup /\ UNCHANGED dropped
    BY <1>1
  <2> QED BY <1>3, <1>4, <1>6, <2>1, SendEffect
<1>8. e \notin InFlight /\ e \notin dropped
  <2>1. TypeOK /\ IdsOK
    BY InvFacts
  <2> QED BY <2>1, IdsKnown DEF IdsOK
<1>9. Outstanding' = (Outstanding \ {e}) \cup {n}
  BY <1>1, <1>7, <1>8 DEF Outstanding
<1>10. Waiting' = (Waiting \ {e}) \cup {n}
  BY <1>4, <1>9 DEF Waiting
<1>11. Promised(n) = Promised(e)
  BY <1>1, <1>4 DEF Promised
<1> QED BY <1>1, <1>2, <1>7, <1>10, <1>11, TransferPassed

\* Every step accepts a transfer, honours one, or does nothing to any.
LEMMA NextHonours ==
  ASSUME StargateInv, StargateInv', OriginsOK, [Next]_vars
  PROVE  Honoured
<1>1. CASE UserCall
  BY <1>1, UserCallHonours
<1>2. CASE \/ \E p \in Pool, fullMode \in BOOLEAN : CallDelta(p, fullMode)
           \/ \E p \in Pool : DaoCall(p) \/ \E q \in Pool : Activate(p, q)
  <2>1. UNCHANGED <<channel, outNonce, revertLookup, dropped, settled>>
    BY <1>2 DEF CallDelta, DaoCall, Activate, keptVars
  <2>2. Outstanding' = Outstanding
    BY <2>1 DEF Outstanding, InFlight
  <2> QED BY <2>1, <2>2, OutstandingStays
<1>3. ASSUME NEW k \in Channel, Receive(k) PROVE Honoured
  BY <1>3, ReceiveArrives, ArrivalHonours
<1>4. ASSUME NEW k \in Channel, ForceResumeReceive(k) PROVE Honoured
  <2> DEFINE m == Head(channel[k])
  <2>1. /\ channel[k] # <<>> /\ channel' = [channel EXCEPT ![k] = Tail(@)]
        /\ dropped' = dropped \cup {m} /\ UNCHANGED <<outNonce, revertLookup, settled>>
    BY <1>4 DEF ForceResumeReceive
  <2>2. m \in Message /\ TypeOK /\ IdsOK
    <3>1. channel[k] \in Seq(Message)
      BY InvFacts
    <3> QED BY <2>1, <3>1, HeadTailProperties, InvFacts
  <2>3. m \in InFlight /\ InFlight' = InFlight \ {m}
    BY <2>1, <2>2, DeliverOrder
  <2> HIDE DEF m
  <2>4. Outstanding' = Outstanding
    BY <2>1, <2>3 DEF Outstanding
  <2> QED BY <2>1, <2>4, OutstandingStays
<1>5. ASSUME NEW e \in revertLookup, RevertRedeemLocal(e) PROVE Honoured
  BY <1>5, AnswerHonours
<1>6. CASE UNCHANGED vars
  <2>1. UNCHANGED <<channel, outNonce, revertLookup, dropped, settled>>
    BY <1>6 DEF vars
  <2>2. Outstanding' = Outstanding
    BY <2>1 DEF Outstanding, InFlight
  <2> QED BY <2>1, <2>2, OutstandingStays
<1>7. ASSUME NEW e \in revertLookup, RetryRevert(e) PROVE Honoured
  BY <1>6, <1>7, RetryArrives, ArrivalHonours
<1>8. ASSUME NEW e \in cachedSwapLookup, ClearCachedSwap(e) PROVE Honoured
  <2>1. UNCHANGED <<channel, outNonce, revertLookup, dropped, settled>>
    BY <1>8 DEF ClearCachedSwap
  <2>2. Outstanding' = Outstanding
    BY <2>1 DEF Outstanding, InFlight
  <2> QED BY <2>1, <2>2, OutstandingStays
<1> QED BY <1>1, <1>2, <1>3, <1>4, <1>5, <1>6, <1>7, <1>8 DEF Next

\* Swaps and redemptions across chains implement the promise, apart from what
\* fairness adds: each is honoured at most once, to the user and for the amount
\* that were fixed when it was accepted, whatever fails, is retried or dropped.
THEOREM StargateHonours ==
  Spec => Promises!Init /\ [][Promises!Next]_Promises!promiseVars
<1>1. Init => OriginsOK /\ Promises!Init
  <2> SUFFICES ASSUME Init PROVE OriginsOK /\ Promises!Init
    OBVIOUS
  <2>1. Waiting = {}
    <3>1. /\ channel = [k \in Channel |-> <<>>] /\ revertLookup = {} /\ dropped = {}
      BY DEF Init
    <3>2. InFlight = {}
      BY <3>1 DEF InFlight
    <3> QED BY <3>1, <3>2 DEF Outstanding, Waiting
  <2>2. settled = [id \in TransferId |-> <<>>]
    BY DEF Init
  <2> QED BY <2>1, <2>2 DEF OriginsOK, Promises!Init
<1>2. StargateInv /\ StargateInv' /\ OriginsOK /\ [Next]_vars =>
        OriginsOK' /\ [Promises!Next]_Promises!promiseVars
  BY NextHonours DEF Honoured
<1> QED BY <1>1, <1>2, StargateInvariant, PTL DEF Spec
=============================================================================
