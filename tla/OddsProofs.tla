----------------------------- MODULE OddsProofs -----------------------------
(***************************************************************************)
(* Proofs about OddsArithmetic and OddsPipeline, for every probability the *)
(* normalisers can produce, every stake, and every number of messages,     *)
(* failures and restarts.                                                  *)
(***************************************************************************)
EXTENDS OddsPipeline, TLAPS, SequenceTheorems, WellFoundedInduction

-----------------------------------------------------------------------------
(***************************************************************************)
(* The arithmetic.                                                         *)
(***************************************************************************)

\* A rounding is off by one half at most.
LEMMA RoundingFacts ==
    ASSUME NEW n \in Nat, NEW d \in Nat \ {0}, NEW r \in Roundings(n, d)
    PROVE  r \in Nat /\ d * r \in Nat /\ 2 * (d * r) <= 2 * n + d /\ 2 * n <= 2 * (d * r) + d
<1>1. n \div d \in Nat
  OBVIOUS
<1>2. r \in Nat /\ 2 * d * r <= 2 * n + d /\ 2 * n <= 2 * d * r + d
  BY <1>1 DEF Roundings
<1>3. d * r \in Nat /\ 2 * d * r = 2 * (d * r)
  BY <1>2
<1> QED
  BY <1>2, <1>3

\* Products of natural numbers are monotonic.
LEMMA Scale ==
    ASSUME NEW f \in Nat, NEW g \in Nat, NEW m \in Nat, NEW n \in Nat, f <= g, m <= n
    PROVE  f * m <= g * n /\ f * m \in Nat /\ g * n \in Nat
<1>1. f * m \in Nat /\ g * n \in Nat /\ f * n \in Nat
  OBVIOUS
<1>2. f * m <= f * n
  OBVIOUS
<1>3. f * n <= g * n
  OBVIOUS
<1> QED
  BY <1>1, <1>2, <1>3

\* A factor that is not zero may be cancelled.
LEMMA Cancel ==
    ASSUME NEW d \in Nat \ {0}, NEW x \in Int, NEW y \in Int, d * x <= d * y
    PROVE  x <= y
<1> SUFFICES ASSUME y + 1 <= x PROVE FALSE
  OBVIOUS
<1>1. d * (x - y) >= d
  OBVIOUS
<1>2. d * (x - y) = d * x - d * y
  OBVIOUS
<1> QED
  BY <1>1, <1>2

\* An underdog's price: the profit n/d is 100 per cent or more.
LEMMA PlusFaithful ==
    ASSUME NEW n \in Nat, NEW d \in Nat \ {0}, n >= 100 * d,
           NEW r \in Nat, 2 * (d * r) <= 200 * n + d, 200 * n <= 2 * (d * r) + d,
           NEW a \in Roundings(n, d)
    PROVE  a >= 100 /\ r > 0 /\ 50 * (r - 100 * a) <= r /\ 50 * (100 * a - r) <= r
<1>1. a \in Nat /\ d * a \in Nat /\ 2 * (d * a) <= 2 * n + d /\ 2 * n <= 2 * (d * a) + d
  BY RoundingFacts
<1>2. d * r \in Nat
  OBVIOUS
<1>3. a >= 100
  <2>1. d * 199 <= d * (2 * a)
    <3>1. d * (2 * a) = 2 * (d * a)
      BY <1>1
    <3> QED
      BY <1>1, <3>1
  <2>2. 199 <= 2 * a
    BY <1>1, <2>1, Cancel
  <2> QED
    BY <1>1, <2>2
<1>4. r >= 9999
  <2>1. d * 19999 <= d * (2 * r)
    <3>1. d * (2 * r) = 2 * (d * r)
      OBVIOUS
    <3> QED
      BY <1>2, <3>1
  <2>2. 19999 <= 2 * r
    BY <2>1, Cancel
  <2> QED
    BY <2>2
<1>5. 2 * (r - 100 * a) <= 101
  <2>1. d * (2 * (r - 100 * a)) = 2 * (d * r) - 200 * (d * a)
    BY <1>1
  <2>2. d * (2 * (r - 100 * a)) <= d * 101
    BY <1>1, <1>2, <2>1
  <2> QED
    BY <1>1, <2>2, Cancel
<1>6. 2 * (100 * a - r) <= 101
  <2>1. d * (2 * (100 * a - r)) = 200 * (d * a) - 2 * (d * r)
    BY <1>1
  <2>2. d * (2 * (100 * a - r)) <= d * 101
    BY <1>1, <1>2, <2>1
  <2> QED
    BY <1>1, <2>2, Cancel
<1> QED
  BY <1>1, <1>3, <1>4, <1>5, <1>6

\* A favourite's price, down to a profit of 0.48 per cent.
LEMMA MinusFaithful ==
    ASSUME NEW n \in Nat \ {0}, NEW d \in Nat \ {0}, n <= 100 * d, 100 * n >= 48 * d,
           NEW r \in Nat, 2 * (d * r) <= 200 * n + d, 200 * n <= 2 * (d * r) + d,
           NEW A \in Roundings(10000 * d, n)
    PROVE  /\ A \in Nat /\ A >= 100 /\ r > 0
           /\ 50 * (r * A - 1000000) <= 1000000 /\ 50 * (1000000 - r * A) <= 1000000
<1>1. A \in Nat /\ n * A \in Nat /\ 2 * (n * A) <= 20000 * d + n /\ 20000 * d <= 2 * (n * A) + n
  <2>1. 10000 * d \in Nat
    OBVIOUS
  <2> QED
    BY <2>1, RoundingFacts
<1>2. d * r \in Nat
  OBVIOUS
<1>3. A >= 100
  <2>1. n * 199 <= n * (2 * A)
    <3>1. n * (2 * A) = 2 * (n * A)
      BY <1>1
    <3> QED
      BY <1>1, <3>1
  <2>2. 199 <= 2 * A
    BY <1>1, <2>1, Cancel
  <2> QED
    BY <1>1, <2>2
<1>4. A <= 20834
  <2>1. n * (96 * A) <= n * 2000048
    <3>1. n * (96 * A) = 96 * (n * A)
      BY <1>1
    <3> QED
      BY <1>1, <3>1
  <2>2. 96 * A <= 2000048
    BY <1>1, <2>1, Cancel
  <2> QED
    BY <1>1, <2>2
<1>5. r > 0
  <2>1. d * 95 <= d * (2 * r)
    <3>1. d * (2 * r) = 2 * (d * r)
      OBVIOUS
    <3> QED
      BY <1>2, <3>1
  <2>2. 95 <= 2 * r
    BY <2>1, Cancel
  <2> QED
    BY <2>2
<1> DEFINE x == d * r
           y == n * A
           z == d * A
           P == r * A
<1>6. /\ z \in Nat /\ P \in Nat /\ x * A = d * P
      /\ (200 * n + d) * A = 200 * y + z /\ (2 * x + d) * A = 2 * (x * A) + z
      /\ (2 * x) * A = 2 * (x * A) /\ (200 * n) * A = 200 * y
  BY <1>1
<1>7. z <= d * 20834
  BY <1>1, <1>4, Scale
<1>8. 2 * (d * P) <= 200 * y + z
  <2>1. (2 * x) * A <= (200 * n + d) * A
    BY <1>1, <1>2, Scale
  <2> QED
    BY <1>6, <2>1
<1>9. 200 * y <= 2 * (d * P) + z
  <2>1. (200 * n) * A <= (2 * x + d) * A
    BY <1>1, <1>2, Scale
  <2> QED
    BY <1>6, <2>1
<1>10. d * P \in Nat /\ y \in Nat
  BY <1>1, <1>6
<1> HIDE DEF x, y, z, P
<1>11. 2 * y <= 20000 * d + n /\ 20000 * d <= 2 * y + n
  BY <1>1 DEF y
<1>12. 2 * P <= 2030834
  <2>1. d * (2 * P) = 2 * (d * P)
    BY <1>6
  <2>2. d * (2 * P) <= d * 2030834
    BY <1>6, <1>7, <1>8, <1>10, <1>11, <2>1
  <2> QED
    BY <1>6, <2>2, Cancel
<1>13. 1969166 <= 2 * P
  <2>1. d * (2 * P) = 2 * (d * P)
    BY <1>6
  <2>2. d * 1969166 <= d * (2 * P)
    BY <1>6, <1>7, <1>9, <1>10, <1>11, <2>1
  <2> QED
    BY <1>6, <2>2, Cancel
<1>14. 50 * (P - 1000000) <= 1000000 /\ 50 * (1000000 - P) <= 1000000
  BY <1>6, <1>12, <1>13
<1> QED
  BY <1>1, <1>3, <1>5, <1>14 DEF P

\* The two numbers of a row are one price: the column rounds the profit n/d, and the
\* American price is of the unrounded one (service.go:244, 357, 468-476).
LEMMA OfferFaithful ==
    ASSUME NEW n \in Nat \ {0}, NEW d \in Nat \ {0}, 100 * n >= 48 * d,
           NEW r \in Nat, 2 * (d * r) <= 200 * n + d, 200 * n <= 2 * (d * r) + d,
           NEW a \in Americans(n, d)
    PROVE  SamePrice(r, a) /\ a \in Int
<1>1. CASE n >= 100 * d /\ a \in Roundings(n, d)
  <2>1. a >= 100 /\ r > 0 /\ 50 * (r - 100 * a) <= r /\ 50 * (100 * a - r) <= r
    BY <1>1, PlusFaithful
  <2>2. a \in Nat
    BY <1>1, RoundingFacts
  <2> QED
    BY <2>1, <2>2 DEF SamePrice
<1>2. ASSUME n <= 100 * d, NEW A \in Roundings(10000 * d, n), a = -A PROVE SamePrice(r, a) /\ a \in Int
  <2>1. /\ A \in Nat /\ A >= 100 /\ r > 0
        /\ 50 * (r * A - 1000000) <= 1000000 /\ 50 * (1000000 - r * A) <= 1000000
    BY <1>2, MinusFaithful
  <2>2. a \in Int /\ a <= -100 /\ -a = A
    BY <1>2, <2>1
  <2>3. r * A \in Nat
    BY <2>1
  <2>4. 50 * (r * (-a) - 1000000) <= 1000000 /\ 50 * (1000000 - r * (-a)) <= 1000000
    BY <2>1, <2>2, <2>3
  <2> QED
    BY <2>1, <2>2, <2>4 DEF SamePrice
<1> QED
  BY <1>1, <1>2 DEF Americans

\* The probabilities clampProb leaves, and the vigs.
Clamped == 2..98
VigValues == {110, 115}

\* What every price that is offered is.
Fair(o) ==
    /\ o.decimal \in Nat /\ o.american \in Int /\ o.decimal >= 10049
    /\ SamePrice(o.decimal - 10000, o.american)

LEMMA OffersFacts ==
    ASSUME NEW R, NEW A, NEW o \in Offers(R, A)
    PROVE  \E r \in R : o.decimal = 10000 + r /\ o.american \in A
BY DEF Offers

\* A price computed from probabilities (ComputeMarketOdds, service.go:324-395).
LEMMA MarketFair ==
    ASSUME NEW p \in Clamped, NEW q \in Clamped, NEW k \in VigValues, NEW o \in MarketOffers(p, q, k)
    PROVE  Fair(o)
<1> USE DEF Clamped, VigValues
<1> DEFINE n == 10000 * q
           d == k * p
<1>1. n \in Nat \ {0} /\ d \in Nat \ {0} /\ d <= 11270 /\ n >= 20000 /\ 1000000 * q = 100 * n
  OBVIOUS
<1>2. PICK r \in Roundings(100 * n, d) : o.decimal = 10000 + r /\ o.american \in Americans(n, d)
  BY <1>1, OffersFacts DEF MarketOffers
<1> HIDE DEF n, d
<1>3. r \in Nat /\ d * r \in Nat /\ 2 * (d * r) <= 200 * n + d /\ 200 * n <= 2 * (d * r) + d
  <2>1. 100 * n \in Nat
    BY <1>1
  <2> QED
    BY <1>1, <1>2, <2>1, RoundingFacts
<1>4. 100 * n >= 48 * d
  BY <1>1
<1>5. SamePrice(r, o.american) /\ o.american \in Int
  BY <1>1, <1>2, <1>3, <1>4, OfferFaithful
<1>6. r >= 49
  <2>1. d * 98 <= d * (2 * r)
    <3>1. d * (2 * r) = 2 * (d * r)
      BY <1>1, <1>3
    <3> QED
      BY <1>1, <1>3, <3>1
  <2>2. 98 <= 2 * r
    BY <1>1, <1>3, <2>1, Cancel
  <2> QED
    BY <1>3, <2>2
<1>7. o.decimal - 10000 = r
  BY <1>2, <1>3
<1> QED
  BY <1>2, <1>3, <1>5, <1>6, <1>7 DEF Fair

\* The profits of the two sides stay below the square of the vig, rounding included.
LEMMA BookMargin ==
    ASSUME NEW p \in Clamped, NEW q \in Clamped, NEW k \in VigValues,
           NEW o \in MarketOffers(p, q, k), NEW against \in MarketOffers(q, p, k)
    PROVE  (o.decimal - 10000) * (against.decimal - 10000) < 83000000
<1> USE DEF Clamped, VigValues
<1>1. k * p \in Nat \ {0} /\ k * q \in Nat \ {0} /\ 1000000 * p \in Nat /\ 1000000 * q \in Nat
  OBVIOUS
<1>a. PICK m \in Roundings(1000000 * q, k * p) : o.decimal = 10000 + m
  BY OffersFacts DEF MarketOffers
<1>b. PICK n \in Roundings(1000000 * p, k * q) : against.decimal = 10000 + n
  BY OffersFacts DEF MarketOffers
<1>2. m \in Nat /\ 2 * (k * p) * m <= 2 * (1000000 * q) + k * p
  <2>1. m \in Nat /\ (k * p) * m \in Nat /\ 2 * ((k * p) * m) <= 2 * (1000000 * q) + k * p
    BY <1>1, <1>a, RoundingFacts
  <2>2. 2 * (k * p) * m = 2 * ((k * p) * m)
    BY <1>1, <2>1
  <2> QED
    BY <2>1, <2>2
<1>3. n \in Nat /\ 2 * (k * q) * n <= 2 * (1000000 * p) + k * q
  <2>1. n \in Nat /\ (k * q) * n \in Nat /\ 2 * ((k * q) * n) <= 2 * (1000000 * p) + k * q
    BY <1>1, <1>b, RoundingFacts
  <2>2. 2 * (k * q) * n = 2 * ((k * q) * n)
    BY <1>1, <2>1
  <2> QED
    BY <2>1, <2>2
<1>4. o.decimal - 10000 = m /\ against.decimal - 10000 = n
  BY <1>a, <1>b, <1>2, <1>3
<1>5. m * n < 83000000
  <2> DEFINE X == 2000000 * q + k * p
             Y == 2000000 * p + k * q
             t == p * q
  <2>1. t \in Nat /\ t >= 1 /\ X \in Nat /\ Y \in Nat /\ m * n \in Nat
    BY <1>2, <1>3
  <2>2. (2 * (k * p) * m) * (2 * (k * q) * n) <= X * Y
    <3>1. 2 * (k * p) * m \in Nat /\ 2 * (k * q) * n \in Nat
      BY <1>1, <1>2, <1>3
    <3>2. 2 * (k * p) * m <= X /\ 2 * (k * q) * n <= Y
      BY <1>1, <1>2, <1>3
    <3> HIDE DEF X, Y
    <3> QED
      BY <2>1, <3>1, <3>2, Scale
  <2>3. (2 * (k * p) * m) * (2 * (k * q) * n) = t * (4 * k * k * (m * n))
    BY <1>2, <1>3
  <2>4. X * Y = 4000000000000 * t + 2000000 * k * (p * p + q * q) + k * k * t
    OBVIOUS
  <2>5. p * p + q * q <= 50 * t
    <3>1. p <= 49 * q /\ q <= 49 * p
      OBVIOUS
    <3>2. CASE p <= q
      <4>1. p * p <= p * q
        BY <3>2, Scale
      <4>2. q * q <= (49 * p) * q
        BY <3>1, Scale
      <4>3. (49 * p) * q = 49 * (p * q)
        OBVIOUS
      <4> QED
        BY <4>1, <4>2, <4>3
    <3>3. CASE q <= p
      <4>1. q * q <= p * q
        BY <3>3, Scale
      <4>2. p * p <= p * (49 * q)
        BY <3>1, Scale
      <4>3. p * (49 * q) = 49 * (p * q)
        OBVIOUS
      <4> QED
        BY <4>1, <4>2, <4>3
    <3> QED
      BY <3>2, <3>3
  <2> HIDE DEF X, Y, t
  <2>6. X * Y <= t * (4000000000000 + 100000000 * k + k * k)
    <3>1. CASE k = 110
      BY <2>1, <2>4, <2>5, <3>1
    <3>2. CASE k = 115
      BY <2>1, <2>4, <2>5, <3>2
    <3> QED
      BY <3>1, <3>2
  <2>7. t * (4 * k * k * (m * n)) <= t * (4000000000000 + 100000000 * k + k * k)
    BY <2>1, <2>2, <2>3, <2>6
  <2>8. 4 * k * k * (m * n) <= 4000000000000 + 100000000 * k + k * k
    <3> DEFINE u == 4 * k * k * (m * n)
               v == 4000000000000 + 100000000 * k + k * k
    <3>1. u \in Nat /\ v \in Nat
      BY <2>1
    <3>2. t * u <= t * v
      BY <2>7
    <3> HIDE DEF u, v
    <3>3. u > v => t * u > t * v
      BY <2>1, <3>1
    <3>4. u <= v
      BY <2>1, <3>1, <3>2, <3>3
    <3> QED
      BY <3>4 DEF u, v
  <2>9. CASE k = 110
    BY <2>1, <2>8, <2>9
  <2>10. CASE k = 115
    BY <2>1, <2>8, <2>10
  <2> QED
    BY <2>9, <2>10
<1> QED
  BY <1>2, <1>3, <1>4, <1>5

\* A bet shortens a price and never takes the whole profit: from 1.0049 rounding leads
\* back to 1.0049 (adjustForLiability, service.go:455-461).
LEMMA AdjustFair ==
    ASSUME NEW dec \in Nat, dec >= 10049, NEW o \in AdjustedOffers(dec)
    PROVE  Fair(o)
<1> DEFINE n == 99 * (dec - 10000)
<1>1. n \in Nat \ {0} /\ n >= 4851
  OBVIOUS
<1>2. PICK r \in Roundings(n, 100) : o.decimal = 10000 + r /\ o.american \in Americans(n, 10000)
  BY OffersFacts DEF AdjustedOffers
<1> HIDE DEF n
<1>3. r \in Nat /\ 2 * (100 * r) <= 2 * n + 100 /\ 2 * n <= 2 * (100 * r) + 100
  BY <1>1, <1>2, RoundingFacts
<1>4. 2 * (10000 * r) <= 200 * n + 10000 /\ 200 * n <= 2 * (10000 * r) + 10000
  BY <1>1, <1>3
<1>5. SamePrice(r, o.american) /\ o.american \in Int
  BY <1>1, <1>2, <1>3, <1>4, OfferFaithful
<1>6. r >= 49
  BY <1>1, <1>3
<1>7. o.decimal - 10000 = r
  BY <1>2, <1>3
<1> QED
  BY <1>2, <1>3, <1>5, <1>6, <1>7 DEF Fair

-----------------------------------------------------------------------------
(***************************************************************************)
(* The inductive invariant: Odds Management, the cache updater and the lag *)
(* checker each have their part.                                           *)
(***************************************************************************)

Rows(log) == {log[i] : i \in DOMAIN log}

BetMessage == [sel : Sels, stake : Nat, parses : BOOLEAN]

ManagerTypes ==
    /\ feedLog \in Seq(FeedTypes) /\ betLog \in Seq(BetMessage)
    /\ cg \in [Workers -> Claim] /\ work \in [Workers -> Seq(PriceRow)]
    /\ at \in [Workers -> {"idle", "write", "publish", "commit"}]
    /\ odds \in Seq(PriceRow) /\ updates \in Seq(PriceRow)
    /\ faults \in Seq(Faults)

\* A handler has prices to write exactly between its query and its last event, all of
\* the message at work.
WorkOrder ==
    \A w \in Workers :
        /\ work[w] # <<>> <=> at[w] \in {"write", "publish"}
        /\ \A r \in Rows(work[w]) : r.src = <<w, cg[w].next>>

\* Every price is fair, and one made for a bet is of the bet's selection.
Sound(r) ==
    /\ Fair(r)
    /\ r.src[1] = "bets" =>
          r.src[2] < Len(betLog) /\ betLog[r.src[2] + 1].sel = r.sel

RowsSound ==
    /\ \A r \in Rows(odds) : Sound(r)
    /\ \A w \in Workers : \A r \in Rows(work[w]) : Sound(r)

Tried(w) == cg[w].handled \cup cg[w].failed

TriedBelow(w) ==
    /\ \A k \in 0..(cg[w].next - 1) : k \in Tried(w)
    /\ \A k \in 0..(cg[w].committed - 1) : k \in Tried(w)
    /\ cg[w].committed = 0 \/ cg[w].committed - 1 \in cg[w].handled

\* Without a crash no message is tried twice: what a message left in the table is
\* published, or its handler failed, or it is about to be published.
Settles(r) ==
    LET w == r.src[1]
        n == r.src[2]
    IN /\ n <= cg[w].next /\ (n = cg[w].next => at[w] # "idle")
       /\ \/ r \in Rows(updates)
          \/ n \in cg[w].failed
          \/ n = cg[w].next /\ at[w] = "publish" /\ Head(work[w]) = r

\* The two prices of one signal.
Margin(r, t) ==
    r.sel = "s0" /\ t.sel = "s1" /\ r.src = t.src =>
        (r.decimal - 10000) * (t.decimal - 10000) < 83000000

OnceEach ==
    /\ \A r \in Rows(odds) : Settles(r)
    /\ \A w \in Workers :
          /\ \A k \in Tried(w) : k < cg[w].next
          /\ cg[w].handled \cap cg[w].failed = {}
    /\ LET rows == Rows(odds) \cup Rows(work["feed"])
       IN \A r, t \in rows : r.src[1] = "feed" => Margin(r, t)

ManagerInv ==
    /\ ManagerTypes /\ WorkOrder /\ RowsSound
    /\ \A w \in Workers : TriedBelow(w)
    /\ ~Crashed => OnceEach

\* The cache never falls behind what the updater has gone through, failures apart.
UpdaterInv ==
    /\ cache_cg \in Claim /\ cache \in [Sels -> Nat] /\ cache_at \in {"idle", "mark"}
    /\ cache_cg.next <= Len(updates) /\ cache_cg.committed <= cache_cg.next
    /\ \A s \in Sels : /\ cache[s] <= Len(updates)
                       /\ cache[s] # 0 => updates[cache[s]].sel = s
    /\ \A k \in 1..cache_cg.next :
          LET s == updates[k].sel
          IN cache[s] = 0 \/ cache[s] >= k \/ k - 1 \in cache_cg.failed
    /\ cache_at = "mark" => /\ cache_cg.next < Len(updates)
                           /\ LET s == updates[cache_cg.next + 1].sel
                              IN cache[s] = 0 \/ cache[s] >= cache_cg.next + 1

CheckerInv ==
    /\ lag \in [at : {"idle", "committed"}, latest : Nat]
    /\ lagCache \in [lag : Nat, covers : Nat \cup {-1}]
    /\ NotLaggingIsTried

PipelineInv == ManagerInv /\ UpdaterInv /\ CheckerInv

-----------------------------------------------------------------------------
(***************************************************************************)
(* Facts about logs and claims.                                            *)
(***************************************************************************)

\* A non-empty set of natural numbers has a least element.
LEMMA LeastNatural ==
    ASSUME NEW S, S \subseteq Nat, S # {}
    PROVE  \E m \in S : \A k \in S : m <= k
<1>1. PICK m \in S : \A k \in S : ~(<<k, m>> \in OpToRel(<, Nat))
  BY WFMin, NatLessThanWellFounded, Zenon
<1>2. \A k \in S : ~(k < m)
  BY <1>1, Zenon DEF OpToRel
<1>3. \A k \in S : m <= k
  BY <1>2
<1> QED
  BY <1>3

\* A non-empty set of indices has a greatest element.
LEMMA GreatestIndex ==
    ASSUME NEW n \in Nat, NEW S, S \subseteq 1..n, S # {}
    PROVE  \E m \in S : \A k \in S : k <= m
<1> DEFINE T == {n - k : k \in S}
<1>1. T \subseteq Nat
  OBVIOUS
<1>2. T # {}
  OBVIOUS
<1> HIDE DEF T
<1>3. PICK t \in T : \A u \in T : t <= u
  BY <1>1, <1>2, LeastNatural
<1>4. PICK m \in S : t = n - m
  BY DEF T
<1>5. ASSUME NEW k \in S PROVE k <= m
  <2>1. n - k \in T
    BY <1>5 DEF T
  <2>2. n - m <= n - k /\ k \in Int /\ m \in Int
    BY <1>3, <1>4, <2>1
  <2> QED
    BY <2>2
<1> QED
  BY <1>5

\* What a log holds ...
LEMMA RowsFacts ==
    ASSUME NEW S, NEW log \in Seq(S)
    PROVE  /\ \A r \in Rows(log) : r \in S
           /\ Len(log) \in Nat /\ DOMAIN log = 1..Len(log)
           /\ \A i \in 1..Len(log) : log[i] \in Rows(log) /\ log[i] \in S
<1>1. Len(log) \in Nat /\ DOMAIN log = 1..Len(log)
  OBVIOUS
<1>2. \A i \in 1..Len(log) : log[i] \in S
  BY ElementOfSeq
<1> QED
  BY <1>1, <1>2 DEF Rows

\* ... and after an Append or a Tail.
LEMMA RowsAppend ==
    ASSUME NEW S, NEW log \in Seq(S), NEW e \in S
    PROVE  /\ Append(log, e) \in Seq(S) /\ Len(Append(log, e)) = Len(log) + 1
           /\ \A i \in 1..Len(log) : Append(log, e)[i] = log[i]
           /\ Append(log, e)[Len(log) + 1] = e
           /\ Rows(Append(log, e)) = Rows(log) \cup {e}
<1>1. /\ Append(log, e) \in Seq(S) /\ Len(Append(log, e)) = Len(log) + 1
      /\ \A i \in 1..Len(log) : Append(log, e)[i] = log[i]
      /\ Append(log, e)[Len(log) + 1] = e
  OBVIOUS
<1>2. Len(log) \in Nat /\ DOMAIN log = 1..Len(log) /\ DOMAIN Append(log, e) = 1..(Len(log) + 1)
  OBVIOUS
<1>3. Rows(Append(log, e)) = Rows(log) \cup {e}
  BY <1>1, <1>2 DEF Rows
<1> QED
  BY <1>1, <1>3

LEMMA RowsTail ==
    ASSUME NEW S, NEW log \in Seq(S), log # <<>>
    PROVE  /\ Head(log) \in S /\ Head(log) \in Rows(log)
           /\ Tail(log) \in Seq(S) /\ Rows(Tail(log)) \subseteq Rows(log)
           /\ Len(log) = 1 <=> Tail(log) = <<>>
<1>1. Len(log) \in Nat \ {0} /\ DOMAIN log = 1..Len(log)
  BY EmptySeq
<1>2. /\ Head(log) \in S /\ Tail(log) \in Seq(S) /\ Len(Tail(log)) = Len(log) - 1
      /\ \A i \in 1..Len(Tail(log)) : Tail(log)[i] = log[i + 1]
  BY HeadTailProperties
<1>3. Head(log) \in Rows(log)
  BY <1>1 DEF Rows
<1>4. DOMAIN Tail(log) = 1..(Len(log) - 1)
  BY <1>2
<1>5. Rows(Tail(log)) \subseteq Rows(log)
  BY <1>1, <1>2, <1>4 DEF Rows
<1>6. Len(log) = 1 <=> Tail(log) = <<>>
  <2>1. Tail(log) # <<>> => Len(Tail(log)) # 0
    BY <1>2, EmptySeq
  <2>2. Tail(log) = <<>> => Len(Tail(log)) = 0
    BY EmptySeq
  <2> QED
    BY <1>1, <1>2, <2>1, <2>2
<1> QED
  BY <1>2, <1>3, <1>5, <1>6

LEMMA RowsEmpty == Rows(<<>>) = {}
BY DEF Rows

\* The claim's operations.
LEMMA ClaimFacts ==
    ASSUME NEW c \in Claim
    PROVE  /\ c.next \in Nat /\ c.committed \in Nat /\ c.handled \subseteq Nat /\ c.failed \subseteq Nat
           /\ \A d \in {Handled(c), HandledUncommitted(c)} :
                 /\ d \in Claim /\ d.next = c.next + 1 /\ d.committed \in {c.committed, c.next + 1}
                 /\ d.handled = c.handled \cup {c.next} /\ d.failed = c.failed
           /\ LET d == Skipped(c)
              IN /\ d \in Claim /\ d.next = c.next + 1 /\ d.committed = c.committed
                 /\ d.handled = c.handled /\ d.failed = c.failed \cup {c.next}
           /\ LET d == Restarted(c)
              IN /\ d \in Claim /\ d.next = c.committed /\ d.committed = c.committed
                 /\ d.handled = c.handled /\ d.failed = c.failed
<1>1. c.next \in Nat /\ c.committed \in Nat /\ c.handled \subseteq Nat /\ c.failed \subseteq Nat
  BY DEF Claim
<1>2. HandledUncommitted(c) = [next |-> c.next + 1, committed |-> c.committed,
                               handled |-> c.handled \cup {c.next}, failed |-> c.failed]
  BY DEF Handled, HandledUncommitted
<1>3. Restarted(c) = [next |-> c.committed, committed |-> c.committed,
                      handled |-> c.handled, failed |-> c.failed]
  BY DEF Claim, Restarted
<1> QED
  BY <1>1, <1>2, <1>3 DEF Claim, Handled, Skipped

\* What a claim does in a step keeps the tried messages below its offsets, and no message
\* becomes untried.
Lasting(w) == cg[w].handled \subseteq cg'[w].handled /\ cg[w].failed \subseteq cg'[w].failed

Moved(c, d) == d \in {c, Handled(c), HandledUncommitted(c), Skipped(c), Restarted(c)}

LEMMA TriedKeeps ==
    ASSUME cg \in [Workers -> Claim], cg' \in [Workers -> Claim],
           NEW w \in Workers, TriedBelow(w), Moved(cg[w], cg'[w])
    PROVE  TriedBelow(w)' /\ Lasting(w)
<1> DEFINE c == cg[w]
           d == cg'[w]
<1>1. c \in Claim
  OBVIOUS
<1>2. c.next \in Nat /\ c.committed \in Nat
  BY <1>1, ClaimFacts
<1>3. /\ \/ d.next = c.next /\ d.committed = c.committed /\ d.handled \cup d.failed = c.handled \cup c.failed
         \/ /\ d.next = c.next + 1 /\ d.committed \in {c.committed, c.next + 1}
            /\ d.handled \cup d.failed = c.handled \cup c.failed \cup {c.next}
         \/ d.next = c.committed /\ d.committed = c.committed /\ d.handled \cup d.failed = c.handled \cup c.failed
      /\ c.handled \subseteq d.handled /\ c.failed \subseteq d.failed
      /\ d.committed # c.committed => d.committed = c.next + 1 /\ c.next \in d.handled
  BY <1>1, ClaimFacts DEF Moved
<1>4. Tried(w)' = d.handled \cup d.failed /\ Tried(w) = c.handled \cup c.failed
  BY DEF Tried
<1>5. d.committed = 0 \/ d.committed - 1 \in d.handled
  BY <1>2, <1>3 DEF TriedBelow
<1>6. Lasting(w)
  BY <1>3 DEF Lasting
<1> QED
  BY <1>2, <1>3, <1>4, <1>5, <1>6 DEF TriedBelow

-----------------------------------------------------------------------------
(***************************************************************************)
(* Odds Management's steps.                                                *)
(***************************************************************************)

\* A price that is written knows its worker and its message.
LEMMA RowTypes ==
    ASSUME NEW r \in PriceRow
    PROVE  r.sel \in Sels /\ r.decimal \in Nat /\ r.american \in Int /\ r.src[1] \in Workers /\ r.src[2] \in Nat
BY DEF PriceRow

\* A crash is not forgotten.
LEMMA CrashStays ==
    ASSUME faults \in Seq(Faults), NEW kind, Fails(kind) \/ UNCHANGED faults
    PROVE  /\ faults' \in Seq(Faults) /\ (Crashed => Crashed')
           /\ Fails("crash") => Crashed'
<1>1. CASE Fails(kind)
  <2>1. kind \in Faults /\ faults' = Append(faults, kind)
    BY <1>1 DEF Fails
  <2>2. /\ faults' \in Seq(Faults) /\ DOMAIN faults' = 1..(Len(faults) + 1) /\ Len(faults) \in Nat
        /\ \A i \in DOMAIN faults : i \in DOMAIN faults' /\ faults'[i] = faults[i]
        /\ faults'[Len(faults) + 1] = kind
    BY <2>1
  <2>3. Fails("crash") => faults'[Len(faults) + 1] = "crash"
    BY DEF Fails
  <2> QED
    BY <2>2, <2>3 DEF Crashed
<1>2. CASE UNCHANGED faults
  <2>1. ~Fails("crash")
    BY <1>2 DEF Fails
  <2> QED
    BY <1>2, <2>1 DEF Crashed
<1> QED
  BY <1>1, <1>2

\* Steps of others: the logs grow, the table and the claims are as they were.
LEMMA OthersKeep ==
    ASSUME ManagerInv, UNCHANGED manager, faults' \in Seq(Faults), Crashed => Crashed',
           feedLog' \in Seq(FeedTypes), betLog' \in Seq(BetMessage),
           Len(betLog) <= Len(betLog'), \A i \in 1..Len(betLog) : betLog'[i] = betLog[i]
    PROVE  ManagerInv'
<1>1. ManagerTypes'
  BY DEF ManagerInv, ManagerTypes, manager
<1>2. WorkOrder' /\ \A w \in Workers : TriedBelow(w)'
  BY DEF ManagerInv, manager, WorkOrder, TriedBelow, Tried, Rows
<1>3. Len(betLog) \in Nat /\ Len(betLog') \in Nat
  BY DEF ManagerInv, ManagerTypes
<1>4. ASSUME NEW r \in PriceRow, Sound(r) PROVE Sound(r)'
  <2>1. r.src[2] \in Nat
    BY RowTypes
  <2>2. r.src[1] = "bets" => r.src[2] + 1 \in 1..Len(betLog)
    BY <1>3, <1>4, <2>1 DEF Sound
  <2> QED
    BY <1>3, <1>4, <2>1, <2>2 DEF Sound
<1>5. /\ Rows(odds)' = Rows(odds) /\ \A r \in Rows(odds) : r \in PriceRow
      /\ \A w \in Workers : Rows(work[w])' = Rows(work[w]) /\ \A r \in Rows(work[w]) : r \in PriceRow
  BY RowsFacts DEF ManagerInv, ManagerTypes, manager, Rows
<1>6. RowsSound'
  BY <1>4, <1>5 DEF ManagerInv, RowsSound
<1>7. OnceEach => OnceEach'
  BY DEF manager, OnceEach, Settles, Margin, Tried, Rows
<1> QED
  BY <1>1, <1>2, <1>6, <1>7 DEF ManagerInv

\* The rows are typed.
LEMMA RowsTyped ==
    ASSUME ManagerTypes
    PROVE  /\ \A r \in Rows(odds) \cup Rows(updates) : r \in PriceRow
           /\ \A w \in Workers : \A r \in Rows(work[w]) : r \in PriceRow
           /\ \A w \in Workers : cg[w] \in Claim /\ cg[w].next \in Nat
           /\ "feed" \in Workers /\ "bets" \in Workers
<1>1. \A w \in Workers : cg[w] \in Claim /\ work[w] \in Seq(PriceRow)
  BY DEF ManagerTypes
<1>2. \A w \in Workers : cg[w].next \in Nat
  BY <1>1, ClaimFacts
<1> QED
  BY <1>1, <1>2, RowsFacts DEF ManagerTypes, Workers

\* A handler has computed its prices: they are the first of its message.
LEMMA PreparesKeeps ==
    ASSUME ManagerInv, NEW w \in Workers, NEW prices \in Seq(PriceRow),
           at[w] = "idle", Prepares(w, prices), UNCHANGED feedSide,
           faults' \in Seq(Faults), Crashed => Crashed',
           \A r \in Rows(prices) : r.src = <<w, cg[w].next>> /\ Sound(r),
           w = "feed" => \A r, t \in Rows(prices) : Margin(r, t)
    PROVE  ManagerInv'
<1>1. ManagerTypes /\ WorkOrder /\ RowsSound /\ \A v \in Workers : TriedBelow(v)
  BY DEF ManagerInv
<1>2. /\ UNCHANGED <<feedLog, betLog, cg, odds, updates>>
      /\ work' = [work EXCEPT ![w] = prices]
      /\ at' = [at EXCEPT ![w] = IF prices = <<>> THEN "commit" ELSE "write"]
  BY DEF Prepares, feedSide
<1>3. /\ work'[w] = prices /\ \A v \in Workers \ {w} : work'[v] = work[v] /\ at'[v] = at[v]
      /\ at'[w] = IF prices = <<>> THEN "commit" ELSE "write"
  BY <1>1, <1>2 DEF ManagerTypes
<1>4. ManagerTypes'
  BY <1>1, <1>2 DEF ManagerTypes
<1>5. WorkOrder'
  BY <1>1, <1>2, <1>3 DEF WorkOrder
<1>6. RowsSound'
  BY <1>1, <1>2, <1>3 DEF RowsSound, Sound
<1>7. \A v \in Workers : TriedBelow(v)'
  BY <1>1, <1>2 DEF TriedBelow, Tried
<1>8. ASSUME OnceEach PROVE OnceEach'
  <2>1. ASSUME NEW r \in Rows(odds) PROVE r.src # <<w, cg[w].next>> /\ Settles(r)'
    <3>1. r.src[1] \in Workers /\ Settles(r)
      BY <1>1, <1>8, <2>1, RowsTyped, RowTypes DEF OnceEach
    <3>2. CASE r.src[1] = w
      BY <1>2, <3>1, <3>2 DEF Settles
    <3>3. CASE r.src[1] # w
      BY <1>2, <1>3, <3>1, <3>3 DEF Settles
    <3> QED
      BY <3>2, <3>3
  <2>2. ASSUME NEW r \in Rows(odds) \cup Rows(work'["feed"]), NEW t \in Rows(odds) \cup Rows(work'["feed"]),
               r.src[1] = "feed"
        PROVE  Margin(r, t)
    <3>1. CASE w = "bets"
      BY <1>3, <1>8, <2>2, <3>1, RowsTyped DEF OnceEach, Workers
    <3>2. CASE w = "feed"
      <4>1. CASE r \in Rows(odds) /\ t \in Rows(odds)
        BY <1>8, <2>2, <4>1 DEF OnceEach
      <4>2. CASE r \in Rows(prices) /\ t \in Rows(prices)
        BY <3>2, <4>2
      <4>3. CASE (r \in Rows(odds)) # (t \in Rows(odds)) /\ (r \in Rows(prices)) # (t \in Rows(prices))
        BY <1>2, <2>1, <4>3 DEF Margin
      <4> QED
        BY <1>3, <2>1, <2>2, <3>2, <4>1, <4>2, <4>3
    <3> QED
      BY <3>1, <3>2 DEF Workers
  <2> QED
    BY <1>2, <1>8, <2>1, <2>2 DEF OnceEach, Tried, Margin
<1> QED
  BY <1>4, <1>5, <1>6, <1>7, <1>8 DEF ManagerInv

\* A handler returns an error: what is left of its message counts as failed.
LEMMA ErrsKeeps ==
    ASSUME ManagerInv, NEW w \in Workers, Errs(w), UNCHANGED <<feedSide, odds>>,
           updates' \in Seq(PriceRow), Rows(updates) \subseteq Rows(updates'),
           faults' \in Seq(Faults), Crashed => Crashed'
    PROVE  ManagerInv'
<1>1. ManagerTypes /\ WorkOrder /\ RowsSound /\ \A v \in Workers : TriedBelow(v)
  BY DEF ManagerInv
<1> DEFINE c == cg[w]
<1>2. /\ UNCHANGED <<feedLog, betLog, odds>>
      /\ cg' = [cg EXCEPT ![w] = Skipped(c)]
      /\ work' = [work EXCEPT ![w] = <<>>] /\ at' = [at EXCEPT ![w] = "idle"]
  BY DEF Errs, feedSide
<1>3. /\ c \in Claim /\ c.next \in Nat /\ Skipped(c) \in Claim
      /\ Skipped(c).next = c.next + 1
      /\ Skipped(c).handled = c.handled /\ Skipped(c).failed = c.failed \cup {c.next}
  BY <1>1, ClaimFacts DEF ManagerTypes
<1>4. /\ work'[w] = <<>> /\ cg'[w] = Skipped(c) /\ at'[w] = "idle"
      /\ \A v \in Workers \ {w} : work'[v] = work[v] /\ at'[v] = at[v] /\ cg'[v] = cg[v]
  BY <1>1, <1>2 DEF ManagerTypes
<1>5. <<>> \in Seq(PriceRow)
  BY EmptySeq
<1>6. ManagerTypes'
  BY <1>1, <1>2, <1>3, <1>5 DEF ManagerTypes
<1>7. WorkOrder'
  BY <1>1, <1>4, RowsEmpty DEF WorkOrder
<1>8. RowsSound'
  BY <1>1, <1>2, <1>4, RowsEmpty DEF RowsSound, Sound
<1>9. \A v \in Workers : TriedBelow(v)'
  <2>1. cg' \in [Workers -> Claim] /\ \A v \in Workers : Moved(cg[v], cg'[v])
    BY <1>4, <1>6 DEF ManagerTypes, Moved
  <2> QED
    BY <1>1, <2>1, TriedKeeps DEF ManagerTypes
<1>10. ASSUME OnceEach PROVE OnceEach'
  <2>1. ASSUME NEW r \in Rows(odds) PROVE Settles(r)'
    <3>1. r.src[1] \in Workers /\ r.src[2] \in Nat /\ Settles(r)
      BY <1>1, <1>10, <2>1, RowsTyped, RowTypes DEF OnceEach
    <3>2. CASE r.src[1] = w
      BY <1>3, <1>4, <3>1, <3>2 DEF Settles
    <3>3. CASE r.src[1] # w
      BY <1>2, <1>4, <3>1, <3>3 DEF Settles
    <3> QED
      BY <3>2, <3>3
  <2>2. \A v \in Workers : /\ \A k \in Tried(v)' : k < cg'[v].next
                           /\ cg'[v].handled \cap cg'[v].failed = {}
    <3>1. /\ \A k \in c.handled \cup c.failed : k < c.next /\ k \in Nat
          /\ c.handled \cap c.failed = {} /\ c.next \notin c.handled
      BY <1>3, <1>10, ClaimFacts DEF OnceEach, Tried
    <3>2. \A k \in cg'[w].handled \cup cg'[w].failed : k < cg'[w].next
      BY <1>3, <1>4, <3>1
    <3>3. cg'[w].handled \cap cg'[w].failed = {}
      BY <1>3, <1>4, <3>1
    <3> QED
      BY <1>4, <1>10, <3>2, <3>3 DEF OnceEach, Tried
  <2>3. Rows(work'["feed"]) \subseteq Rows(work["feed"])
    BY <1>1, <1>4, RowsEmpty, RowsTyped
  <2> QED
    BY <1>2, <1>10, <2>1, <2>2, <2>3 DEF OnceEach, Margin
<1> QED
  BY <1>6, <1>7, <1>8, <1>9, <1>10 DEF ManagerInv

\* One price, or two, or none.
OneOrNone(A) == {<<>>} \cup {<<a>> : a \in A}

LEMMA TwoRows ==
    ASSUME NEW S, NEW A, NEW B, A \subseteq S, B \subseteq S, NEW x \in OneOrNone(A), NEW y \in OneOrNone(B)
    PROVE  x \o y \in Seq(S) /\ Rows(x \o y) \subseteq A \cup B
<1>1. x \in Seq(S) /\ y \in Seq(S) /\ Rows(x) \subseteq A /\ Rows(y) \subseteq B
  <2>1. ASSUME NEW e \in S PROVE Rows(<<e>>) = {e} /\ <<e>> \in Seq(S)
    <3>1. DOMAIN <<e>> = {1} /\ <<e>>[1] = e
      OBVIOUS
    <3> QED
      BY <3>1 DEF Rows
  <2>2. <<>> \in Seq(S)
    BY EmptySeq
  <2> QED
    BY <2>1, <2>2, RowsEmpty DEF OneOrNone
<1>2. /\ x \o y \in Seq(S) /\ Len(x \o y) = Len(x) + Len(y) /\ Len(x) \in Nat /\ Len(y) \in Nat
      /\ \A i \in 1..(Len(x) + Len(y)) : (x \o y)[i] = IF i <= Len(x) THEN x[i] ELSE y[i - Len(x)]
  BY <1>1, ConcatProperties
<1>3. DOMAIN (x \o y) = 1..(Len(x) + Len(y)) /\ DOMAIN x = 1..Len(x) /\ DOMAIN y = 1..Len(y)
  BY <1>1, <1>2
<1>4. ASSUME NEW i \in DOMAIN (x \o y) PROVE (x \o y)[i] \in A \cup B
  <2>1. CASE i <= Len(x)
    <3>1. i \in DOMAIN x /\ (x \o y)[i] = x[i]
      BY <1>2, <1>3, <1>4, <2>1
    <3> QED
      BY <1>1, <3>1 DEF Rows
  <2>2. CASE ~(i <= Len(x))
    <3>1. i - Len(x) \in DOMAIN y /\ (x \o y)[i] = y[i - Len(x)]
      BY <1>2, <1>3, <1>4, <2>2
    <3> QED
      BY <1>1, <3>1 DEF Rows
  <2> QED
    BY <2>1, <2>2
<1> QED
  BY <1>2, <1>4 DEF Rows

\* The feed's probabilities are the clamped ones.
LEMMA ProbRange == \A p \in Probs \cup {-1} : p \in Int /\ (p > 0 => p \in 2..98)
<1>1. Probs \subseteq {0} \cup 2..98
  BY PipelineAssumption
<1> QED
  BY <1>1

\* The probabilities of one market give a price for each side, or for one, or none.
LEMMA FeedKeeps ==
    ASSUME ManagerInv, NEW k \in Vigs, NEW prob \in [Sels -> Probs \cup {-1}],
           HandleNormalisedFeed(k, prob)
    PROVE  ManagerInv'
<1>1. ManagerTypes /\ "feed" \in Workers
  BY DEF ManagerInv, Workers
<1>2. /\ at["feed"] = "idle" /\ UNCHANGED feedSide
      /\ Fails("db") \/ UNCHANGED faults
  BY DEF HandleNormalisedFeed
<1>3. faults' \in Seq(Faults) /\ (Crashed => Crashed')
  BY <1>1, <1>2, CrashStays DEF ManagerTypes
<1>4. CASE Errs("feed") /\ UNCHANGED <<odds, updates>>
  <2>1. updates' \in Seq(PriceRow) /\ Rows(updates) \subseteq Rows(updates')
    BY <1>1, <1>4 DEF ManagerTypes
  <2> QED
    BY <1>1, <1>2, <1>3, <1>4, <2>1, ErrsKeeps
<1>5. CASE Prepares("feed", <<>>)
  <2>1. <<>> \in Seq(PriceRow)
    BY EmptySeq
  <2> QED
    BY <1>1, <1>2, <1>3, <1>5, <2>1, RowsEmpty, PreparesKeeps
<1>6. ASSUME \A s \in Sels : prob[s] > 0,
             NEW x \in Quotes("s0", prob, k), NEW y \in Quotes("s1", prob, k), Prepares("feed", x \o y)
      PROVE  ManagerInv'
  <2>1. Other("s0") = "s1" /\ Other("s1") = "s0"
    BY DEF Other, Sels
  <2>2. PICK p \in Clamped, q \in Clamped : prob["s0"] = p /\ prob["s1"] = q
    <3>1. prob["s0"] \in Probs \cup {-1} /\ prob["s1"] \in Probs \cup {-1} /\ prob["s0"] > 0 /\ prob["s1"] > 0
      BY <1>6 DEF Sels
    <3> QED
      BY <3>1, ProbRange DEF Clamped
  <2>3. k \in VigValues
    BY PipelineAssumption DEF VigValues
  <2>4. PICK n \in Nat : cg["feed"].next = n
    BY <1>1, RowsTyped
  <2> DEFINE row(s, o) == [sel |-> s, decimal |-> o.decimal, american |-> o.american, src |-> <<"feed", n>>]
             A == {row("s0", o) : o \in MarketOffers(p, q, k)}
             B == {row("s1", o) : o \in MarketOffers(q, p, k)}
  <2>5. x \in OneOrNone(A) /\ y \in OneOrNone(B)
    BY <1>6, <2>1, <2>2, <2>4 DEF Quotes, Price, OneOrNone
  <2>6. ASSUME NEW s \in Sels, NEW o, Fair(o)
        PROVE  row(s, o) \in PriceRow /\ Fair(row(s, o)) /\ row(s, o).src = <<"feed", n>>
    BY <2>6 DEF Fair, PriceRow, Workers
  <2>7. "s0" \in Sels /\ "s1" \in Sels /\ "s0" # "s1"
    BY DEF Sels
  <2>8. ASSUME NEW r \in A
        PROVE  /\ r \in PriceRow /\ Fair(r) /\ r.src = <<"feed", n>> /\ r.sel = "s0"
               /\ \E o \in MarketOffers(p, q, k) : r.decimal = o.decimal
    <3>1. PICK o \in MarketOffers(p, q, k) : r = row("s0", o)
      BY <2>8
    <3>2. Fair(o)
      BY <2>3, MarketFair, Zenon
    <3> QED
      BY <2>6, <2>7, <3>1, <3>2
  <2>9. ASSUME NEW r \in B
        PROVE  /\ r \in PriceRow /\ Fair(r) /\ r.src = <<"feed", n>> /\ r.sel = "s1"
               /\ \E o \in MarketOffers(q, p, k) : r.decimal = o.decimal
    <3>1. PICK o \in MarketOffers(q, p, k) : r = row("s1", o)
      BY <2>9
    <3>2. Fair(o)
      BY <2>3, MarketFair, Zenon
    <3> QED
      BY <2>6, <2>7, <3>1, <3>2
  <2> HIDE DEF A, B
  <2>10. x \o y \in Seq(PriceRow) /\ Rows(x \o y) \subseteq A \cup B
    BY <2>5, <2>8, <2>9, TwoRows, Zenon
  <2>11. \A r \in Rows(x \o y) : r.src = <<"feed", cg["feed"].next>> /\ Sound(r)
    <3>1. ASSUME NEW r, Fair(r), r.src = <<"feed", n>> PROVE Sound(r)
      BY <3>1 DEF Sound
    <3> QED
      BY <2>4, <2>8, <2>9, <2>10, <3>1
  <2>12. ASSUME NEW r \in A \cup B, NEW u \in A \cup B PROVE Margin(r, u)
    <3>1. CASE r \in A /\ u \in B
      <4>1. PICK o \in MarketOffers(p, q, k) : r.decimal = o.decimal
        BY <2>8, <3>1
      <4>2. PICK v \in MarketOffers(q, p, k) : u.decimal = v.decimal
        BY <2>9, <3>1
      <4>3. (o.decimal - 10000) * (v.decimal - 10000) < 83000000
        BY <2>3, BookMargin
      <4> QED
        BY <4>1, <4>2, <4>3 DEF Margin
    <3>2. CASE r.sel # "s0" \/ u.sel # "s1"
      BY <3>2 DEF Margin
    <3> QED
      BY <2>7, <2>8, <2>9, <2>12, <3>1, <3>2
  <2>13. \A r, u \in Rows(x \o y) : Margin(r, u)
    BY <2>10, <2>12
  <2> QED
    BY <1>1, <1>2, <1>3, <1>6, <2>10, <2>11, <2>13, PreparesKeeps
<1> QED
  BY <1>4, <1>5, <1>6 DEF HandleNormalisedFeed

\* The latest row of a selection is a row.
LEMMA LatestRowFacts ==
    ASSUME ManagerTypes, NEW s \in Sels, LatestRow(s) # 0
    PROVE  odds[LatestRow(s)] \in Rows(odds)
<1> DEFINE rows == {i \in DOMAIN odds : odds[i].sel = s}
<1>1. rows # {} /\ LatestRow(s) = CHOOSE i \in rows : \A j \in rows : j <= i
  BY DEF LatestRow
<1>2. Len(odds) \in Nat /\ rows \subseteq 1..Len(odds)
  BY DEF ManagerTypes
<1>3. \E i \in rows : \A j \in rows : j <= i
  <2> HIDE DEF rows
  <2> QED
    BY <1>1, <1>2, GreatestIndex
<1>4. LatestRow(s) \in rows
  BY <1>1, <1>3
<1> QED
  BY <1>4 DEF Rows

\* A bet leads to one price of its own selection, or to none.
LEMMA BetKeeps ==
    ASSUME ManagerInv, HandleBetPlaced
    PROVE  ManagerInv'
<1>1. ManagerTypes /\ "bets" \in Workers /\ "bets" # "feed"
  BY DEF ManagerInv, Workers
<1>2. /\ at["bets"] = "idle" /\ cg["bets"].next < Len(betLog) /\ UNCHANGED feedSide
      /\ Fails("db") \/ UNCHANGED faults
  BY DEF HandleBetPlaced
<1>3. faults' \in Seq(Faults) /\ (Crashed => Crashed')
  BY <1>1, <1>2, CrashStays DEF ManagerTypes
<1>4. CASE Prepares("bets", <<>>)
  <2>1. <<>> \in Seq(PriceRow)
    BY EmptySeq
  <2> QED
    BY <1>1, <1>2, <1>3, <1>4, <2>1, RowsEmpty, PreparesKeeps
<1> DEFINE n == cg["bets"].next
           bet == betLog[n + 1]
           d == odds[LatestRow(bet.sel)].decimal
<1>6. CASE Errs("bets") /\ UNCHANGED <<odds, updates>>
  <2>1. updates' \in Seq(PriceRow) /\ Rows(updates) \subseteq Rows(updates')
    BY <1>1, <1>6 DEF ManagerTypes
  <2> QED
    BY <1>1, <1>2, <1>3, <1>6, <2>1, ErrsKeeps
<1>5. ASSUME LatestRow(bet.sel) # 0, NEW o \in AdjustedOffers(d), Prepares("bets", <<Price(bet.sel, o, "bets")>>)
      PROVE  ManagerInv'
  <2> DEFINE p == Price(bet.sel, o, "bets")
  <2>1. n \in Nat /\ n < Len(betLog) /\ bet \in BetMessage
    <3>1. n \in Nat /\ Len(betLog) \in Nat
      BY <1>1, RowsTyped DEF ManagerTypes
    <3>2. n + 1 \in 1..Len(betLog)
      BY <1>2, <3>1
    <3> QED
      BY <1>1, <1>2, <3>1, <3>2, ElementOfSeq DEF ManagerTypes
  <2>2. odds[LatestRow(bet.sel)] \in Rows(odds)
    <3>1. bet.sel \in Sels
      BY <2>1 DEF BetMessage
    <3> QED
      BY <1>1, <1>5, <3>1, LatestRowFacts
  <2>3. d \in Nat /\ d >= 10049
    BY <1>1, <2>2, RowsTyped, RowTypes DEF ManagerInv, RowsSound, Sound, Fair
  <2>4. Fair(o)
    <3> HIDE DEF d
    <3> QED
      BY <1>5, <2>3, AdjustFair
  <2>5. p = [sel |-> bet.sel, decimal |-> o.decimal, american |-> o.american, src |-> <<"bets", n>>]
    BY DEF Price
  <2>6. p \in PriceRow /\ Sound(p) /\ p.src = <<"bets", n>>
    <3> HIDE DEF d, p, n
    <3>1. bet.sel \in Sels /\ o.decimal \in Nat /\ o.american \in Int
      BY <2>1, <2>4 DEF BetMessage, Fair
    <3>2. p \in PriceRow /\ p.src = <<"bets", n>> /\ p.sel = bet.sel
      BY <1>1, <2>1, <2>5, <3>1 DEF PriceRow
    <3>3. Fair(p)
      BY <2>4, <2>5 DEF Fair
    <3> QED
      BY <2>1, <3>2, <3>3 DEF Sound
  <2>9. Prepares("bets", <<p>>)
    BY <1>5
  <2> HIDE DEF p
  <2>7. <<p>> \in Seq(PriceRow) /\ Rows(<<p>>) = {p}
    <3>1. DOMAIN <<p>> = {1} /\ <<p>>[1] = p
      OBVIOUS
    <3> QED
      BY <2>6, <3>1 DEF Rows
  <2>8. \A r \in Rows(<<p>>) : r.src = <<"bets", cg["bets"].next>> /\ Sound(r)
    BY <2>6, <2>7
  <2> QED
    BY <1>1, <1>2, <1>3, <2>7, <2>8, <2>9, PreparesKeeps
<1> HIDE DEF n, bet, d
<1>7. \/ Prepares("bets", <<>>)
      \/ Errs("bets") /\ UNCHANGED <<odds, updates>>
      \/ /\ LatestRow(bet.sel) # 0
         /\ \E o \in AdjustedOffers(d) : Prepares("bets", <<Price(bet.sel, o, "bets")>>)
  BY Zenon DEF HandleBetPlaced, n, bet, d
<1> QED
  BY <1>4, <1>5, <1>6, <1>7

\* The INSERT: the price is in the table and about to be published.
LEMMA WriteKeeps ==
    ASSUME ManagerInv, NEW w \in Workers, WriteOdds(w)
    PROVE  ManagerInv'
<1>1. ManagerTypes /\ WorkOrder /\ RowsSound /\ \A v \in Workers : TriedBelow(v)
  BY DEF ManagerInv
<1>2. /\ at[w] = "write" /\ UNCHANGED <<feedSide, updates>>
      /\ Fails("db") \/ UNCHANGED faults
  BY DEF WriteOdds
<1>3. faults' \in Seq(Faults) /\ (Crashed => Crashed')
  BY <1>1, <1>2, CrashStays DEF ManagerTypes
<1>4. CASE Errs(w) /\ UNCHANGED odds
  <2>1. updates' \in Seq(PriceRow) /\ Rows(updates) \subseteq Rows(updates')
    BY <1>1, <1>2 DEF ManagerTypes
  <2> QED
    BY <1>2, <1>3, <1>4, <2>1, ErrsKeeps
<1> DEFINE e == Head(work[w])
<1>5. CASE odds' = Append(odds, e) /\ at' = [at EXCEPT ![w] = "publish"] /\ UNCHANGED <<cg, work>>
  <2>1. /\ UNCHANGED <<feedLog, betLog, cg, work, updates>>
        /\ at'[w] = "publish" /\ \A v \in Workers \ {w} : at'[v] = at[v]
    BY <1>1, <1>2, <1>5 DEF ManagerTypes, feedSide
  <2>2. e \in PriceRow /\ e \in Rows(work[w])
    BY <1>1, <1>2, RowsTail DEF WorkOrder, ManagerTypes
  <2>3. Rows(odds') = Rows(odds) \cup {e} /\ odds' \in Seq(PriceRow)
    BY <1>1, <1>5, <2>2, RowsAppend DEF ManagerTypes
  <2>4. e.src = <<w, cg[w].next>>
    BY <1>1, <2>2 DEF WorkOrder
  <2> HIDE DEF e
  <2>5. ManagerTypes'
    BY <1>1, <1>3, <1>5, <2>1, <2>3 DEF ManagerTypes
  <2>6. WorkOrder'
    BY <1>1, <1>2, <2>1 DEF WorkOrder
  <2>7. RowsSound'
    BY <1>1, <2>1, <2>2, <2>3 DEF RowsSound, Sound
  <2>8. \A v \in Workers : TriedBelow(v)'
    BY <1>1, <2>1 DEF TriedBelow, Tried
  <2>9. ASSUME OnceEach PROVE OnceEach'
    <3>1. ASSUME NEW r \in Rows(odds) PROVE Settles(r)'
      <4>1. r.src[1] \in Workers /\ Settles(r)
        BY <1>1, <2>9, <3>1, RowsTyped, RowTypes DEF OnceEach
      <4>2. CASE r.src[1] = w
        BY <1>2, <2>1, <4>1, <4>2 DEF Settles
      <4>3. CASE r.src[1] # w
        BY <2>1, <4>1, <4>3 DEF Settles
      <4> QED
        BY <4>2, <4>3
    <3>2. ASSUME NEW r, r = e PROVE Settles(r)'
      <4>1. r.src[1] = w /\ r.src[2] = cg[w].next /\ cg[w].next \in Nat
        BY <1>1, <2>4, <3>2, RowsTyped
      <4> QED
        BY <2>1, <3>2, <4>1 DEF Settles, e
    <3>3. ASSUME NEW r \in Rows(odds') \cup Rows(work["feed"]), NEW t \in Rows(odds') \cup Rows(work["feed"]),
                 r.src[1] = "feed"
          PROVE  Margin(r, t)
      <4>1. CASE w = "feed"
        BY <2>2, <2>3, <2>9, <3>3, <4>1 DEF OnceEach
      <4>2. CASE w = "bets"
        <5>1. e.src[1] = "bets"
          BY <2>4, <4>2
        <5>2. r # e
          BY <3>3, <5>1
        <5>3. CASE t = e
          BY <3>3, <5>1, <5>3 DEF Margin
        <5> QED
          BY <2>3, <2>9, <3>3, <5>2, <5>3 DEF OnceEach
      <4> QED
        BY <4>1, <4>2 DEF Workers
    <3>4. \A r \in Rows(odds)' : Settles(r)'
      BY <2>3, <3>1, <3>2
    <3>5. \A v \in Workers : /\ \A k \in Tried(v)' : k < cg'[v].next
                             /\ cg'[v].handled \cap cg'[v].failed = {}
      BY <2>1, <2>9 DEF OnceEach, Tried
    <3>6. work'["feed"] = work["feed"] /\ \A r, t : Margin(r, t)' = Margin(r, t)
      BY <2>1 DEF Margin
    <3> QED
      BY <3>3, <3>4, <3>5, <3>6 DEF OnceEach
  <2> QED
    BY <1>3, <2>5, <2>6, <2>7, <2>8, <2>9 DEF ManagerInv
<1> QED
  BY <1>4, <1>5 DEF WriteOdds

\* The event: the price is published.
LEMMA PublishKeeps ==
    ASSUME ManagerInv, NEW w \in Workers, PublishOdds(w)
    PROVE  ManagerInv'
<1>1. ManagerTypes /\ WorkOrder /\ RowsSound /\ \A v \in Workers : TriedBelow(v)
  BY DEF ManagerInv
<1> DEFINE e == Head(work[w])
<1>2. /\ at[w] = "publish" /\ UNCHANGED <<feedSide, odds>>
      /\ Fails("kafka") \/ UNCHANGED faults
  BY DEF PublishOdds
<1>3. faults' \in Seq(Faults) /\ (Crashed => Crashed')
  BY <1>1, <1>2, CrashStays DEF ManagerTypes
<1>4. /\ work[w] \in Seq(PriceRow) /\ work[w] # <<>> /\ e \in PriceRow
      /\ Tail(work[w]) \in Seq(PriceRow) /\ Rows(Tail(work[w])) \subseteq Rows(work[w])
      /\ Len(work[w]) = 1 <=> Tail(work[w]) = <<>>
  BY <1>1, <1>2, RowsTail DEF WorkOrder, ManagerTypes
<1>5. Append(updates, e) \in Seq(PriceRow) /\ Rows(Append(updates, e)) = Rows(updates) \cup {e}
  BY <1>1, <1>4, RowsAppend DEF ManagerTypes
<1>6. CASE Errs(w) /\ updates' \in {updates, Append(updates, e)}
  <2>1. updates' \in Seq(PriceRow) /\ Rows(updates) \subseteq Rows(updates')
    BY <1>1, <1>5, <1>6 DEF ManagerTypes
  <2> QED
    BY <1>2, <1>3, <1>6, <2>1, ErrsKeeps
<1>7. CASE /\ updates' = Append(updates, e)
           /\ work' = [work EXCEPT ![w] = Tail(work[w])]
           /\ at' = [at EXCEPT ![w] = IF Len(work[w]) = 1 THEN "commit" ELSE "write"]
           /\ UNCHANGED cg
  <2>1. /\ UNCHANGED <<feedLog, betLog, cg, odds>>
        /\ work'[w] = Tail(work[w]) /\ at'[w] = IF Len(work[w]) = 1 THEN "commit" ELSE "write"
        /\ \A v \in Workers \ {w} : at'[v] = at[v] /\ work'[v] = work[v]
    BY <1>1, <1>2, <1>7 DEF ManagerTypes, feedSide
  <2>2. ManagerTypes'
    BY <1>1, <1>2, <1>3, <1>4, <1>5, <1>7, <2>1 DEF ManagerTypes
  <2>3. WorkOrder'
    BY <1>1, <1>4, <2>1 DEF WorkOrder
  <2>4. RowsSound'
    BY <1>1, <1>4, <2>1 DEF RowsSound, Sound
  <2>5. \A v \in Workers : TriedBelow(v)'
    BY <1>1, <2>1 DEF TriedBelow, Tried
  <2>6. ASSUME OnceEach PROVE OnceEach'
    <3>1. ASSUME NEW r \in Rows(odds) PROVE Settles(r)'
      <4>1. r.src[1] \in Workers /\ Settles(r) /\ Rows(updates') = Rows(updates) \cup {e}
        BY <1>1, <1>5, <1>7, <2>6, <3>1, RowsTyped, RowTypes DEF OnceEach
      <4>2. CASE r.src[1] = w
        BY <1>2, <2>1, <4>1, <4>2 DEF Settles
      <4>3. CASE r.src[1] # w
        BY <2>1, <4>1, <4>3 DEF Settles
      <4> QED
        BY <4>2, <4>3
    <3>2. \A v \in Workers : /\ \A k \in Tried(v)' : k < cg'[v].next
                             /\ cg'[v].handled \cap cg'[v].failed = {}
      BY <2>1, <2>6 DEF OnceEach, Tried
    <3>3. \A v \in Workers : Rows(work'[v]) \subseteq Rows(work[v])
      BY <1>4, <2>1
    <3>4. Rows(work'["feed"]) \subseteq Rows(work["feed"]) /\ \A r, t : Margin(r, t)' = Margin(r, t)
      BY <1>1, <3>3, RowsTyped DEF Margin
    <3> QED
      BY <2>1, <2>6, <3>1, <3>2, <3>4 DEF OnceEach
  <2> QED
    BY <1>3, <2>2, <2>3, <2>4, <2>5, <2>6 DEF ManagerInv
<1> QED
  BY <1>6, <1>7 DEF PublishOdds

\* The commit: a message whose prices are all published is handled.
LEMMA CommitKeeps ==
    ASSUME ManagerInv, NEW w \in Workers, CommitOffset(w)
    PROVE  ManagerInv'
<1>1. ManagerTypes /\ WorkOrder /\ RowsSound /\ \A v \in Workers : TriedBelow(v)
  BY DEF ManagerInv
<1>2. /\ at[w] = "commit" /\ UNCHANGED <<feedSide, work, odds, updates>>
      /\ at' = [at EXCEPT ![w] = "idle"]
      /\ Fails("kafka") \/ UNCHANGED faults
  BY DEF CommitOffset
<1>3. faults' \in Seq(Faults) /\ (Crashed => Crashed')
  BY <1>1, <1>2, CrashStays DEF ManagerTypes
<1> DEFINE c == cg[w]
<1>4. PICK d \in {Handled(c), HandledUncommitted(c)} : cg' = [cg EXCEPT ![w] = d]
  BY DEF CommitOffset
<1>5. /\ c \in Claim /\ c.next \in Nat /\ c.handled \subseteq Nat /\ c.failed \subseteq Nat
      /\ d \in Claim /\ d.next = c.next + 1
      /\ d.handled = c.handled \cup {c.next} /\ d.failed = c.failed
  BY <1>1, <1>4, ClaimFacts DEF ManagerTypes
<1>6. /\ UNCHANGED <<feedLog, betLog, work, odds, updates>>
      /\ cg'[w] = d /\ at'[w] = "idle" /\ work[w] = <<>>
      /\ \A v \in Workers \ {w} : at'[v] = at[v] /\ cg'[v] = cg[v]
  BY <1>1, <1>2, <1>4 DEF ManagerTypes, WorkOrder, feedSide
<1>7. ManagerTypes'
  BY <1>1, <1>2, <1>3, <1>4, <1>5, <1>6 DEF ManagerTypes
<1>8. WorkOrder'
  BY <1>1, <1>6, RowsEmpty DEF WorkOrder
<1>9. RowsSound'
  BY <1>1, <1>6 DEF RowsSound, Sound
<1>10. \A v \in Workers : TriedBelow(v)'
  <2>1. cg' \in [Workers -> Claim] /\ \A v \in Workers : Moved(cg[v], cg'[v])
    BY <1>4, <1>6, <1>7 DEF ManagerTypes, Moved
  <2> QED
    BY <1>1, <2>1, TriedKeeps DEF ManagerTypes
<1>11. ASSUME OnceEach PROVE OnceEach'
  <2>1. ASSUME NEW r \in Rows(odds) PROVE Settles(r)'
    <3>1. r.src[1] \in Workers /\ r.src[2] \in Nat /\ Settles(r)
      BY <1>1, <1>11, <2>1, RowsTyped, RowTypes DEF OnceEach
    <3>2. CASE r.src[1] = w
      BY <1>2, <1>5, <1>6, <3>1, <3>2 DEF Settles
    <3>3. CASE r.src[1] # w
      BY <1>6, <3>1, <3>3 DEF Settles
    <3> QED
      BY <3>2, <3>3
  <2>2. \A v \in Workers : /\ \A k \in Tried(v)' : k < cg'[v].next
                           /\ cg'[v].handled \cap cg'[v].failed = {}
    <3>1. /\ \A k \in c.handled \cup c.failed : k < c.next /\ k \in Nat
          /\ c.handled \cap c.failed = {} /\ c.next \notin c.failed
      BY <1>5, <1>11 DEF OnceEach, Tried
    <3>2. \A k \in cg'[w].handled \cup cg'[w].failed : k < cg'[w].next
      BY <1>5, <1>6, <3>1
    <3>3. cg'[w].handled \cap cg'[w].failed = {}
      BY <1>5, <1>6, <3>1
    <3> QED
      BY <1>6, <1>11, <3>2, <3>3 DEF OnceEach, Tried
  <2>3. \A r, t : Margin(r, t)' = Margin(r, t)
    BY DEF Margin
  <2> QED
    BY <1>6, <1>11, <2>1, <2>2, <2>3 DEF OnceEach
<1> QED
  BY <1>3, <1>7, <1>8, <1>9, <1>10, <1>11 DEF ManagerInv

\* A restart: nothing is at work, and the claims are back at what was committed.
LEMMA ManagerRestartKeeps ==
    ASSUME ManagerInv, ManagerRestarts
    PROVE  ManagerInv'
<1>1. ManagerTypes /\ RowsSound /\ \A v \in Workers : TriedBelow(v)
  BY DEF ManagerInv
<1>2. /\ UNCHANGED <<feedLog, betLog, odds, updates>>
      /\ cg' = [w \in Workers |-> Restarted(cg[w])]
      /\ work' = [w \in Workers |-> <<>>] /\ at' = [w \in Workers |-> "idle"]
  BY DEF ManagerRestarts, feedSide
<1>3. faults' \in Seq(Faults) /\ Crashed'
  BY <1>1, CrashStays DEF ManagerTypes, ManagerRestarts
<1>4. \A w \in Workers : Restarted(cg[w]) \in Claim
  BY <1>1, ClaimFacts DEF ManagerTypes
<1>5. ManagerTypes'
  <2>1. <<>> \in Seq(PriceRow)
    BY EmptySeq
  <2> QED
    BY <1>1, <1>2, <1>3, <1>4, <2>1 DEF ManagerTypes
<1>6. WorkOrder'
  BY <1>2, RowsEmpty DEF WorkOrder
<1>7. RowsSound'
  BY <1>1, <1>2, RowsEmpty DEF RowsSound, Sound
<1>8. \A v \in Workers : TriedBelow(v)'
  <2>1. cg' \in [Workers -> Claim] /\ \A v \in Workers : Moved(cg[v], cg'[v])
    BY <1>2, <1>5 DEF ManagerTypes, Moved
  <2> QED
    BY <1>1, <2>1, TriedKeeps DEF ManagerTypes
<1> QED
  BY <1>3, <1>5, <1>6, <1>7, <1>8 DEF ManagerInv

\* A step of the cache updater or of the lag checker.
Elsewhere == UNCHANGED <<feedSide, manager>> /\ (UNCHANGED faults \/ \E kind : Fails(kind))

LEMMA ElsewhereKeeps ==
    ASSUME ManagerInv, Elsewhere
    PROVE  ManagerInv'
<1>1. PICK kind : UNCHANGED faults \/ Fails(kind)
  BY DEF Elsewhere
<1>2. ManagerTypes /\ UNCHANGED <<feedLog, betLog, manager>>
  BY DEF ManagerInv, Elsewhere, feedSide
<1>3. faults' \in Seq(Faults) /\ (Crashed => Crashed')
  BY <1>1, <1>2, CrashStays DEF ManagerTypes
<1>4. Len(betLog) \in Nat
  BY <1>2 DEF ManagerTypes
<1> QED
  BY <1>2, <1>3, <1>4, OthersKeep DEF ManagerTypes

\* The steps of Odds Management: its two handlers, or a restart.
ManagerActs ==
    \/ \E k \in Vigs, prob \in [Sels -> Probs \cup {-1}] : HandleNormalisedFeed(k, prob)
    \/ HandleBetPlaced
    \/ \E w \in Workers : ManagerStep(w)
    \/ ManagerRestarts

UpdaterActs == CacheOdds \/ CacheCommits \/ UpdaterRestarts \/ \E s \in Sels : CacheExpires(s)

CheckerActs == LagReadsLatest \/ LagReadsCommitted \/ LagCacheExpires

Arrivals ==
    \/ \E type \in FeedTypes : FeedArrives(type)
    \/ \E bet \in BetEvents : BetArrives(bet)

LEMMA NextSplit == PipelineNext <=> ManagerActs \/ UpdaterActs \/ CheckerActs \/ Arrivals
BY Zenon DEF PipelineNext, ManagerActs, UpdaterActs, CheckerActs, Arrivals

\* Who leaves what alone.
LEMMA WhoseState ==
    /\ ManagerActs => UNCHANGED <<updater, checker>>
    /\ UpdaterActs => Elsewhere /\ UNCHANGED checker
    /\ CheckerActs => Elsewhere /\ UNCHANGED updater
    /\ Arrivals => UNCHANGED <<manager, updater, checker, faults>>
<1>1. ManagerActs => UNCHANGED <<updater, checker>>
  BY DEF ManagerActs, HandleNormalisedFeed, HandleBetPlaced, ManagerStep, WriteOdds, PublishOdds, CommitOffset,
         ManagerRestarts, feedSide
<1>2. UpdaterActs => Elsewhere /\ UNCHANGED checker
  BY DEF UpdaterActs, CacheOdds, CacheCommits, UpdaterRestarts, CacheExpires, Elsewhere
<1>3. CheckerActs => Elsewhere /\ UNCHANGED updater
  BY DEF CheckerActs, LagReadsLatest, LagReadsCommitted, LagCacheExpires, Elsewhere
<1>4. Arrivals => UNCHANGED <<manager, updater, checker, faults>>
  BY DEF Arrivals, FeedArrives, BetArrives
<1> QED
  BY <1>1, <1>2, <1>3, <1>4

\* The topics only grow.
LEMMA ArrivalsKeep ==
    ASSUME ManagerInv, Arrivals
    PROVE  ManagerInv'
<1>1. ManagerTypes /\ UNCHANGED <<manager, faults>>
  BY WhoseState DEF ManagerInv
<1>2. faults' \in Seq(Faults) /\ (Crashed => Crashed')
  BY <1>1 DEF ManagerTypes, Crashed
<1>3. Len(betLog) \in Nat
  BY <1>1 DEF ManagerTypes
<1>4. ASSUME NEW type \in FeedTypes, FeedArrives(type) PROVE ManagerInv'
  <2>1. feedLog' \in Seq(FeedTypes) /\ betLog' = betLog
    BY <1>1, <1>4, RowsAppend DEF FeedArrives, ManagerTypes
  <2> QED
    BY <1>1, <1>2, <1>3, <2>1, OthersKeep DEF ManagerTypes
<1>5. ASSUME NEW bet \in BetEvents, BetArrives(bet) PROVE ManagerInv'
  <2>1. betLog' = Append(betLog, bet) /\ feedLog' = feedLog /\ bet \in BetMessage
    BY <1>5, PipelineAssumption DEF BetArrives, BetMessage
  <2>2. /\ betLog' \in Seq(BetMessage) /\ Len(betLog') = Len(betLog) + 1
        /\ \A i \in 1..Len(betLog) : betLog'[i] = betLog[i]
    BY <1>1, <2>1, RowsAppend DEF ManagerTypes
  <2>3. Len(betLog) <= Len(betLog')
    BY <1>3, <2>2
  <2> QED
    BY <1>1, <1>2, <2>1, <2>2, <2>3, OthersKeep DEF ManagerTypes
<1> QED
  BY <1>4, <1>5 DEF Arrivals

LEMMA ManagerActsKeep ==
    ASSUME ManagerInv, ManagerActs
    PROVE  ManagerInv'
<1>1. ASSUME NEW k \in Vigs, NEW prob \in [Sels -> Probs \cup {-1}], HandleNormalisedFeed(k, prob)
      PROVE  ManagerInv'
  BY <1>1, FeedKeeps
<1>2. ASSUME NEW w \in Workers, ManagerStep(w) PROVE ManagerInv'
  BY <1>2, WriteKeeps, PublishKeeps, CommitKeeps DEF ManagerStep
<1> QED
  BY <1>1, <1>2, BetKeeps, ManagerRestartKeeps DEF ManagerActs

LEMMA ManagerSteps == ManagerInv /\ [PipelineNext]_vars => ManagerInv'
<1>1. ASSUME ManagerInv, UNCHANGED vars PROVE ManagerInv'
  <2>1. Elsewhere
    BY <1>1 DEF vars, Elsewhere
  <2> QED
    BY <1>1, <2>1, ElsewhereKeeps
<1> QED
  BY <1>1, NextSplit, WhoseState, ElsewhereKeeps, ArrivalsKeep, ManagerActsKeep

-----------------------------------------------------------------------------
(***************************************************************************)
(* What the other two rely on: the topic odds-updated only grows, and a    *)
(* message that was tried stays tried.                                     *)
(***************************************************************************)

Grows(log, new) == Len(log) <= Len(new) /\ \A i \in 1..Len(log) : new[i] = log[i]

LEMMA UpdatesGrow ==
    ASSUME ManagerInv, [PipelineNext]_vars
    PROVE  Grows(updates, updates')
<1>1. ManagerTypes /\ WorkOrder
  BY DEF ManagerInv
<1>2. CASE UNCHANGED updates
  BY <1>1, <1>2 DEF ManagerTypes, Grows
<1>3. ASSUME NEW w \in Workers, at[w] = "publish", updates' = Append(updates, Head(work[w]))
      PROVE  Grows(updates, updates')
  <2>1. Head(work[w]) \in PriceRow
    BY <1>1, <1>3, RowsTail DEF WorkOrder, ManagerTypes
  <2>2. Len(updates) \in Nat
    BY <1>1 DEF ManagerTypes
  <2>3. Len(updates') = Len(updates) + 1 /\ \A i \in 1..Len(updates) : updates'[i] = updates[i]
    BY <1>1, <1>3, <2>1, RowsAppend DEF ManagerTypes
  <2> QED
    BY <2>2, <2>3 DEF Grows
<1>4. ASSUME NEW w \in Workers, ManagerStep(w) PROVE Grows(updates, updates')
  BY <1>2, <1>3, <1>4 DEF ManagerStep, WriteOdds, PublishOdds, CommitOffset
<1>5. ASSUME ManagerActs PROVE Grows(updates, updates')
  BY <1>2, <1>4, <1>5 DEF ManagerActs, HandleNormalisedFeed, HandleBetPlaced, Prepares, ManagerRestarts
<1>6. UNCHANGED vars \/ Elsewhere \/ Arrivals => UNCHANGED updates
  BY WhoseState DEF vars, manager, Elsewhere
<1> QED
  BY <1>2, <1>5, <1>6, NextSplit, WhoseState

LEMMA TriedGrows ==
    ASSUME ManagerInv, [PipelineNext]_vars, NEW w \in Workers
    PROVE  Lasting(w)
<1>1. ManagerTypes /\ ManagerTypes' /\ TriedBelow(w)
  BY ManagerSteps DEF ManagerInv
<1>2. CASE UNCHANGED cg
  BY <1>2 DEF Lasting
<1>3. CASE Moved(cg[w], cg'[w])
  BY <1>1, <1>3, TriedKeeps DEF ManagerTypes
<1>4. ASSUME NEW v \in Workers, NEW d, cg' = [cg EXCEPT ![v] = d], Moved(cg[v], d)
      PROVE  Moved(cg[w], cg'[w])
  BY <1>1, <1>4 DEF ManagerTypes, Moved
<1>5. ASSUME NEW v \in Workers, Errs(v) PROVE Lasting(w)
  <2>1. cg' = [cg EXCEPT ![v] = Skipped(cg[v])] /\ Moved(cg[v], Skipped(cg[v]))
    BY <1>5 DEF Errs, Moved
  <2> QED
    BY <1>3, <1>4, <2>1
<1>6. ASSUME NEW v \in Workers, CommitOffset(v) PROVE Lasting(w)
  <2>1. PICK d \in {Handled(cg[v]), HandledUncommitted(cg[v])} : cg' = [cg EXCEPT ![v] = d]
    BY <1>6 DEF CommitOffset
  <2>2. Moved(cg[v], d)
    BY <2>1 DEF Moved
  <2> QED
    BY <1>3, <1>4, <2>1, <2>2
<1>7. ASSUME NEW v \in Workers, ManagerStep(v) PROVE Lasting(w)
  BY <1>2, <1>5, <1>6, <1>7 DEF ManagerStep, WriteOdds, PublishOdds
<1>8. ASSUME ManagerRestarts PROVE Lasting(w)
  <2>1. cg'[w] = Restarted(cg[w])
    BY <1>8 DEF ManagerRestarts
  <2> QED
    BY <1>3, <2>1 DEF Moved
<1>9. ASSUME ManagerActs PROVE Lasting(w)
  <2>1. "feed" \in Workers /\ "bets" \in Workers
    BY DEF Workers
  <2> QED
    BY <1>2, <1>5, <1>7, <1>8, <1>9, <2>1 DEF ManagerActs, HandleNormalisedFeed, HandleBetPlaced, Prepares
<1>10. UNCHANGED vars \/ Elsewhere \/ Arrivals => UNCHANGED cg
  BY WhoseState DEF vars, manager, Elsewhere
<1> QED
  BY <1>2, <1>9, <1>10, NextSplit, WhoseState

-----------------------------------------------------------------------------
(***************************************************************************)
(* The cache updater.                                                      *)
(***************************************************************************)

\* The price of an event goes to Redis, or its offset is among the failed ones.
LEMMA CacheKeeps ==
    ASSUME ManagerInv, UpdaterInv, CacheOdds
    PROVE  UpdaterInv'
<1> DEFINE c == cache_cg
           k == c.next + 1
           s == updates[k].sel
<1>1. /\ updates \in Seq(PriceRow) /\ Len(updates) \in Nat /\ c \in Claim /\ c.next \in Nat /\ c.committed \in Nat
      /\ c.failed \subseteq Nat /\ UNCHANGED updates
  BY ClaimFacts DEF ManagerInv, ManagerTypes, UpdaterInv, CacheOdds, manager
<1>2. k \in 1..Len(updates) /\ s \in Sels
  <2>1. k \in 1..Len(updates)
    BY <1>1 DEF CacheOdds
  <2>2. updates[k] \in PriceRow
    BY <1>1, <2>1, RowsFacts
  <2> QED
    BY <2>1, <2>2, RowTypes
<1>3. \/ cache' = [cache EXCEPT ![s] = k] /\ cache_cg' = c /\ cache_at' = "mark"
      \/ /\ cache' = [cache EXCEPT ![s] = k] \/ cache' = cache
         /\ cache_cg' = Skipped(c) /\ cache_at' = "idle"
  BY DEF CacheOdds, Set
<1>4. /\ Skipped(c) \in Claim /\ Skipped(c).next = k /\ Skipped(c).committed = c.committed
      /\ Skipped(c).failed = c.failed \cup {k - 1} /\ c.committed <= c.next
  BY <1>1, ClaimFacts DEF UpdaterInv
<1> HIDE DEF k, s
<1>5. cache' \in [Sels -> Nat] /\ \A t \in Sels : cache'[t] = cache[t] \/ (t = s /\ cache'[t] = k)
  BY <1>2, <1>3 DEF UpdaterInv
<1>6. \A t \in Sels : cache'[t] <= Len(updates) /\ (cache'[t] # 0 => updates[cache'[t]].sel = t)
  BY <1>2, <1>5 DEF UpdaterInv, s
<1>7. ASSUME NEW j \in 1..c.next
      PROVE  LET t == updates[j].sel
             IN cache'[t] = 0 \/ cache'[t] >= j \/ j - 1 \in c.failed
  <2> DEFINE t == updates[j].sel
  <2>1. t \in Sels
    <3>1. j \in 1..Len(updates)
      BY <1>1, <1>2 DEF k
    <3> QED
      BY <1>1, <3>1, RowsFacts, RowTypes
  <2>2. CASE cache'[t] = k
    BY <1>1, <2>2 DEF k
  <2>3. CASE cache'[t] = cache[t]
    BY <1>7, <2>3 DEF UpdaterInv
  <2> QED
    BY <1>5, <2>1, <2>2, <2>3
<1> HIDE DEF c
<1>8. CASE cache' = [cache EXCEPT ![s] = k] /\ cache_cg' = c /\ cache_at' = "mark"
  <2>1. cache'[s] = k
    BY <1>2, <1>8 DEF UpdaterInv
  <2>2. c.next < Len(updates) /\ c.next + 1 = k /\ k >= k
    BY <1>1, <1>2 DEF k
  <2>3. \A j \in 1..c.next : LET t == updates'[j].sel
                             IN cache'[t] = 0 \/ cache'[t] >= j \/ j - 1 \in c.failed
    BY <1>1, <1>7
  <2>4. LET t == updates'[c.next + 1].sel IN cache'[t] = 0 \/ cache'[t] >= c.next + 1
    BY <1>1, <2>1, <2>2 DEF s
  <2>5. /\ c.next <= Len(updates') /\ c.committed <= c.next
        /\ \A t \in Sels : cache'[t] <= Len(updates') /\ (cache'[t] # 0 => updates'[cache'[t]].sel = t)
    BY <1>1, <1>4, <1>6, <2>2
  <2> QED
    BY <1>1, <1>5, <1>8, <2>2, <2>3, <2>4, <2>5 DEF UpdaterInv
<1>9. CASE cache_cg' = Skipped(c) /\ cache_at' = "idle"
  <2>1. ASSUME NEW j \in 1..k
        PROVE  LET t == updates'[j].sel
               IN cache'[t] = 0 \/ cache'[t] >= j \/ j - 1 \in cache_cg'.failed
    <3>1. CASE j = k
      BY <1>4, <1>9, <3>1
    <3>2. CASE j \in 1..c.next
      BY <1>1, <1>4, <1>7, <1>9, <3>2
    <3> QED
      BY <1>1, <3>1, <3>2 DEF k
  <2>2. /\ k <= Len(updates') /\ c.committed <= k
        /\ \A t \in Sels : cache'[t] <= Len(updates') /\ (cache'[t] # 0 => updates'[cache'[t]].sel = t)
    BY <1>1, <1>2, <1>4, <1>6 DEF k
  <2> QED
    BY <1>4, <1>5, <1>9, <2>1, <2>2 DEF UpdaterInv
<1> QED
  BY <1>3, <1>8, <1>9

\* The commit of the cache updater: the price is in Redis.
LEMMA CacheCommitKeeps ==
    ASSUME ManagerInv, UpdaterInv, CacheCommits
    PROVE  UpdaterInv'
<1> DEFINE c == cache_cg
<1>1. /\ Len(updates) \in Nat /\ c \in Claim /\ c.next \in Nat /\ c.committed \in Nat
      /\ UNCHANGED <<updates, cache>> /\ cache_at = "mark" /\ cache_at' = "idle"
  BY ClaimFacts DEF ManagerInv, ManagerTypes, UpdaterInv, CacheCommits, manager
<1>2. PICK d \in {Handled(c), HandledUncommitted(c)} : cache_cg' = d
  BY DEF CacheCommits
<1>3. d \in Claim /\ d.next = c.next + 1 /\ d.committed \in {c.committed, c.next + 1} /\ d.failed = c.failed
  BY <1>1, <1>2, ClaimFacts
<1>4. d.next <= Len(updates) /\ d.committed <= d.next
  BY <1>1, <1>3 DEF UpdaterInv
<1>5. ASSUME NEW j \in 1..d.next
      PROVE  LET t == updates[j].sel
             IN cache[t] = 0 \/ cache[t] >= j \/ j - 1 \in d.failed
  <2>1. CASE j = c.next + 1
    BY <1>1, <2>1 DEF UpdaterInv
  <2>2. CASE j \in 1..c.next
    BY <1>3, <2>2 DEF UpdaterInv
  <2> QED
    BY <1>1, <1>3, <2>1, <2>2
<1> QED
  BY <1>1, <1>2, <1>3, <1>4, <1>5 DEF UpdaterInv

LEMMA UpdaterSteps == ManagerInv /\ UpdaterInv /\ [PipelineNext]_vars => UpdaterInv'
<1> SUFFICES ASSUME ManagerInv, UpdaterInv, [PipelineNext]_vars PROVE UpdaterInv'
  OBVIOUS
<1>1. /\ cache_cg \in Claim /\ cache_cg.next \in Nat /\ cache_cg.committed \in Nat
      /\ Restarted(cache_cg) \in Claim /\ Restarted(cache_cg).next = cache_cg.committed
      /\ Restarted(cache_cg).committed = cache_cg.committed /\ Restarted(cache_cg).failed = cache_cg.failed
  BY ClaimFacts DEF UpdaterInv
<1>2. Len(updates) \in Nat /\ Len(updates') \in Nat /\ Grows(updates, updates')
  BY ManagerSteps, UpdatesGrow DEF ManagerInv, ManagerTypes
<1>3. CASE UNCHANGED updater
  <2>1. cache_cg' = cache_cg /\ cache' = cache /\ cache_at' = cache_at
    BY <1>3 DEF updater
  <2>2. \A s \in Sels : cache[s] # 0 => cache[s] \in 1..Len(updates)
    BY <1>2 DEF UpdaterInv
  <2>3. \A s \in Sels : /\ cache[s] <= Len(updates')
                        /\ cache[s] # 0 => updates'[cache[s]].sel = s
    BY <1>2, <2>2 DEF UpdaterInv, Grows
  <2>4. \A k \in 1..cache_cg.next : updates'[k] = updates[k]
    BY <1>1, <1>2 DEF UpdaterInv, Grows
  <2>5. cache_cg.next <= Len(updates')
    BY <1>1, <1>2 DEF UpdaterInv, Grows
  <2>6. cache_at = "mark" => /\ cache_cg.next < Len(updates')
                             /\ updates'[cache_cg.next + 1] = updates[cache_cg.next + 1]
    BY <1>1, <1>2 DEF UpdaterInv, Grows
  <2> QED
    BY <2>1, <2>3, <2>4, <2>5, <2>6 DEF UpdaterInv
<1>4. CASE UpdaterRestarts
  <2>1. cache_cg' = Restarted(cache_cg) /\ cache_at' = "idle" /\ UNCHANGED <<cache, updates>>
    BY <1>4 DEF UpdaterRestarts, manager
  <2>2. \A k \in 1..cache_cg.committed : k \in 1..cache_cg.next
    BY <1>1 DEF UpdaterInv
  <2> QED
    BY <1>1, <1>2, <2>1, <2>2 DEF UpdaterInv
<1>5. ASSUME NEW s \in Sels, CacheExpires(s) PROVE UpdaterInv'
  <2>1. cache' = [cache EXCEPT ![s] = 0] /\ UNCHANGED <<cache_cg, cache_at, updates>>
    BY <1>5 DEF CacheExpires, manager
  <2>2. cache' \in [Sels -> Nat] /\ \A t : t # s => cache'[t] = cache[t]
    BY <2>1 DEF UpdaterInv
  <2>3. cache'[s] = 0
    BY <2>1 DEF UpdaterInv
  <2> QED
    BY <1>2, <2>1, <2>2, <2>3 DEF UpdaterInv
<1>6. UNCHANGED vars => UNCHANGED updater
  BY DEF vars
<1> QED
  BY <1>3, <1>4, <1>5, <1>6, NextSplit, WhoseState, CacheKeeps, CacheCommitKeeps DEF UpdaterActs

-----------------------------------------------------------------------------
(***************************************************************************)
(* The lag checker.                                                        *)
(***************************************************************************)

LEMMA CheckerSteps == ManagerInv /\ CheckerInv /\ [PipelineNext]_vars => CheckerInv'
<1> SUFFICES ASSUME ManagerInv, CheckerInv, [PipelineNext]_vars PROVE CheckerInv'
  OBVIOUS
<1>1. "bets" \in Workers /\ ManagerTypes /\ TriedBelow("bets") /\ Len(betLog) \in Nat
  BY DEF ManagerInv, ManagerTypes, Workers
<1> DEFINE H == cg["bets"].handled
           F == cg["bets"].failed
           passed(k) == k \in H \/ (k \in F /\ \E j \in H : j > k)
<1>2. H \subseteq H' /\ F \subseteq F'
  BY <1>1, TriedGrows DEF Lasting
<1>3. lag.latest \in Nat /\ lag.at \in {"idle", "committed"} /\ lagCache.covers \in Int
  BY DEF CheckerInv
<1>4. NotLaggingIsTried <=> (lagCache.lag = 0 => \A k \in 0..(lagCache.covers - 1) : passed(k))
  BY DEF NotLaggingIsTried
<1>5. NotLaggingIsTried' <=> (lagCache'.lag = 0 => \A k \in 0..(lagCache'.covers - 1) : passed(k)')
  BY DEF NotLaggingIsTried
<1>6. \A k : passed(k) => passed(k)'
  BY <1>2
<1>7. UNCHANGED lagCache => NotLaggingIsTried'
  BY <1>4, <1>5, <1>6 DEF CheckerInv
<1>8. CASE UNCHANGED checker
  BY <1>7, <1>8 DEF CheckerInv, checker
<1>9. CASE LagReadsLatest
  BY <1>1, <1>7, <1>9 DEF LagReadsLatest, CheckerInv
<1>10. CASE LagReadsCommitted
  <2>1. lag' = Quiet /\ lag' \in [at : {"idle", "committed"}, latest : Nat]
    BY <1>10 DEF LagReadsCommitted, Quiet
  <2>2. CASE UNCHANGED lagCache
    BY <1>7, <2>1, <2>2 DEF CheckerInv
  <2>3. CASE lagCache' = [lag |-> Lag, covers |-> lag.latest]
    <3> DEFINE c == cg["bets"].committed
    <3>1. c \in Nat /\ H \subseteq Nat /\ F \subseteq Nat
      BY <1>1, ClaimFacts DEF ManagerTypes
    <3>2. Lag \in Nat /\ (Lag = 0 => lag.latest <= c /\ c # 0)
      BY <1>3, <3>1 DEF Lag, CommittedOffset
    <3>3. ASSUME Lag = 0, NEW k \in 0..(lag.latest - 1) PROVE passed(k)
      <4>1. k \in H \cup F /\ c - 1 \in H /\ k <= c - 1
        BY <1>1, <1>3, <3>1, <3>2, <3>3 DEF TriedBelow, Tried
      <4> QED
        BY <3>1, <4>1
    <3>4. lagCache'.lag = Lag /\ lagCache'.covers = lag.latest
      BY <2>3
    <3>5. lagCache' \in [lag : Nat, covers : Nat \cup {-1}]
      BY <1>3, <2>3, <3>2
    <3>6. NotLaggingIsTried'
      BY <1>5, <1>6, <3>3, <3>4
    <3> QED
      BY <2>1, <3>5, <3>6 DEF CheckerInv
  <2> QED
    BY <1>10, <2>2, <2>3 DEF LagReadsCommitted
<1>11. CASE LagCacheExpires
  <2>1. lagCache' = NoLag /\ UNCHANGED lag /\ lagCache' \in [lag : Nat, covers : Nat \cup {-1}]
    BY <1>11 DEF LagCacheExpires, NoLag
  <2>2. NotLaggingIsTried'
    BY <1>5, <2>1 DEF NoLag
  <2> QED
    BY <2>1, <2>2 DEF CheckerInv
<1>12. UNCHANGED vars \/ ManagerActs \/ UpdaterActs \/ Arrivals => UNCHANGED checker
  BY WhoseState DEF vars
<1> QED
  BY <1>8, <1>9, <1>10, <1>11, <1>12, NextSplit DEF CheckerActs

-----------------------------------------------------------------------------
(***************************************************************************)
(* The theorems.                                                           *)
(***************************************************************************)

\* A market starts without a price, or with one that everyone has dealt with.
LEMMA PipelineInitial == PipelineInit => PipelineInv
<1> SUFFICES ASSUME PipelineInit PROVE PipelineInv
  OBVIOUS
<1>1. PICK past \in {<<>>} \cup {<<row>> : row \in EarlierRows} :
          /\ odds = past /\ updates = past
          /\ betLog = [i \in 1..Len(past) |-> EarlierBet]
          /\ cg = [w \in Workers |-> IF w = "bets" THEN Through(Len(past)) ELSE NewClaim]
          /\ cache_cg = Through(Len(past))
          /\ cache = [s \in Sels |-> IF s = "s0" THEN Len(past) ELSE 0]
  BY DEF PipelineInit
<1>2. /\ feedLog = <<>> /\ faults = <<>> /\ cache_at = "idle"
      /\ work = [w \in Workers |-> <<>>] /\ at = [w \in Workers |-> "idle"]
      /\ lag = Quiet /\ lagCache = NoLag
  BY DEF PipelineInit
<1>3. "bets" \in Workers /\ "feed" \in Workers /\ "s0" \in Sels
  BY DEF Workers, Sels
<1>4. ASSUME NEW row \in EarlierRows
      PROVE  row \in PriceRow /\ Fair(row) /\ row.sel = "s0" /\ row.src = <<"bets", 0>>
  <2>1. PICK o \in UNION {AdjustedOffers(d) : d \in Before} :
            row = [sel |-> "s0", decimal |-> o.decimal, american |-> o.american, src |-> <<"bets", 0>>]
    BY <1>4 DEF EarlierRows
  <2>4. PICK d \in Before : o \in AdjustedOffers(d)
    BY <2>1
  <2>2. d \in Nat /\ d >= 10049
    BY PipelineAssumption
  <2>3. Fair(o)
    BY <2>2, <2>4, AdjustFair
  <2> QED
    BY <1>3, <2>1, <2>3 DEF Fair, PriceRow
<1> DEFINE n == Len(past)
<1>5. /\ n \in {0, 1} /\ past \in Seq(PriceRow) /\ (n = 0 => Rows(past) = {} /\ past = <<>>)
      /\ n = 1 => /\ Rows(past) = {past[1]} /\ past[1] \in PriceRow /\ Fair(past[1])
                  /\ past[1].sel = "s0" /\ past[1].src = <<"bets", 0>>
  <2>1. CASE past = <<>>
    BY <2>1, EmptySeq, RowsEmpty
  <2>2. ASSUME NEW row \in EarlierRows, past = <<row>>
        PROVE  Len(past) = 1 /\ past[1] = row /\ Rows(past) = {row} /\ past \in Seq(PriceRow)
    <3>1. DOMAIN past = {1} /\ past[1] = row /\ Len(past) = 1
      BY <2>2
    <3>2. Rows(past) = {row}
      BY <3>1 DEF Rows
    <3> QED
      BY <1>4, <2>2, <3>1, <3>2
  <2> QED
    BY <1>4, <2>1, <2>2
<1> HIDE DEF n
<1>6. /\ Through(n) \in Claim /\ Through(n).next = n /\ Through(n).committed = n
      /\ Through(n).handled = 0..(n - 1) /\ Through(n).failed = {}
      /\ NewClaim \in Claim /\ NewClaim.next = 0 /\ NewClaim.committed = 0 /\ NewClaim.handled = {} /\ NewClaim.failed = {}
  BY <1>5 DEF Through, NewClaim, Claim
<1>7. betLog \in Seq(BetMessage) /\ Len(betLog) = n /\ (n = 1 => betLog[1].sel = "s0")
  <2>1. EarlierBet \in BetMessage /\ EarlierBet.sel = "s0"
    BY <1>3 DEF EarlierBet, BetMessage
  <2>2. betLog = [i \in 1..n |-> EarlierBet]
    BY <1>1 DEF n
  <2>3. n \in Nat
    BY <1>5
  <2>4. betLog \in Seq(BetMessage)
    BY <2>1, <2>2, <2>3
  <2>5. Len(betLog) = n
    BY <2>2, <2>3
  <2>6. n = 1 => betLog[1] = EarlierBet
    BY <2>2
  <2> QED
    BY <2>1, <2>4, <2>5, <2>6
<1>8. ManagerTypes
  <2>1. cg \in [Workers -> Claim]
    BY <1>1, <1>6 DEF n
  <2> QED
    BY <1>1, <1>2, <1>5, <1>7, <2>1, EmptySeq DEF ManagerTypes
<1>9. Rows(odds) = Rows(past) /\ Rows(updates) = Rows(past) /\ \A w \in Workers : Rows(work[w]) = {}
  BY <1>1, <1>2, RowsEmpty
<1>10. WorkOrder
  BY <1>2, <1>9 DEF WorkOrder
<1>11. RowsSound
  <2>1. ASSUME NEW r \in Rows(past) PROVE Sound(r)
    BY <1>5, <1>7, <2>1 DEF Sound
  <2> QED
    BY <1>9, <2>1 DEF RowsSound
<1>12. \A w \in Workers : /\ cg[w] = Through(n) \/ cg[w] = NewClaim
                          /\ w = "bets" => cg[w] = Through(n)
  BY <1>1 DEF n
<1>13. \A w \in Workers : TriedBelow(w)
  BY <1>5, <1>6, <1>12 DEF Tried, TriedBelow
<1>14. OnceEach
  <2>1. ASSUME NEW r \in Rows(odds) PROVE Settles(r) /\ r.src[1] = "bets"
    <3>1. n = 1 /\ r.src = <<"bets", 0>>
      BY <1>5, <1>9, <2>1
    <3>2. cg["bets"].next = 1
      BY <1>3, <1>6, <1>12, <3>1
    <3>3. r \in Rows(updates)
      BY <1>9, <2>1
    <3> QED
      BY <3>1, <3>2, <3>3 DEF Settles
  <2>2. \A w \in Workers : /\ \A k \in Tried(w) : k < cg[w].next
                           /\ cg[w].handled \cap cg[w].failed = {}
    BY <1>5, <1>6, <1>12 DEF Tried
  <2>3. \A r \in Rows(odds) \cup Rows(work["feed"]) : r.src[1] # "feed"
    BY <1>3, <1>9, <2>1
  <2> QED
    BY <2>1, <2>2, <2>3 DEF OnceEach
<1>15. UpdaterInv
  <2>1. Len(updates) = n /\ (n = 1 => updates[1].sel = "s0")
    BY <1>1, <1>5 DEF n
  <2>2. cache = [s \in Sels |-> IF s = "s0" THEN n ELSE 0] /\ cache_cg = Through(n)
    BY <1>1 DEF n
  <2>3. CASE n = 0
    BY <1>2, <1>6, <2>1, <2>2, <2>3 DEF UpdaterInv
  <2>4. CASE n = 1
    BY <1>2, <1>3, <1>6, <2>1, <2>2, <2>4 DEF UpdaterInv
  <2> QED
    BY <1>5, <2>3, <2>4
<1>16. CheckerInv
  BY <1>2 DEF CheckerInv, NotLaggingIsTried, NoLag, Quiet
<1> QED
  BY <1>8, <1>10, <1>11, <1>13, <1>14, <1>15, <1>16 DEF PipelineInv, ManagerInv

\* The inductive invariant of the pipeline holds in every state, whatever fails and
\* restarts.
THEOREM PipelineInvariant == PipelineSpec => []PipelineInv
<1>1. PipelineInv /\ [PipelineNext]_vars => PipelineInv'
  BY ManagerSteps, UpdaterSteps, CheckerSteps DEF PipelineInv
<1> QED
  BY <1>1, PipelineInitial, PTL DEF PipelineSpec

\* The type invariant, the bound on the failures included.
THEOREM PipelineTyped == PipelineSpec => []PipelineTypeOK
<1> DEFINE Bounded == Len(faults) <= MaxFaults
<1>1. PipelineInit => Bounded
  BY PipelineAssumption, EmptySeq DEF PipelineInit
<1>2. ASSUME PipelineInv, Bounded, [PipelineNext]_vars PROVE Bounded'
  <2>1. UNCHANGED faults \/ \E kind : Fails(kind)
    <3>1. ManagerActs => UNCHANGED faults \/ \E kind : Fails(kind)
      BY DEF ManagerActs, HandleNormalisedFeed, HandleBetPlaced, ManagerStep, WriteOdds, PublishOdds, CommitOffset,
             ManagerRestarts
    <3>2. UNCHANGED vars => UNCHANGED faults
      BY DEF vars
    <3> QED
      BY <1>2, <3>1, <3>2, NextSplit, WhoseState DEF Elsewhere
  <2>2. faults \in Seq(Faults) /\ Len(faults) \in Nat /\ MaxFaults \in Nat
    BY <1>2, PipelineAssumption DEF PipelineInv, ManagerInv, ManagerTypes
  <2> QED
    BY <1>2, <2>1, <2>2 DEF Fails
<1>3. PipelineInv /\ Bounded => PipelineTypeOK
  <2> SUFFICES ASSUME PipelineInv, Bounded PROVE PipelineTypeOK
    OBVIOUS
  <2>1. ManagerTypes /\ UpdaterInv /\ CheckerInv
    BY DEF PipelineInv, ManagerInv
  <2>2. cache \in [Sels -> 0..Len(updates)]
    BY <2>1 DEF UpdaterInv, ManagerTypes
  <2> QED
    BY <2>1, <2>2 DEF PipelineTypeOK, ManagerTypes, BetMessage, UpdaterInv, CheckerInv
<1> QED
  BY <1>1, <1>2, <1>3, PipelineInvariant, PTL DEF PipelineSpec

\* An offset is committed "only AFTER writing new odds to the DB AND publishing
\* odds.updated" (service.go:20): unless a process crashed, no price of a handled message
\* is in the table without its event.
THEOREM HandledPublishedAlways == PipelineSpec => []HandledIsPublished
<1>1. PipelineInv => HandledIsPublished
  <2> SUFFICES ASSUME ManagerInv, ~Crashed, NEW i \in DOMAIN odds, odds[i].src[2] \in cg[odds[i].src[1]].handled
               PROVE  \E k \in DOMAIN updates : updates[k] = odds[i]
    BY DEF PipelineInv, HandledIsPublished
  <2> DEFINE r == odds[i]
             w == r.src[1]
             n == r.src[2]
  <2>1. ManagerTypes /\ OnceEach /\ r \in Rows(odds)
    BY DEF ManagerInv, Rows
  <2>2. Settles(r) /\ w \in Workers
    BY <2>1, RowsTyped, RowTypes DEF OnceEach
  <2>3. n \in Nat /\ n < cg[w].next /\ n \notin cg[w].failed /\ cg[w].next \in Nat
    BY <2>1, <2>2, RowsTyped, RowTypes DEF OnceEach, Tried
  <2>4. r \in Rows(updates)
    BY <2>2, <2>3 DEF Settles
  <2> QED
    BY <2>4 DEF Rows
<1> QED
  BY <1>1, PipelineInvariant, PTL

\* The house has the edge in every book one signal leads to (ComputeMarketOdds,
\* service.go:324-395), for all probabilities that the clamp of the normalisers leaves.
THEOREM BookMarginAlways == PipelineSpec => []BookHasMargin
<1>1. PipelineInv => BookHasMargin
  <2> SUFFICES ASSUME ManagerInv, ~Crashed, NEW i \in DOMAIN odds, NEW j \in DOMAIN odds,
                      odds[i].sel = "s0", odds[j].sel = "s1", odds[i].src = odds[j].src
               PROVE  (odds[i].decimal - 10000) * (odds[j].decimal - 10000) < 83000000
    BY DEF PipelineInv, BookHasMargin
  <2>1. ManagerTypes /\ OnceEach /\ RowsSound /\ odds[i] \in Rows(odds) /\ odds[j] \in Rows(odds)
    BY DEF ManagerInv, Rows
  <2>2. odds[i].src[1] \in {"feed", "bets"}
    BY <2>1, RowsTyped, RowTypes DEF Workers
  <2>3. CASE odds[i].src[1] = "feed"
    <3>1. Margin(odds[i], odds[j])
      BY <2>1, <2>3 DEF OnceEach
    <3> QED
      BY <3>1 DEF Margin
  <2>4. CASE odds[i].src[1] = "bets"
    <3>1. odds[i].sel = odds[j].sel
      BY <2>1, <2>4 DEF RowsSound, Sound
    <3> QED
      BY <3>1
  <2> QED
    BY <2>2, <2>3, <2>4
<1> QED
  BY <1>1, PipelineInvariant, PTL

\* However many large bets shorten a price, it leaves a profit, and the American price
\* stored beside it, which is computed from the unrounded odds (service.go:244, 357), is
\* the price of the column within two per cent.
THEOREM AmericanFaithfulAlways == PipelineSpec => []AmericanIsFaithful
<1>1. PipelineInv => AmericanIsFaithful
  BY DEF PipelineInv, ManagerInv, RowsSound, Sound, Fair, Rows, AmericanIsFaithful
<1> QED
  BY <1>1, PipelineInvariant, PTL

\* Redis holds the latest published price of each selection when the updater is through
\* the topic (cache_updater.go:55-58), however often it processed an event again.
THEOREM QuietCacheAlways == PipelineSpec => []QuietCacheIsLatest
<1>1. PipelineInv => QuietCacheIsLatest
  <2> SUFFICES ASSUME ManagerInv, UpdaterInv, cache_cg.next = Len(updates),
                      NEW s \in Sels, NEW k \in DOMAIN updates, updates[k].sel = s,
                      \A j \in (k + 1)..Len(updates) : updates[j].sel # s
               PROVE  cache[s] \in {0, k} \/ k - 1 \in cache_cg.failed
    BY DEF PipelineInv, QuietCacheIsLatest
  <2>1. k \in 1..Len(updates) /\ Len(updates) \in Nat
    BY DEF ManagerInv, ManagerTypes
  <2>2. cache[s] = 0 \/ cache[s] >= k \/ k - 1 \in cache_cg.failed
    BY <2>1 DEF UpdaterInv
  <2>3. cache[s] \in Nat /\ cache[s] <= Len(updates) /\ (cache[s] # 0 => updates[cache[s]].sel = s)
    BY DEF UpdaterInv
  <2>4. ~(cache[s] \in (k + 1)..Len(updates))
    BY <2>1, <2>3
  <2> QED
    BY <2>1, <2>2, <2>3, <2>4
<1> QED
  BY <1>1, PipelineInvariant, PTL

\* `Not lagging' means that every bet the log end covered was handled, or failed and was
\* passed by (lag_checker.go:30), although the two offsets are read one after the other
\* and the answer is cached.
THEOREM NotLaggingAlways == PipelineSpec => []NotLaggingIsTried
<1>1. PipelineInv => NotLaggingIsTried
  BY DEF PipelineInv, CheckerInv
<1> QED
  BY <1>1, PipelineInvariant, PTL
=============================================================================
