------------------------- MODULE HybridSearchProofs -------------------------
(***************************************************************************)
(* Theorems about HybridSearch, for any documents, limits and rankings:    *)
(* what a search collects; that the threshold meant for grades drops       *)
(* nothing that was only fused, if rrf_k is large enough for the limits;   *)
(* that what both rankings agree on is the order of the candidates; and    *)
(* that the answer is the best of what was collected, and no shorter than  *)
(* deletions make it.                                                      *)
(***************************************************************************)
EXTENDS HybridSearch, FiniteSetTheorems, SequenceTheorems, TLAPS

\* The most candidates that a query is ever asked for.
Most == MaxContext * Multiplier

\* rrf_k is so large that the worst pair of ranks has 45% of the best score:
\* with rrf_k = 60, 8 chunks of context and a multiplier of 6 it is 56%.
Generous == 100 * (RRFK + 1) >= 45 * (RRFK + Most + 1)
-----------------------------------------------------------------------------
(* Scores *)

\* The product grows with each factor.
LEMMA Grows == ASSUME NEW a \in Nat, NEW b \in Nat, NEW c \in Nat, a <= b PROVE c * a <= c * b
OBVIOUS

\* A pair of ranks of at most n scores at least 2/(rrf_k + n), and at most
\* 2/(rrf_k + 1); here p, q are rrf_k plus the ranks.
LEMMA ScoreBounds ==
  ASSUME NEW p \in Nat, NEW q \in Nat, NEW l \in Nat, NEW u \in Nat, l <= p, p <= u, l <= q, q <= u
  PROVE  2 * (p * q) <= (p + q) * u /\ (p + q) * l <= 2 * (p * q)
<1>1. p * q <= p * u /\ q * p <= q * u
  BY Grows
<1>2. p * l <= p * q /\ q * l <= q * p
  BY Grows
<1>3. (p + q) * u = p * u + q * u /\ (p + q) * l = p * l + q * l /\ q * p = p * q
  OBVIOUS
<1>4. p * q \in Nat /\ p * u \in Nat /\ q * u \in Nat /\ p * l \in Nat /\ q * l \in Nat
  OBVIOUS
<1> QED BY <1>1, <1>2, <1>3, <1>4

\* The ratio of two scores, one of ranks up to u and one of ranks from l.
LEMMA RatioBound ==
  ASSUME NEW A \in Nat, NEW P \in Nat, NEW B \in Nat, NEW S \in Nat, NEW l \in Nat, NEW u \in Nat,
         2 * P <= A * u, B * l <= 2 * S, 45 * u <= 100 * l
  PROVE  45 * (B * P) <= 100 * (A * S)
<1>1. B * (2 * P) <= B * (A * u)
  BY Grows
<1>2. (A * B) * (45 * u) <= (A * B) * (100 * l)
  BY Grows
<1>3. A * (B * l) <= A * (2 * S)
  BY Grows
<1>4. /\ B * (2 * P) = 2 * (B * P) /\ B * (A * u) = (A * B) * u
      /\ (A * B) * (45 * u) = 45 * ((A * B) * u) /\ (A * B) * (100 * l) = 100 * ((A * B) * l)
      /\ A * (B * l) = (A * B) * l /\ A * (2 * S) = 2 * (A * S)
  OBVIOUS
<1>5. B * P \in Nat /\ A * S \in Nat /\ (A * B) * u \in Nat /\ (A * B) * l \in Nat
  OBVIOUS
<1> QED BY <1>1, <1>2, <1>3, <1>4, <1>5

\* Rounding cannot take a relevance below the threshold.
LEMMA Rounded ==
  ASSUME NEW x, NEW best, x.num * best.den \in Nat, best.num * x.den \in Nat \ {0}
  PROVE  /\ Normalised(x, best) \in Int
         /\ 45 * (best.num * x.den) <= 100 * (x.num * best.den) => Normalised(x, best) >= MinRelevance
<1> DEFINE num == x.num * best.den
           den == best.num * x.den
           full == (100 * num) \div den
           low == (100 * num) % den
           rest == (100 * low + den \div 2) \div den
<1>1. Normalised(x, best) = 100 * full + rest
  BY DEF Normalised
<1>2. num \in Nat /\ den \in Nat \ {0}
  OBVIOUS
<1> HIDE DEF num, den
<1>3. 100 * num \in Nat /\ full \in Nat /\ low \in Nat /\ den \div 2 \in Nat
  BY <1>2
<1>4. 45 * den <= 100 * num => full >= 45
  BY <1>2, Z3
<1> HIDE DEF full, low
<1>5. 100 * low + den \div 2 \in Nat
  BY <1>3
<1>6. rest \in Nat
  BY <1>2, <1>5
<1> HIDE DEF rest
<1> QED BY <1>1, <1>3, <1>4, <1>6 DEF num, den, MinRelevance

\* Division with remainder.
LEMMA Division ==
  ASSUME NEW m \in Nat, NEW n \in Nat \ {0}
  PROVE  m \div n \in Nat /\ m % n \in 0..(n - 1) /\ m = n * (m \div n) + (m % n)
<1>1. m \div n \in Nat
  OBVIOUS
<1>2. m % n \in 0..(n - 1)
  OBVIOUS
<1>3. m = n * (m \div n) + (m % n)
  OBVIOUS
<1> QED BY <1>1, <1>2, <1>3

\* In two steps or in one, a share in ten-thousandths is rounded to the nearest.
LEMMA RoundedOnce ==
  ASSUME NEW x, NEW best, x.num * best.den \in Nat, best.num * x.den \in Nat \ {0}
  PROVE  LET num == x.num * best.den
             den == best.num * x.den
             z == Normalised(x, best)
         IN  /\ z \in Nat
             /\ z * den <= 10000 * num + den \div 2
             /\ 10000 * num + den \div 2 < (z + 1) * den
<1> DEFINE num == x.num * best.den
           den == best.num * x.den
           full == (100 * num) \div den
           low == (100 * num) % den
           half == den \div 2
           rest == (100 * low + half) \div den
           over == (100 * low + half) % den
           z == Normalised(x, best)
<1>1. z = 100 * full + rest
  BY DEF Normalised
<1>2. num \in Nat /\ den \in Nat \ {0}
  OBVIOUS
<1> HIDE DEF z
<1> SUFFICES /\ z \in Nat
             /\ z * den <= 10000 * num + half /\ 10000 * num + half < (z + 1) * den
  BY DEF z
<1> HIDE DEF num, den
<1>4. 100 * num \in Nat /\ half \in Nat
  BY <1>2
<1>5. full \in Nat /\ low \in Nat /\ 100 * num = den * full + low
  <2>1. \A m \in Nat : m \div den \in Nat /\ m % den \in 0..(den - 1) /\ m = den * (m \div den) + (m % den)
    BY <1>2, Division
  <2>2. full \in Nat /\ low \in 0..(den - 1) /\ 100 * num = den * full + low
    BY <1>4, <2>1, Zenon
  <2> QED BY <1>2, <2>2
<1> HIDE DEF full, low, half
<1>6. 100 * low + half \in Nat
  BY <1>4, <1>5
<1>7. rest \in Nat /\ over \in 0..(den - 1) /\ 100 * low + half = den * rest + over
  BY <1>2, <1>6, Division
<1> HIDE DEF rest, over
<1>8. 10000 * num + half = den * (100 * full + rest) + over
  BY <1>2, <1>4, <1>5, <1>7
<1>9. z * den = den * (100 * full + rest) /\ (z + 1) * den = den * (100 * full + rest) + den
  BY <1>1, <1>2, <1>5, <1>7
<1>10. z \in Nat /\ den * (100 * full + rest) \in Nat
  BY <1>1, <1>2, <1>5, <1>7
<1> QED BY <1>2, <1>7, <1>8, <1>9, <1>10

\* The arithmetic of rounding two shares a/b >= c/d: the first is rounded to z,
\* the second to w.
LEMMA RoundedInOrder ==
  ASSUME NEW a \in Nat, NEW b \in Nat \ {0}, NEW c \in Nat, NEW d \in Nat \ {0}, c * b <= a * d,
         NEW z \in Nat, NEW w \in Nat,
         10000 * a + b \div 2 < (z + 1) * b, w * d <= 10000 * c + d \div 2
  PROVE  w <= z
<1>1. 2 * (b \div 2) >= b - 1 /\ 2 * (d \div 2) <= d /\ b \div 2 \in Nat /\ d \div 2 \in Nat
  OBVIOUS
<1>2. SUFFICES ASSUME z + 1 <= w PROVE FALSE
  OBVIOUS
<1> DEFINE m == 2 * z + 1
<1>3. (z + 1) * d <= w * d
  BY <1>2, Grows
<1>4. m * d <= 20000 * c
  <2>1. (z + 1) * d \in Nat /\ w * d \in Nat /\ 2 * ((z + 1) * d) = m * d + d
    OBVIOUS
  <2> QED BY <1>1, <1>3, <2>1
<1>5. 20000 * a < m * b
  <2>1. (z + 1) * b \in Nat /\ 2 * ((z + 1) * b) = m * b + b /\ m * b \in Nat
    OBVIOUS
  <2> HIDE DEF m
  <2>2. 20000 * a + 2 * (b \div 2) + 1 < 2 * ((z + 1) * b)
    BY <1>1, <2>1
  <2> QED BY <1>1, <2>1, <2>2
<1> HIDE DEF m
<1>6. m \in Nat
  BY DEF m
<1>7. b * (m * d) <= b * (20000 * c)
  BY <1>4, <1>6, Grows
<1>8. d * (20000 * a + 1) <= d * (m * b)
  BY <1>5, <1>6, Grows
<1>9. /\ b * (m * d) = (m * b) * d /\ d * (m * b) = (m * b) * d
      /\ b * (20000 * c) = 20000 * (c * b) /\ d * (20000 * a + 1) = 20000 * (a * d) + d
  BY <1>6
<1>10. c * b \in Nat /\ a * d \in Nat /\ (m * b) * d \in Nat
  BY <1>6
<1> QED BY <1>7, <1>8, <1>9, <1>10

\* Rounding keeps the order of scores that are set off against the same one.
LEMMA NormalisedInOrder ==
  ASSUME NEW x, NEW y, NEW best,
         {x.num, x.den, y.num, y.den, best.num, best.den} \subseteq Nat \ {0}
  PROVE  /\ Normalised(x, best) \in Int
         /\ AtLeast(x, y) => Normalised(x, best) >= Normalised(y, best)
<1> DEFINE a == x.num * best.den
           b == best.num * x.den
           c == y.num * best.den
           d == best.num * y.den
           z == Normalised(x, best)
           w == Normalised(y, best)
           r == best.num * best.den
<1>1. a \in Nat /\ b \in Nat \ {0} /\ c \in Nat /\ d \in Nat \ {0}
  OBVIOUS
<1>2. AtLeast(x, y) => c * b <= a * d
  <2> SUFFICES ASSUME AtLeast(x, y) PROVE c * b <= a * d
    OBVIOUS
  <2>1. y.num * x.den <= x.num * y.den /\ y.num * x.den \in Nat /\ x.num * y.den \in Nat /\ r \in Nat
    BY DEF AtLeast
  <2>2. c * b = r * (y.num * x.den) /\ a * d = r * (x.num * y.den)
    OBVIOUS
  <2> HIDE DEF r
  <2> QED BY <2>1, <2>2, Grows
<1>3. z \in Nat /\ 10000 * a + b \div 2 < (z + 1) * b
  BY <1>1, RoundedOnce
<1>4. w \in Nat /\ w * d <= 10000 * c + d \div 2
  BY <1>1, RoundedOnce
<1> HIDE DEF a, b, c, d, z, w
<1>5. AtLeast(x, y) => w <= z
  BY <1>1, <1>2, <1>3, <1>4, RoundedInOrder
<1> QED BY <1>3, <1>4, <1>5 DEF z, w

\* What becomes of a fused score that is set off against another.
LEMMA FusedRelevance ==
  ASSUME NEW n \in Nat, n <= Most + 1, NEW v \in 1..n, NEW f \in 1..n, NEW b \in 1..n, NEW g \in 1..n
  PROVE  /\ Normalised(Fused(v, f), Fused(b, g)) \in Int
         /\ Generous => Normalised(Fused(v, f), Fused(b, g)) >= MinRelevance
<1> DEFINE p == RRFK + v
           q == RRFK + f
           s == RRFK + b
           t == RRFK + g
           l == RRFK + 1
           u == RRFK + n
           x == Fused(v, f)
           best == Fused(b, g)
<1>1. RRFK \in Nat \ {0} /\ Most \in Nat
  BY LimitsAssumption DEF Most
<1>2. {p, q, s, t} \subseteq l..u /\ {p, q, s, t, l, u} \subseteq Nat \ {0}
  BY <1>1
<1>3. x.num = p + q /\ x.den = p * q /\ best.num = s + t /\ best.den = s * t
  BY <1>1 DEF Fused
<1> HIDE DEF x, best
<1>4. 2 * (p * q) <= (p + q) * u /\ (s + t) * l <= 2 * (s * t)
  <2> HIDE DEF p, q, s, t, l, u
  <2> QED BY <1>2, ScoreBounds
<1>5. Generous => 45 * u <= 100 * l
  BY <1>1 DEF Generous
<1> HIDE DEF p, q, s, t, l, u
<1>6. /\ p + q \in Nat \ {0} /\ s + t \in Nat \ {0} /\ p * q \in Nat \ {0} /\ s * t \in Nat
  BY <1>2
<1>7. (p + q) * (s * t) \in Nat /\ (s + t) * (p * q) \in Nat \ {0}
  BY <1>6
<1>8. Generous => 45 * ((s + t) * (p * q)) <= 100 * ((p + q) * (s * t))
  BY <1>2, <1>4, <1>5, <1>6, RatioBound
<1>9. /\ Normalised(x, best) \in Int
      /\ Generous => Normalised(x, best) >= MinRelevance
  BY <1>3, <1>7, <1>8, Rounded
<1> QED BY <1>9 DEF x, best

\* The sum of the inverses of p and q is more than that of greater numbers.
LEMMA GreaterInverses ==
  ASSUME NEW p \in Nat \ {0}, NEW q \in Nat \ {0}, NEW s \in Nat, NEW t \in Nat,
         p <= s, q <= t, p < s \/ q < t
  PROVE  (s + t) * (p * q) < (p + q) * (s * t)
<1> DEFINE d == s - p
           e == t - q
<1>1. d \in Nat /\ e \in Nat /\ (d > 0 \/ e > 0) /\ s = p + d /\ t = q + e
  OBVIOUS
<1>2. (p + q) * (s * t) = (s + t) * (p * q) + (p * s) * e + (q * t) * d
  OBVIOUS
<1>3. p * s \in Nat \ {0} /\ q * t \in Nat \ {0}
  <2>1. s \in Nat \ {0} /\ t \in Nat \ {0}
    OBVIOUS
  <2> QED BY <2>1
<1>4. (p * s) * e \in Nat /\ (q * t) * d \in Nat
  <2> HIDE DEF d, e
  <2> QED BY <1>1, <1>3
<1>5. (p * s) * e > 0 \/ (q * t) * d > 0
  <2>1. \A m \in Nat \ {0}, n \in Nat \ {0} : m * n > 0
    OBVIOUS
  <2> HIDE DEF d, e
  <2> QED BY <1>1, <1>3, <2>1
<1>6. (s + t) * (p * q) \in Nat
  OBVIOUS
<1> HIDE DEF d, e
<1> QED BY <1>2, <1>4, <1>5, <1>6

\* A pair of ranks has a higher score than one that is no better in either
\* ranking and worse in one.
LEMMA HigherScore ==
  ASSUME NEW v \in Nat \ {0}, NEW f \in Nat \ {0}, NEW w \in Nat \ {0}, NEW g \in Nat \ {0},
         v <= w, f <= g, v < w \/ f < g
  PROVE  ~AtLeast(Fused(w, g), Fused(v, f))
<1> DEFINE p == RRFK + v
           q == RRFK + f
           s == RRFK + w
           t == RRFK + g
<1>1. RRFK \in Nat \ {0}
  BY LimitsAssumption
<1>2. {p, q, s, t} \subseteq Nat \ {0} /\ p <= s /\ q <= t /\ (p < s \/ q < t)
  BY <1>1
<1>3. /\ Fused(v, f).num = p + q /\ Fused(v, f).den = p * q
      /\ Fused(w, g).num = s + t /\ Fused(w, g).den = s * t
  BY <1>1 DEF Fused
<1> HIDE DEF p, q, s, t
<1>4. (s + t) * (p * q) < (p + q) * (s * t)
  BY <1>2, GreaterInverses
<1>5. (s + t) * (p * q) \in Nat /\ (p + q) * (s * t) \in Nat
  BY <1>2
<1> QED BY <1>3, <1>4, <1>5 DEF AtLeast
-----------------------------------------------------------------------------
(* Sets and rankings *)

\* The smaller of two numbers.
LEMMA MinOfTwo ==
  ASSUME NEW a \in Int, NEW b \in Int
  PROVE  Min({a, b}) \in {a, b} /\ Min({a, b}) <= a /\ Min({a, b}) <= b
<1> DEFINE IsMin(x) == x \in {a, b} /\ \A y \in {a, b} : x <= y
<1>1. \E x : IsMin(x)
  <2>1. CASE a <= b
    BY <2>1
  <2>2. CASE b <= a
    BY <2>2
  <2> QED BY <2>1, <2>2
<1>2. Min({a, b}) = CHOOSE x : IsMin(x)
  BY DEF Min
<1>3. IsMin(Min({a, b}))
  BY <1>1, <1>2
<1> QED BY <1>3

\* No query is asked for more than the most candidates.
LEMMA CandidatesBounded ==
  ASSUME NEW n \in Limits
  PROVE  CandidateK(n) \in Nat /\ CandidateK(n) <= Most
<1> DEFINE m == Min({n, MaxContext})
<1>1. n \in Nat /\ MaxContext \in Nat /\ Multiplier \in Nat
  BY LimitsAssumption
<1>2. m \in Nat /\ m <= MaxContext
  BY <1>1, MinOfTwo
<1> HIDE DEF m
<1>3. Multiplier * m <= Multiplier * MaxContext
  BY <1>1, <1>2, Grows
<1>4. m * Multiplier = Multiplier * m /\ Most = Multiplier * MaxContext /\ m * Multiplier \in Nat
  BY <1>1, <1>2 DEF Most
<1> QED BY <1>3, <1>4 DEF CandidateK, m

\* A sequence of the elements of a finite set.
LEMMA SequenceOfSet ==
  ASSUME NEW S, IsFiniteSet(S), NEW r \in SetToSeqs(S)
  PROVE  r \in Seq(S) /\ Len(r) = Cardinality(S) /\ IsInjective(r)
<1>1. Cardinality(S) \in Nat
  BY FS_CardinalityType
<1>2. r \in [1..Cardinality(S) -> S] /\ IsInjective(r)
  BY DEF SetToSeqs, IsInjective
<1>3. r \in Seq(S)
  BY <1>1, <1>2, SeqDef
<1> QED BY <1>1, <1>2, <1>3, LenProperties

\* A rank is between the first and the one after the last.
LEMMA Ranks ==
  ASSUME NEW S, NEW r \in Seq(S), NEW k \in Nat, Len(r) <= k, NEW c
  PROVE  RankIn(c, r, k) \in 1..(k + 1)
<1>1. Len(r) \in Nat /\ DOMAIN r = 1..Len(r)
  BY LenProperties
<1>2. CASE Contains(r, c)
  <2>1. \E i \in DOMAIN r : r[i] = c
    BY <1>1, <1>2 DEF Contains
  <2>2. RankIn(c, r, k) = CHOOSE i \in DOMAIN r : r[i] = c
    BY <1>2 DEF RankIn
  <2>3. RankIn(c, r, k) \in DOMAIN r
    BY <2>1, <2>2
  <2> QED BY <1>1, <2>3
<1>3. CASE ~Contains(r, c)
  BY <1>3 DEF RankIn, AbsentRank
<1> QED BY <1>2, <1>3

\* What a ranking has before another thing has the better rank in it.
LEMMA RankOrder ==
  ASSUME NEW S, NEW r \in Seq(S), NEW k \in Nat, Len(r) <= k, IsInjective(r),
         NEW a, NEW b, a # b, NoWorse(a, b, r)
  PROVE  /\ RankIn(a, r, k) <= RankIn(b, r, k)
         /\ b \in Range(r) => RankIn(a, r, k) < RankIn(b, r, k)
<1>1. Len(r) \in Nat /\ DOMAIN r = 1..Len(r)
  BY LenProperties
<1>2. \A c : RankIn(c, r, k) \in 1..(k + 1)
  BY Ranks
<1>3. ASSUME NEW i \in DOMAIN r PROVE RankIn(r[i], r, k) = i
  <2>1. Contains(r, r[i])
    BY <1>1 DEF Contains
  <2>2. \A j \in DOMAIN r : r[j] = r[i] => j = i
    BY DEF IsInjective
  <2> QED BY <2>1, <2>2 DEF RankIn
<1>4. CASE b \in Range(r)
  <2>1. PICK j \in DOMAIN r : r[j] = b
    BY <1>4 DEF Range
  <2>2. PICK i \in 1..j : r[i] = a
    BY <2>1 DEF NoWorse
  <2>3. i \in DOMAIN r /\ i < j
    BY <1>1, <2>1, <2>2
  <2> QED BY <1>1, <1>3, <2>1, <2>2, <2>3
<1>5. CASE b \notin Range(r)
  <2>1. ~Contains(r, b)
    BY <1>1, <1>5 DEF Contains, Range
  <2>2. RankIn(b, r, k) = k + 1
    BY <2>1 DEF RankIn, AbsentRank
  <2> QED BY <1>2, <1>5, <2>2
<1> QED BY <1>4, <1>5

\* The candidates are some of those that have a score.
LEMMA TopsAreIds ==
  ASSUME NEW ids, IsFiniteSet(ids), NEW score, NEW n, NEW t \in Tops(ids, score, n)
  PROVE  t \in Seq(ids)
<1>1. PICK s \in kSubset(Min({n, Cardinality(ids)}), ids) : t \in SetToSeqs(s)
  BY DEF Tops
<1>2. s \in SUBSET ids
  BY DEF kSubset
<1>3. IsFiniteSet(s)
  BY <1>2, FS_Subset
<1>4. t \in Seq(s)
  BY <1>1, <1>3, SequenceOfSet
<1> QED BY <1>2, <1>4, SeqMonotonic
-----------------------------------------------------------------------------
(* Listing a set in order *)

\* R orders S strictly and totally.
Orders(R, S) == /\ \A x \in S : <<x, x>> \notin R
                /\ \A x, y \in S : x # y => <<x, y>> \in R \/ <<y, x>> \in R
                /\ \A x, y, z \in S : <<x, y>> \in R /\ <<y, z>> \in R => <<x, z>> \in R

\* What is listed is the set, each element once, in the order.
LEMMA ListedInOrder ==
  ASSUME NEW S, IsFiniteSet(S), NEW R, Orders(R, S)
  PROVE  LET n == Cardinality(S)
             l == Listed(S, R)
         IN  /\ n \in Nat /\ l \in [1..n -> S]
             /\ \A x \in S : \E p \in 1..n : l[p] = x
             /\ \A p, q \in 1..n : p < q => <<l[p], l[q]>> \in R
<1> DEFINE n == Cardinality(S)
           l == Listed(S, R)
           Before(x) == {i \in S : <<i, x>> \in R}
           pos == [x \in S |-> Cardinality(Before(x))]
<1>1. n \in Nat
  BY FS_CardinalityType
<1>2. \A x \in S : pos[x] \in 0..(n - 1) /\ IsFiniteSet(Before(x))
  <2> SUFFICES ASSUME NEW x \in S PROVE pos[x] \in 0..(n - 1) /\ IsFiniteSet(Before(x))
    OBVIOUS
  <2>1. Before(x) \in SUBSET (S \ {x})
    BY DEF Orders
  <2>2. IsFiniteSet(S \ {x}) /\ Cardinality(S \ {x}) = n - 1
    BY FS_RemoveElement
  <2>3. IsFiniteSet(Before(x)) /\ Cardinality(Before(x)) <= n - 1
    BY <2>1, <2>2, FS_Subset
  <2>4. Cardinality(Before(x)) \in Nat
    BY <2>3, FS_CardinalityType
  <2> QED BY <1>1, <2>3, <2>4
<1>3. \A x, y \in S : <<x, y>> \in R => pos[x] < pos[y]
  <2> SUFFICES ASSUME NEW x \in S, NEW y \in S, <<x, y>> \in R PROVE pos[x] < pos[y]
    OBVIOUS
  <2>1. Before(x) \in SUBSET Before(y) /\ x \in Before(y) /\ x \notin Before(x)
    BY DEF Orders
  <2>2. /\ Cardinality(Before(x)) <= Cardinality(Before(y))
        /\ Cardinality(Before(y)) = Cardinality(Before(x)) => Before(y) = Before(x)
    BY <1>2, <2>1, FS_Subset
  <2>3. pos[x] \in Nat /\ pos[y] \in Nat
    BY <1>2
  <2> QED BY <2>1, <2>2, <2>3
<1>4. pos \in [S -> 0..(n - 1)]
  BY <1>2
<1>5. \A x, y \in S : pos[x] = pos[y] => x = y
  <2> SUFFICES ASSUME NEW x \in S, NEW y \in S, pos[x] = pos[y], x # y PROVE FALSE
    OBVIOUS
  <2>1. pos[x] < pos[y] \/ pos[y] < pos[x]
    BY <1>3 DEF Orders
  <2>2. pos[x] \in Nat /\ pos[y] \in Nat
    BY <1>2
  <2> QED BY <2>1, <2>2
<1> HIDE DEF pos
<1>6. pos \in Injection(S, 0..(n - 1))
  BY <1>4, <1>5 DEF Injection, IsInjective
<1>7. IsFiniteSet(0..(n - 1)) /\ Cardinality(0..(n - 1)) = n
  BY <1>1, FS_Interval
<1>8. \A k \in 0..(n - 1) : \E x \in S : pos[x] = k
  <2>1. pos \in Surjection(S, 0..(n - 1))
    BY <1>6, <1>7, FS_Injection
  <2> QED BY <2>1 DEF Surjection
<1>9. \A p \in 1..n : l[p] \in S /\ pos[l[p]] = p - 1
  <2> SUFFICES ASSUME NEW p \in 1..n PROVE l[p] \in S /\ pos[l[p]] = p - 1
    OBVIOUS
  <2>1. l[p] = CHOOSE j \in S : Cardinality(Before(j)) = p - 1
    BY DEF Listed
  <2>2. \A j \in S : pos[j] = Cardinality(Before(j))
    BY DEF pos
  <2>3. p - 1 \in 0..(n - 1)
    BY <1>1
  <2>4. \E j \in S : Cardinality(Before(j)) = p - 1
    BY <1>8, <2>2, <2>3
  <2> HIDE DEF Before, l
  <2> QED BY <2>1, <2>2, <2>4
<1>10. l \in [1..n -> S]
  BY <1>9 DEF Listed
<1>11. \A x \in S : \E p \in 1..n : l[p] = x
  <2> SUFFICES ASSUME NEW x \in S PROVE \E p \in 1..n : l[p] = x
    OBVIOUS
  <2>1. pos[x] + 1 \in 1..n /\ pos[x] \in Int
    BY <1>1, <1>4
  <2>2. l[pos[x] + 1] \in S /\ pos[l[pos[x] + 1]] = pos[x]
    BY <1>9, <2>1
  <2> QED BY <1>5, <2>1, <2>2
<1>12. \A p, q \in 1..n : p < q => <<l[p], l[q]>> \in R
  <2> SUFFICES ASSUME NEW p \in 1..n, NEW q \in 1..n, p < q PROVE <<l[p], l[q]>> \in R
    OBVIOUS
  <2>1. l[p] \in S /\ l[q] \in S /\ pos[l[p]] = p - 1 /\ pos[l[q]] = q - 1
    BY <1>9
  <2>2. l[p] # l[q]
    BY <1>1, <2>1
  <2>3. ~(<<l[q], l[p]>> \in R)
    BY <1>1, <1>3, <2>1
  <2> HIDE DEF l
  <2> QED BY <2>1, <2>2, <2>3 DEF Orders
<1> QED BY <1>1, <1>10, <1>11, <1>12
-----------------------------------------------------------------------------
(* Grading, sorting and selecting rows *)

Row == [chunk : Chunk, relevance : Int]

Sorted(r) == \A i, j \in DOMAIN r : i < j => r[i].relevance >= r[j].relevance

\* A list is a function on the numbers up to its length.
LEMMA ListLength ==
  ASSUME NEW S, NEW n \in Nat, NEW r \in [1..n -> S]
  PROVE  r \in Seq(S) /\ Len(r) = n /\ DOMAIN r = 1..n
<1>1. r \in Seq(S)
  BY SeqDef
<1> QED BY <1>1, LenProperties

\* The rows of a sequence are numbered.
LEMMA Numbered ==
  ASSUME NEW r \in Seq(Row)
  PROVE  /\ Len(r) \in Nat /\ DOMAIN r = 1..Len(r) /\ IsFiniteSet(DOMAIN r) /\ Cardinality(DOMAIN r) = Len(r)
         /\ \A i \in DOMAIN r : r[i] \in Row /\ r[i].relevance \in Int
<1>1. Len(r) \in Nat /\ DOMAIN r = 1..Len(r)
  BY LenProperties
<1>2. IsFiniteSet(1..Len(r)) /\ Cardinality(1..Len(r)) = Len(r)
  BY <1>1, FS_Interval
<1>3. \A i \in DOMAIN r : r[i] \in Row
  BY <1>1, ElementOfSeq
<1> QED BY <1>1, <1>2, <1>3 DEF Row

\* What is selected from sorted rows is the best that passes.
LEMMA SelectedIsBest ==
  ASSUME NEW r \in Seq(Row), Sorted(r), NEW n \in Nat
  PROVE  LET s == Selected(r, n)
         IN  /\ Cardinality(Relevant(r)) \in Nat
             /\ s \in Seq(Row) /\ Len(s) = Min({n, Cardinality(Relevant(r))})
             /\ \A p \in DOMAIN s : \E i \in DOMAIN r : s[p] = r[i]
             /\ Sorted(s)
             /\ \A i \in Relevant(r) : \/ \E p \in DOMAIN s : s[p] = r[i]
                                       \/ Len(s) = n /\ (n > 0 => s[n].relevance >= r[i].relevance)
<1> DEFINE R == Relevant(r)
           c == Cardinality(R)
           m == Min({n, c})
           l == Listed(R, Earlier(r))
           s == Selected(r, n)
<1>1. /\ Len(r) \in Nat /\ DOMAIN r = 1..Len(r) /\ IsFiniteSet(DOMAIN r)
      /\ \A i \in DOMAIN r : r[i] \in Row /\ r[i].relevance \in Int
  BY Numbered
<1>2. R \in SUBSET DOMAIN r
  BY DEF Relevant
<1>3. IsFiniteSet(R)
  BY <1>1, <1>2, FS_Subset
<1>4. Orders(Earlier(r), R)
  BY <1>1, <1>2 DEF Orders, Earlier
<1>5. /\ c \in Nat /\ l \in [1..c -> R]
      /\ \A i \in R : \E p \in 1..c : l[p] = i
      /\ \A p, q \in 1..c : p < q => <<l[p], l[q]>> \in Earlier(r)
  BY <1>3, <1>4, ListedInOrder
<1>6. s = [p \in 1..m |-> r[l[p]]]
  BY DEF Selected
<1> HIDE DEF R, c, l, s
<1>7. m \in Nat /\ m <= n /\ m <= c /\ (m = n \/ m = c)
  <2>1. n \in Nat /\ c \in Nat
    BY <1>5
  <2>2. \A k \in Int, j \in Int : Min({k, j}) \in {k, j} /\ Min({k, j}) <= k /\ Min({k, j}) <= j
    BY MinOfTwo, Zenon
  <2>3. n \in Int /\ c \in Int
    BY <2>1
  <2>4. m \in {n, c} /\ m <= n /\ m <= c
    BY <2>2, <2>3, Zenon
  <2> QED BY <2>1, <2>4
<1> HIDE DEF m
<1>8. \A p \in 1..c : l[p] \in R /\ l[p] \in DOMAIN r /\ r[l[p]] \in Row /\ r[l[p]].relevance \in Int
  BY <1>1, <1>2, <1>5
<1>9. \A p \in 1..m : p \in 1..c
  BY <1>5, <1>7
<1>10. s \in Seq(Row) /\ Len(s) = m /\ DOMAIN s = 1..m
  <2>1. s \in [1..m -> Row]
    BY <1>6, <1>8, <1>9
  <2> QED BY <1>7, <2>1, ListLength
<1>11. \A p, q \in 1..c : p < q => r[l[p]].relevance >= r[l[q]].relevance
  <2> SUFFICES ASSUME NEW p \in 1..c, NEW q \in 1..c, p < q PROVE r[l[p]].relevance >= r[l[q]].relevance
    OBVIOUS
  <2>1. l[p] < l[q]
    BY <1>5 DEF Earlier
  <2> QED BY <1>8, <2>1 DEF Sorted
<1>12. Sorted(s)
  BY <1>6, <1>9, <1>10, <1>11 DEF Sorted
<1>13. \A p \in DOMAIN s : \E i \in DOMAIN r : s[p] = r[i]
  BY <1>6, <1>8, <1>9, <1>10
<1>14. \A i \in R : \/ \E p \in DOMAIN s : s[p] = r[i]
                    \/ Len(s) = n /\ (n > 0 => s[n].relevance >= r[i].relevance)
  <2> SUFFICES ASSUME NEW i \in R, ~\E p \in DOMAIN s : s[p] = r[i]
               PROVE  Len(s) = n /\ (n > 0 => s[n].relevance >= r[i].relevance)
    OBVIOUS
  <2>1. PICK p \in 1..c : l[p] = i
    BY <1>5
  <2>2. p \notin 1..m
    BY <1>6, <1>10, <2>1
  <2>3. m < p /\ m = n
    BY <1>5, <1>7, <2>2
  <2>4. n > 0 => s[n] = r[l[n]] /\ n \in 1..c
    BY <1>5, <1>7, <1>6, <2>3
  <2> QED BY <1>10, <1>11, <2>1, <2>3, <2>4
<1> QED BY <1>5, <1>10, <1>12, <1>13, <1>14 DEF R, c, m, s

\* Reranked rows are the graded ones, sorted.
LEMMA RerankedInOrder ==
  ASSUME rows \in Seq(Row), Sorted(rows), \A x \in DOMAIN grades : grades[x] \in Int
  PROVE  LET t == Reranked(rows, grades)
         IN  /\ t \in Seq(Row) /\ Sorted(t)
             /\ \A i \in DOMAIN t : \E j \in DOMAIN rows : t[i] = Graded(rows[j])
             /\ \A j \in DOMAIN rows : \E i \in DOMAIN t : t[i] = Graded(rows[j])
<1> DEFINE g == Regraded(rows, grades)
           l == Listed(DOMAIN g, Better(g))
           n == Len(rows)
           t == Reranked(rows, grades)
<1>1. /\ n \in Nat /\ DOMAIN rows = 1..n
      /\ \A i \in DOMAIN rows : rows[i] \in Row
  BY Numbered
<1>2. \A j \in DOMAIN rows : g[j] = Graded(rows[j]) /\ g[j] \in Row
  <2> SUFFICES ASSUME NEW j \in DOMAIN rows PROVE g[j] = Graded(rows[j]) /\ g[j] \in Row
    OBVIOUS
  <2>1. /\ rows[j] = [chunk |-> rows[j].chunk, relevance |-> rows[j].relevance]
        /\ rows[j].chunk \in Chunk /\ rows[j].relevance \in Int
    BY <1>1 DEF Row
  <2>2. Graded(rows[j]) = [chunk |-> rows[j].chunk, relevance |-> Final(rows[j])]
    BY <2>1 DEF Graded
  <2>3. g[j] = [chunk |-> rows[j].chunk, relevance |-> Final(rows[j])]
    BY <2>1 DEF Regraded, Final
  <2>4. Final(rows[j]) \in Int
    BY <2>1 DEF Final
  <2> QED BY <2>1, <2>2, <2>3, <2>4 DEF Row
<1>3. DOMAIN g = 1..n
  BY <1>1 DEF Regraded
<1>4. CASE DOMAIN grades = {}
  <2>1. t = rows
    BY <1>4 DEF Reranked
  <2>2. \A j \in DOMAIN rows : Graded(rows[j]) = rows[j]
    BY <1>1, <1>4 DEF Graded, Final, Row
  <2> QED BY <2>1, <2>2
<1>5. CASE DOMAIN grades # {}
  <2>1. t = [p \in 1..n |-> g[l[p]]]
    BY <1>3, <1>5 DEF Reranked, ByRelevance
  <2>2. g \in [1..n -> Row]
    BY <1>1, <1>2, <1>3 DEF Regraded
  <2> HIDE DEF g
  <2>3. g \in Seq(Row)
    BY <1>1, <2>2, ListLength
  <2>4. /\ IsFiniteSet(DOMAIN g) /\ Cardinality(DOMAIN g) = n
        /\ \A i \in DOMAIN g : g[i].relevance \in Int
    BY <1>3, <2>3, Numbered
  <2>5. Orders(Better(g), DOMAIN g)
    BY <1>1, <1>3, <2>4 DEF Orders, Better
  <2>6. /\ l \in [1..n -> DOMAIN g]
        /\ \A j \in DOMAIN g : \E p \in 1..n : l[p] = j
        /\ \A p, q \in 1..n : p < q => <<l[p], l[q]>> \in Better(g)
    BY <2>4, <2>5, ListedInOrder
  <2> HIDE DEF l, t, n
  <2>7. t \in [1..n -> Row]
    BY <1>3, <2>1, <2>2, <2>6
  <2>8. t \in Seq(Row) /\ DOMAIN t = 1..n
    BY <1>1, <2>7, ListLength
  <2>9. Sorted(t)
    <3> SUFFICES ASSUME NEW p \in 1..n, NEW q \in 1..n, p < q PROVE t[p].relevance >= t[q].relevance
      BY <2>8 DEF Sorted
    <3>1. <<l[p], l[q]>> \in Better(g) /\ l[p] \in DOMAIN g /\ l[q] \in DOMAIN g
      BY <2>6
    <3>2. g[l[p]].relevance >= g[l[q]].relevance
      BY <2>4, <3>1 DEF Better
    <3> QED BY <2>1, <3>2
  <2>10. \A p \in DOMAIN t : \E j \in DOMAIN rows : t[p] = Graded(rows[j])
    BY <1>1, <1>2, <1>3, <2>1, <2>6, <2>8
  <2>11. \A j \in DOMAIN rows : \E p \in DOMAIN t : t[p] = Graded(rows[j])
    BY <1>1, <1>2, <1>3, <2>1, <2>6, <2>8
  <2> QED BY <2>8, <2>9, <2>10, <2>11 DEF t
<1> QED BY <1>4, <1>5
-----------------------------------------------------------------------------
(* The invariant *)

Stages == {"idle", "ranked", "collecting", "done", "failed"}

\* The store is as the ledger has it.
Store == LedgerTypeOK /\ \A d \in Docs : Len(chunks[d]) <= MaxChunks

\* Rows with a chunk that was shown and a relevance that passes.
Kept == {r \in [chunk : shown, relevance : Int] : Generous => r.relevance >= MinRelevance}

\* A ranking, as a query with this limit returns it.
Ranking(r) == r \in Seq(shown) /\ Len(r) <= CandidateK(limit) /\ IsInjective(r)

\* The rankings are fused.
Scored == at \in {"collecting", "done"}

Candidates == Range(vector) \cup Range(fulltext)

\* Since the search began, what the caller may see is in shown, and so is all
\* that was found.
Seen == at # "idle" => /\ limit \in Limits /\ Mine \subseteq shown
                       /\ Ranking(vector)
                       /\ rows \in Seq(Kept)

\* The best of what was found.
Chosen == top \in Tops(Candidates, Score(fulltext), FetchLimit(limit, rerank))

\* What is still to be collected was found, and the best of it was chosen.
Found == Scored => /\ Ranking(fulltext) /\ Chosen
                   /\ top \in Seq(Candidates) /\ pending \in Seq(Candidates)
                   /\ pending # <<>> => top # <<>>

IInv == /\ Store /\ shown \subseteq Chunk
        /\ at \in Stages /\ (at \in {"idle", "ranked"} => rows = <<>>)
        /\ Seen /\ Found

\* There are finitely many chunks.
LEMMA FinitelyMany == MaxChunks \in Nat /\ IsFiniteSet(Chunk)
<1>1. MaxChunks \in Nat /\ IsFiniteSet(Docs)
  BY LimitsAssumption
<1>2. IsFiniteSet(1..MaxChunks)
  BY <1>1, FS_Interval
<1> QED BY <1>1, <1>2, FS_Product DEF Chunk

\* The chunks of the store.
LEMMA StoredChunks ==
  ASSUME Store
  PROVE  Mine \subseteq Chunk /\ Searchable = Mine
<1>1. ASSUME NEW d \in Docs PROVE ChunksOf(d) \subseteq Chunk
  <2>1. chunks[d] \in Seq(Embedding) /\ Len(chunks[d]) <= MaxChunks
    BY DEF Store, LedgerTypeOK
  <2>2. Len(chunks[d]) \in Nat /\ DOMAIN chunks[d] = 1..Len(chunks[d])
    BY <2>1, LenProperties
  <2>3. DOMAIN chunks[d] \subseteq 1..MaxChunks
    BY <2>1, <2>2, FinitelyMany
  <2> QED BY <2>3 DEF ChunksOf, Chunk
<1>2. Searchable = Mine
  BY DEF Searchable, Mine
<1> QED BY <1>1, <1>2 DEF Mine

\* A query returns a ranking of what the caller may see.
LEMMA QueryReturns ==
  ASSUME Store, NEW k \in Nat, NEW r \in Rankings(k)
  PROVE  r \in Seq(Mine) /\ Len(r) <= k /\ IsInjective(r)
<1>1. PICK s \in SUBSET Searchable : Cardinality(s) <= k /\ r \in SetToSeqs(s)
  BY DEF Rankings
<1>2. s \subseteq Mine /\ IsFiniteSet(s)
  BY StoredChunks, FinitelyMany, FS_Subset
<1>3. r \in Seq(s) /\ Len(r) = Cardinality(s) /\ IsInjective(r)
  BY <1>1, <1>2, SequenceOfSet
<1> QED BY <1>1, <1>2, <1>3, SeqMonotonic

\* The initial state satisfies the invariant.
LEMMA Initially == Init => IInv
<1> SUFFICES ASSUME Init PROVE IInv
  OBVIOUS
<1>1. Store
  BY EmptySeq, LimitsAssumption DEF Init, LedgerInit, Store, LedgerTypeOK
<1> QED BY <1>1 DEF Init, IInv, Seen, Found, Scored, Stages

\* The score of anything found, set off against the best candidate's.
LEMMA RelevanceKept ==
  ASSUME IInv, at = "collecting", pending # <<>>
  PROVE  LET score == Score(fulltext)
             c == Head(pending)
             r == Normalised(score[c], Reference(top, score))
         IN  c \in shown /\ r \in Int /\ (Generous => r >= MinRelevance)
<1> DEFINE k == CandidateK(limit)
           c == Head(pending)
           b == top[1]
           score == Score(fulltext)
<1>1. /\ Ranking(vector) /\ Ranking(fulltext) /\ limit \in Limits
      /\ top \in Seq(Candidates) /\ pending \in Seq(Candidates) /\ top # <<>>
  BY DEF IInv, Seen, Found, Scored
<1>2. c \in Candidates /\ b \in Candidates
  <2>1. 1 \in 1..Len(top)
    BY <1>1, EmptySeq, LenProperties
  <2> QED BY <1>1, <2>1, HeadTailProperties, ElementOfSeq
<1>3. Candidates \subseteq shown
  BY <1>1, RangeOfSeq DEF Ranking, Candidates
<1>4. k \in Nat /\ k <= Most /\ Most \in Nat
  <2>1. MaxContext \in Nat /\ Multiplier \in Nat
    BY LimitsAssumption
  <2> QED BY <1>1, <2>1, CandidatesBounded DEF Most
<1>5. \A d \in Candidates : score[d] = Fused(RankIn(d, vector, k), RankIn(d, fulltext, k))
  BY DEF Score, Candidates
<1>6. \A d : RankIn(d, vector, k) \in 1..(k + 1) /\ RankIn(d, fulltext, k) \in 1..(k + 1)
  <2>1. vector \in Seq(shown) /\ Len(vector) <= k /\ fulltext \in Seq(shown) /\ Len(fulltext) <= k
    BY <1>1 DEF Ranking
  <2> HIDE DEF k
  <2> QED BY <1>4, <2>1, Ranks
<1>7. score[c] = Fused(RankIn(c, vector, k), RankIn(c, fulltext, k))
      /\ Reference(top, score) = Fused(RankIn(b, vector, k), RankIn(b, fulltext, k))
  BY <1>2, <1>5 DEF Reference
<1>8. c \in shown
  BY <1>2, <1>3
<1> HIDE DEF k, c, b, score
<1>9. k + 1 \in Nat /\ k + 1 <= Most + 1
  BY <1>4
<1>10. /\ Normalised(score[c], Reference(top, score)) \in Int
       /\ Generous => Normalised(score[c], Reference(top, score)) >= MinRelevance
  BY <1>6, <1>7, <1>9, FusedRelevance
<1> QED BY <1>8, <1>10 DEF c, score
-----------------------------------------------------------------------------
(* The steps *)

\* A ranking of some chunks is one of more.
LEMMA MoreShown ==
  ASSUME shown \subseteq shown'
  PROVE  /\ \A r : r \in Seq(shown) => r \in Seq(shown')
         /\ \A r : r \in Seq(Kept) => r \in Seq(Kept')
<1>1. Kept \subseteq Kept'
  BY DEF Kept
<1> QED BY <1>1, SeqMonotonic

\* Nothing is chosen twice.
LEMMA SameChoice ==
  ASSUME UNCHANGED <<rerank, limit, vector, fulltext, top>>
  PROVE  Candidates' = Candidates /\ Score(fulltext)' = Score(fulltext) /\ Chosen' = Chosen
BY DEF Candidates, Score, Chosen, FetchLimit

\* The vector query.
LEMMA QueryKeeps == ASSUME IInv, NEW n \in Limits, Query(n) PROVE IInv'
<1>1. /\ UNCHANGED <<status, chunks, rows>> /\ limit' = n /\ shown' = Mine /\ at' = "ranked"
      /\ rows = <<>> /\ vector' \in Rankings(CandidateK(n))
  BY DEF IInv, Query
<1>2. Store' /\ Mine' = Mine
  BY <1>1 DEF IInv, Store, LedgerTypeOK, Mine, ChunksOf
<1>3. Store /\ Mine \subseteq Chunk
  BY StoredChunks DEF IInv
<1>4. CandidateK(n) \in Nat
  BY CandidatesBounded
<1>5. vector' \in Seq(Mine) /\ Len(vector') <= CandidateK(n) /\ IsInjective(vector')
  BY <1>1, <1>3, <1>4, QueryReturns
<1>6. rows' \in Seq(Kept')
  BY <1>1, EmptySeq
<1>7. Ranking(vector)'
  BY <1>1, <1>5 DEF Ranking
<1> QED BY <1>1, <1>2, <1>3, <1>6, <1>7 DEF IInv, Seen, Found, Scored, Stages, Chunk

\* The full-text query and the fusion.
LEMMA FuseKeeps == ASSUME IInv, Fuse PROVE IInv'
<1>1. /\ UNCHANGED <<status, chunks, rerank, limit, vector, rows, shown>>
      /\ at = "ranked" /\ at' = "collecting"
      /\ fulltext' \in Rankings(CandidateK(limit)) /\ pending' = top'
  BY DEF Fuse
<1>2. Store' /\ Mine' = Mine /\ Kept' = Kept
  BY <1>1 DEF IInv, Store, LedgerTypeOK, Mine, ChunksOf, Kept
<1>3. /\ limit \in Limits /\ Mine \subseteq shown /\ Ranking(vector) /\ rows \in Seq(Kept)
      /\ Store /\ shown \subseteq Chunk
  BY <1>1 DEF IInv, Seen
<1>4. CandidateK(limit) \in Nat
  BY <1>3, CandidatesBounded
<1>5. fulltext' \in Seq(Mine) /\ Len(fulltext') <= CandidateK(limit) /\ IsInjective(fulltext')
  BY <1>1, <1>3, <1>4, QueryReturns
<1>6. Ranking(fulltext)' /\ Ranking(vector)'
  BY <1>1, <1>3, <1>5, SeqMonotonic DEF Ranking
<1>7. Candidates' \subseteq shown
  BY <1>1, <1>6, RangeOfSeq DEF Ranking, Candidates
<1>8. IsFiniteSet(Candidates')
  BY <1>3, <1>7, FinitelyMany, FS_Subset
<1>9. top' \in Tops(Candidates', Score(fulltext'), FetchLimit(limit, rerank))
  BY <1>1 DEF Fuse, Score, Candidates
<1>10. top' \in Seq(Candidates')
  BY <1>8, <1>9, TopsAreIds
<1>11. Score(fulltext') = Score(fulltext)' /\ FetchLimit(limit, rerank)' = FetchLimit(limit, rerank)
  BY <1>1 DEF Score, FetchLimit
<1>12. Chosen'
  BY <1>9, <1>11 DEF Chosen
<1> QED BY <1>1, <1>2, <1>3, <1>6, <1>10, <1>12 DEF IInv, Seen, Found, Stages, Chunk

\* The next candidate is collected, or gone.
LEMMA CollectKeeps == ASSUME IInv, Collect PROVE IInv'
<1>1. /\ UNCHANGED <<status, chunks, at, rerank, limit, vector, fulltext, top, shown>>
      /\ at = "collecting" /\ pending # <<>> /\ pending' = Tail(pending)
  BY DEF Collect
<1>2. Store' /\ Mine' = Mine /\ Kept' = Kept /\ Candidates' = Candidates /\ Chosen' = Chosen
  BY <1>1, SameChoice DEF IInv, Store, LedgerTypeOK, Mine, ChunksOf, Kept
<1>3. /\ pending \in Seq(Candidates) /\ rows \in Seq(Kept)
  BY <1>1 DEF IInv, Seen, Found, Scored
<1>4. Tail(pending) \in Seq(Candidates) /\ top # <<>>
  BY <1>1, <1>3, HeadTailProperties DEF IInv, Found, Scored
<1> DEFINE score == Score(fulltext)
           row == [chunk |-> Head(pending),
                   relevance |-> Normalised(score[Head(pending)], Reference(top, score))]
<1>5. row \in Kept
  BY <1>1, RelevanceKept DEF Kept
<1>6. rows' = rows \/ rows' = Append(rows, row)
  BY DEF Collect
<1> HIDE DEF row
<1>7. rows' \in Seq(Kept)
  BY <1>3, <1>5, <1>6
<1>8. Ranking(vector)' /\ Ranking(fulltext)'
  BY <1>1 DEF IInv, Seen, Found, Scored, Ranking
<1> QED BY <1>1, <1>2, <1>3, <1>4, <1>7, <1>8 DEF IInv, Seen, Found, Scored, Stages, Chunk

\* The end of a search, good or bad.
LEMMA EndKeeps == ASSUME IInv, Finish \/ Fail PROVE IInv'
<1>1. /\ UNCHANGED <<status, chunks, rerank, limit, vector, fulltext, top, pending, rows, shown>>
      /\ at \in {"ranked", "collecting"} /\ at' \in {"done", "failed"}
      /\ at' = "done" => at = "collecting"
  BY DEF Finish, Fail
<1>2. Store' /\ Mine' = Mine /\ Kept' = Kept
  BY <1>1 DEF IInv, Store, LedgerTypeOK, Mine, ChunksOf, Kept
<1>3. Ranking(vector)' /\ (at = "collecting" => Ranking(fulltext)')
  BY <1>1 DEF IInv, Seen, Found, Scored, Ranking
<1>4. Candidates' = Candidates /\ Chosen' = Chosen
  BY <1>1, SameChoice
<1> QED BY <1>1, <1>2, <1>3, <1>4 DEF IInv, Seen, Found, Scored, Stages, Chunk

\* Uploads, tasks and deletions keep the store, and what they bring is shown.
LEMMA StoreKeeps == ASSUME IInv, StoreStep PROVE IInv'
<1>1. /\ UNCHANGED <<at, rerank, limit, vector, fulltext, top, pending, rows>>
      /\ shown' = IF at = "idle" THEN shown ELSE shown \cup Mine'
  BY DEF StoreStep, search
<1>2. PICK d \in Docs :
        \/ Submit(d) \/ Begin(d) \/ GiveUp(d) \/ Erase(d)
        \/ \E n \in 1..MaxChunks : chunks' = [chunks EXCEPT ![d] = [i \in 1..n |-> "vector"]] /\ Publish(d)
  BY DEF StoreStep
<1>3. /\ status \in [Docs -> DocumentStatus \cup {"absent", "deleted"}] /\ chunks \in [Docs -> Seq(Embedding)]
      /\ \A e \in Docs : Len(chunks[e]) <= MaxChunks
  BY DEF IInv, Store, LedgerTypeOK
<1>4. Store'
  <2>1. CASE Submit(d) \/ Begin(d) \/ GiveUp(d)
    BY <1>3, <2>1 DEF Submit, Begin, GiveUp, Store, LedgerTypeOK, DocumentStatus
  <2>2. CASE Erase(d)
    <3>1. <<>> \in Seq(Embedding) /\ Len(<<>>) <= MaxChunks
      BY EmptySeq, LimitsAssumption
    <3>2. chunks' = [chunks EXCEPT ![d] = <<>>] /\ status' = [status EXCEPT ![d] = "deleted"]
      BY <2>2 DEF Erase
    <3> QED BY <1>3, <3>1, <3>2 DEF Store, LedgerTypeOK
  <2>3. ASSUME NEW n \in 1..MaxChunks,
               chunks' = [chunks EXCEPT ![d] = [i \in 1..n |-> "vector"]], Publish(d)
        PROVE  Store'
    <3>1. chunks'[d] \in Seq(Embedding) /\ Len(chunks'[d]) \in 1..MaxChunks
      BY <2>3 DEF Publish
    <3>2. status' = [status EXCEPT ![d] = "COMPLETED"]
      BY <2>3 DEF Publish
    <3>3. \A e \in Docs : chunks'[e] = IF e = d THEN chunks'[d] ELSE chunks[e]
      BY <1>3, <2>3
    <3>4. chunks' \in [Docs -> Seq(Embedding)]
      BY <1>3, <2>3, <3>1, <3>3
    <3>5. \A e \in Docs : Len(chunks'[e]) <= MaxChunks
      BY <1>3, <3>1, <3>3, FinitelyMany
    <3>6. status' \in [Docs -> DocumentStatus \cup {"absent", "deleted"}]
      BY <1>3, <3>2 DEF DocumentStatus
    <3> QED BY <3>4, <3>5, <3>6 DEF Store, LedgerTypeOK
  <2> QED BY <1>2, <2>1, <2>2, <2>3
<1>5. Mine' \subseteq Chunk
  <2>1. ASSUME NEW e \in Docs PROVE ChunksOf(e)' \subseteq Chunk
    <3>1. chunks'[e] \in Seq(Embedding) /\ Len(chunks'[e]) <= MaxChunks
      BY <1>4 DEF Store, LedgerTypeOK
    <3>2. Len(chunks'[e]) \in Nat /\ DOMAIN chunks'[e] = 1..Len(chunks'[e])
      BY <3>1, LenProperties
    <3>3. DOMAIN chunks'[e] \subseteq 1..MaxChunks
      BY <3>1, <3>2, FinitelyMany
    <3> QED BY <3>3 DEF ChunksOf, Chunk
  <2> QED BY <2>1 DEF Mine
<1>6. shown \subseteq shown' /\ shown' \subseteq Chunk /\ (at # "idle" => Mine' \subseteq shown')
  BY <1>1, <1>5 DEF IInv
<1>7. Candidates' = Candidates /\ Chosen' = Chosen
  BY <1>1, SameChoice
<1>8. Seen' /\ Found'
  BY <1>1, <1>6, <1>7, MoreShown DEF IInv, Seen, Found, Scored, Ranking
<1> QED BY <1>1, <1>4, <1>6, <1>8 DEF IInv, Chunk

\* A step that changes nothing.
LEMMA StutterKeeps == ASSUME IInv, UNCHANGED vars PROVE IInv'
<1>1. Candidates' = Candidates /\ Chosen' = Chosen
  BY SameChoice DEF vars, search
<1> QED BY <1>1 DEF IInv, Store, LedgerTypeOK, Seen, Found, Scored, Ranking, Kept, Mine, ChunksOf, Chunk, vars, search
-----------------------------------------------------------------------------
\* The inductive invariant of a search: what was found was shown to the caller
\* since the search began, and its score passes.
THEOREM Invariance == Spec => []IInv
<1>1. IInv /\ [Next]_vars => IInv'
  BY QueryKeeps, FuseKeeps, CollectKeeps, EndKeeps, StoreKeeps, StutterKeeps DEF Next, Over
<1> QED BY Initially, <1>1, PTL DEF Spec

\* For any store that keeps the ledger's promise, a search collects only chunks
\* that were in a finished document of the caller's while it ran.
THEOREM OwnFinishedOnly == Spec => []OnlyOwnFinished
<1>1. IInv => OnlyOwnFinished
  <2> SUFFICES ASSUME IInv, NEW i \in DOMAIN rows PROVE rows[i].chunk \in shown
    BY DEF OnlyOwnFinished
  <2>1. rows \in Seq(Kept)
    BY EmptySeq DEF IInv, Seen
  <2>2. rows[i] \in Kept
    BY <2>1, ElementOfSeq, LenProperties
  <2> QED BY <2>2 DEF Kept
<1> QED BY <1>1, Invariance, PTL

\* Every row that was only fused passes the threshold.
FusedRowsPass == \A i \in DOMAIN rows : rows[i].relevance >= MinRelevance

\* With a generous rrf_k, the threshold that is meant for grades drops no fused
\* score, whatever the rankings: a search without grades loses nothing to it.
THEOREM ThresholdDropsNothing == ASSUME Generous PROVE Spec => []FusedRowsPass
<1>1. IInv => FusedRowsPass
  <2> SUFFICES ASSUME IInv, NEW i \in DOMAIN rows PROVE rows[i].relevance >= MinRelevance
    BY DEF FusedRowsPass
  <2>1. rows \in Seq(Kept)
    BY EmptySeq DEF IInv, Seen
  <2>2. rows[i] \in Kept
    BY <2>1, ElementOfSeq, LenProperties
  <2> QED BY <2>2 DEF Kept
<1> QED BY <1>1, Invariance, PTL

-----------------------------------------------------------------------------
(* What becomes of the candidates *)

\* The relevance that fusion alone gives a candidate.
Relevance(c) == Normalised(Score(fulltext)[c], Reference(top, Score(fulltext)))

\* The candidates come in the order of their scores, and none of those to come
\* is more relevant than a collected one.
Collected == Scored =>
  /\ pending \in Seq(Range(top))
  /\ \A i, j \in DOMAIN pending : i < j => AtLeast(Score(fulltext)[pending[i]], Score(fulltext)[pending[j]])
  /\ Sorted(rows)
  /\ \A i \in DOMAIN rows, j \in DOMAIN pending : rows[i].relevance >= Relevance(pending[j])

\* What was shown is there, or its document was deleted, which is for good.
Lasting == /\ at = "idle" => shown = {}
           /\ \A c \in shown : \/ status[c[1]] = "COMPLETED" /\ There(c)
                               \/ status[c[1]] = "deleted" /\ ~There(c)

\* A candidate that is neither collected nor pending is gone.
Accounted == Scored => \/ Len(rows) + Len(pending) = Len(top)
                       \/ \E i \in DOMAIN top : ~There(top[i])

\* The answer is the selection from the graded rows.
Answered == at = "done" => /\ pending = <<>>
                           /\ \A x \in DOMAIN grades : grades[x] \in Int
                           /\ answer = Selected(Reranked(rows, grades), limit)

JInv == IInv /\ Collected /\ Lasting /\ Accounted /\ Answered

\* Every candidate has a relevance, and the score decides it.
LEMMA RelevanceInOrder ==
  ASSUME IInv, Scored, NEW a \in Candidates, NEW b \in Candidates, top # <<>>
  PROVE  /\ Relevance(a) \in Int
         /\ AtLeast(Score(fulltext)[a], Score(fulltext)[b]) => Relevance(a) >= Relevance(b)
<1> DEFINE k == CandidateK(limit)
           score == Score(fulltext)
<1>1. Ranking(vector) /\ Ranking(fulltext) /\ limit \in Limits /\ top \in Seq(Candidates)
  BY DEF IInv, Seen, Found, Scored
<1>2. k \in Nat
  BY <1>1, CandidatesBounded
<1>3. top[1] \in Candidates
  BY <1>1, EmptySeq, LenProperties, ElementOfSeq
<1>4. \A c \in Candidates : score[c] = Fused(RankIn(c, vector, k), RankIn(c, fulltext, k))
  BY DEF Score, Candidates
<1>5. \A c : RankIn(c, vector, k) \in Nat \ {0} /\ RankIn(c, fulltext, k) \in Nat \ {0}
  <2>1. vector \in Seq(shown) /\ Len(vector) <= k /\ fulltext \in Seq(shown) /\ Len(fulltext) <= k
    BY <1>1 DEF Ranking
  <2> HIDE DEF k
  <2>2. \A c : RankIn(c, vector, k) \in 1..(k + 1) /\ RankIn(c, fulltext, k) \in 1..(k + 1)
    BY <1>2, <2>1, Ranks
  <2> QED BY <1>2, <2>2
<1>6. \A v, f \in Nat \ {0} : Fused(v, f).num \in Nat \ {0} /\ Fused(v, f).den \in Nat \ {0}
  <2> SUFFICES ASSUME NEW v \in Nat \ {0}, NEW f \in Nat \ {0}
               PROVE  Fused(v, f).num \in Nat \ {0} /\ Fused(v, f).den \in Nat \ {0}
    OBVIOUS
  <2>1. RRFK \in Nat \ {0}
    BY LimitsAssumption
  <2>2. Fused(v, f).num = 2 * RRFK + v + f /\ Fused(v, f).den = (RRFK + v) * (RRFK + f)
    BY DEF Fused
  <2>3. RRFK + v \in Nat \ {0} /\ RRFK + f \in Nat \ {0} /\ 2 * RRFK + v + f \in Nat \ {0}
    BY <2>1
  <2>4. \A x, y \in Nat \ {0} : x * y \in Nat \ {0}
    OBVIOUS
  <2> QED BY <2>2, <2>3, <2>4
<1>7. \A c \in Candidates : score[c].num \in Nat \ {0} /\ score[c].den \in Nat \ {0}
  BY <1>4, <1>5, <1>6
<1> DEFINE best == Reference(top, score)
<1>8. best.num \in Nat \ {0} /\ best.den \in Nat \ {0}
  BY <1>3, <1>7 DEF Reference
<1> HIDE DEF score, best
<1>9. /\ Normalised(score[a], best) \in Int
      /\ AtLeast(score[a], score[b]) => Normalised(score[a], best) >= Normalised(score[b], best)
  BY <1>7, <1>8, NormalisedInOrder
<1> QED BY <1>9 DEF score, best, Relevance

\* Once a search has begun, its limit is positive.
LEMMA LimitIsPositive == ASSUME IInv, at # "idle" PROVE limit \in Nat \ {0}
<1>1. limit \in Limits
  BY DEF IInv, Seen
<1>2. Limits \subseteq Nat \ {0}
  BY LimitsAssumption
<1> QED BY <1>1, <1>2

\* Rows have chunks and relevances.
LEMMA RowsAreRows == ASSUME IInv PROVE rows \in Seq(Row)
<1>1. rows \in Seq(Kept)
  BY EmptySeq DEF IInv, Seen, Stages
<1>2. Kept \subseteq Row
  BY DEF IInv, Kept, Row
<1> QED BY <1>1, <1>2, SeqMonotonic

\* What the caller may see now is there.
LEMMA MineIsThere ==
  ASSUME Store
  PROVE  \A c \in Mine : c[1] \in Docs /\ status[c[1]] = "COMPLETED" /\ There(c)
<1> SUFFICES ASSUME NEW d \in Docs, status[d] = "COMPLETED", NEW c \in ChunksOf(d)
             PROVE  c[1] \in Docs /\ status[c[1]] = "COMPLETED" /\ There(c)
  BY DEF Mine
<1>1. c[1] = d
  BY DEF ChunksOf
<1> QED BY <1>1 DEF There

\* The initial state satisfies the longer invariant, too.
LEMMA InitiallyMore == Init => JInv
BY Initially DEF Init, JInv, Scored, Collected, Lasting, Accounted, Answered

\* The vector query shows what is there.
LEMMA QueryKeepsMore == ASSUME JInv, NEW n \in Limits, Query(n) PROVE JInv'
<1>1. UNCHANGED <<status, chunks>> /\ shown' = Mine /\ at' = "ranked"
  BY DEF Query
<1>2. IInv'
  BY QueryKeeps DEF JInv
<1>3. \A c \in shown' : status'[c[1]] = "COMPLETED" /\ There(c)'
  BY <1>1, MineIsThere DEF JInv, IInv, There, ChunksOf
<1> QED BY <1>1, <1>2, <1>3 DEF JInv, Scored, Collected, Lasting, Accounted, Answered

\* The fusion puts the candidates in order, none of them collected.
LEMMA FuseKeepsMore == ASSUME JInv, Fuse PROVE JInv'
<1>1. /\ UNCHANGED <<status, chunks, rows, shown>>
      /\ at = "ranked" /\ at' = "collecting" /\ pending' = top'
      /\ rows = <<>>
  BY DEF Fuse, JInv, IInv
<1>2. IInv'
  BY FuseKeeps DEF JInv
<1>3. Chosen' /\ top' \in Seq(Candidates')
  BY <1>1, <1>2 DEF IInv, Found, Scored
<1>4. /\ Len(top') \in Nat /\ top' \in Seq(Range(top'))
  BY <1>3, LenProperties, SeqDef DEF Range
<1>5. \A i, j \in DOMAIN top' : i < j => AtLeast(Score(fulltext)'[top'[i]], Score(fulltext)'[top'[j]])
  BY <1>3 DEF Chosen, Tops
<1>6. DOMAIN rows' = {} /\ Len(rows') = 0
  BY <1>1
<1>7. Collected'
  BY <1>1, <1>4, <1>5, <1>6 DEF Collected, Sorted
<1>8. Accounted'
  BY <1>1, <1>4, <1>6 DEF Accounted
<1> QED BY <1>1, <1>2, <1>7, <1>8 DEF JInv, Lasting, There, ChunksOf, Answered

\* What is collected is in order, and what is not is gone.
LEMMA CollectKeepsMore == ASSUME JInv, Collect PROVE JInv'
<1> DEFINE c == Head(pending)
           row == [chunk |-> c, relevance |-> Relevance(c)]
<1>1. /\ UNCHANGED <<status, chunks, at, rerank, limit, vector, fulltext, top, grades, answer, shown>>
      /\ at = "collecting" /\ pending # <<>> /\ pending' = Tail(pending)
      /\ rows' = IF Contains(vector, c) \/ There(c) THEN Append(rows, row) ELSE rows
  BY DEF Collect, Relevance
<1>2. IInv'
  BY CollectKeeps DEF JInv
<1>3. /\ Score(fulltext)' = Score(fulltext)
      /\ \A x : There(x)' = There(x) /\ Relevance(x)' = Relevance(x)
  BY <1>1, SameChoice DEF There, ChunksOf, Relevance
<1>4. /\ pending \in Seq(Candidates) /\ pending \in Seq(Range(top)) /\ top # <<>>
      /\ top \in Seq(Candidates)
  BY <1>1 DEF JInv, IInv, Found, Collected, Scored
<1>5. /\ Len(pending) \in Nat \ {0} /\ DOMAIN pending = 1..Len(pending) /\ c = pending[1]
      /\ Len(Tail(pending)) = Len(pending) - 1 /\ DOMAIN Tail(pending) = 1..(Len(pending) - 1)
      /\ \A j \in DOMAIN Tail(pending) : Tail(pending)[j] = pending[j + 1]
      /\ Tail(pending) \in Seq(Range(top))
  BY <1>1, <1>4, EmptySeq, LenProperties, HeadTailProperties
<1>6. rows \in Seq(Row) /\ Len(rows) \in Nat /\ DOMAIN rows = 1..Len(rows) /\ Len(top) \in Nat
  BY <1>4, RowsAreRows, LenProperties DEF JInv
<1>7. \A j \in DOMAIN pending : pending[j] \in Candidates /\ Relevance(pending[j]) \in Int
  <2> SUFFICES ASSUME NEW j \in DOMAIN pending
               PROVE  pending[j] \in Candidates /\ Relevance(pending[j]) \in Int
    OBVIOUS
  <2>1. pending[j] \in Candidates
    BY <1>4, <1>5, ElementOfSeq
  <2> QED BY <1>1, <1>4, <2>1, RelevanceInOrder DEF JInv, Scored
<1>8. \A j \in DOMAIN pending : Relevance(c) >= Relevance(pending[j])
  <2> SUFFICES ASSUME NEW j \in DOMAIN pending, j # 1 PROVE Relevance(c) >= Relevance(pending[j])
    BY <1>5, <1>7
  <2>1. AtLeast(Score(fulltext)[c], Score(fulltext)[pending[j]])
    BY <1>1, <1>5 DEF JInv, Collected, Scored
  <2>2. c \in Candidates /\ pending[j] \in Candidates
    BY <1>5, <1>7
  <2> QED BY <1>1, <1>4, <2>1, <2>2, RelevanceInOrder DEF JInv, Scored
<1>9. \A i \in DOMAIN rows : rows[i].relevance >= Relevance(c) /\ rows[i].relevance \in Int
  BY <1>1, <1>5, <1>6, Numbered DEF JInv, Collected, Scored
<1> HIDE DEF row, c
<1>10. /\ Len(Append(rows, row)) = Len(rows) + 1
       /\ DOMAIN Append(rows, row) = 1..(Len(rows) + 1)
       /\ \A i \in DOMAIN rows : Append(rows, row)[i] = rows[i]
       /\ Append(rows, row)[Len(rows) + 1] = row
  <2>1. rows \in Seq(Row \cup {row})
    BY <1>6, SeqMonotonic
  <2> QED BY <1>6, <2>1, AppendProperties, LenProperties
<1>11. row.relevance = Relevance(c)
  BY DEF row
<1>12. \A i \in DOMAIN rows' : \/ i \in DOMAIN rows /\ rows'[i] = rows[i]
                               \/ i = Len(rows) + 1 /\ rows'[i].relevance = Relevance(c)
  BY <1>1, <1>6, <1>10, <1>11
<1>13. Sorted(rows')
  BY <1>1, <1>5, <1>6, <1>7, <1>9, <1>12 DEF Sorted, JInv, Collected, Scored
<1>14. \A i \in DOMAIN rows', j \in DOMAIN pending' : rows'[i].relevance >= Relevance(pending'[j])
  BY <1>1, <1>5, <1>7, <1>8, <1>9, <1>12 DEF JInv, Collected, Scored
<1>15. Collected'
  <2>1. pending' \in Seq(Range(top)')
    BY <1>1, <1>5 DEF Range
  <2>2. ASSUME NEW i \in DOMAIN pending', NEW j \in DOMAIN pending', i < j
        PROVE  AtLeast(Score(fulltext)[pending'[i]], Score(fulltext)[pending'[j]])
    <3>1. /\ i + 1 \in DOMAIN pending /\ j + 1 \in DOMAIN pending /\ i + 1 < j + 1
          /\ pending'[i] = pending[i + 1] /\ pending'[j] = pending[j + 1]
      BY <1>1, <1>5, <2>2
    <3> QED BY <1>1, <3>1 DEF JInv, Collected, Scored
  <2> QED BY <1>3, <1>13, <1>14, <2>1, <2>2 DEF Collected
<1>16. Accounted'
  <2>1. CASE \E i \in DOMAIN top : ~There(top[i])
    BY <1>1, <1>3, <2>1 DEF Accounted
  <2>2. CASE Len(rows) + Len(pending) = Len(top) /\ \A i \in DOMAIN top : There(top[i])
    <3>1. c \in Range(top)
      BY <1>4, <1>5, ElementOfSeq
    <3>2. There(c)
      BY <2>2, <3>1 DEF Range
    <3>3. Len(rows') = Len(rows) + 1 /\ Len(pending') = Len(pending) - 1
      BY <1>1, <1>5, <1>10, <3>2
    <3> QED BY <1>1, <1>5, <1>6, <2>2, <3>3 DEF Accounted
  <2> QED BY <1>1, <2>1, <2>2 DEF JInv, Accounted, Scored
<1> QED BY <1>1, <1>2, <1>3, <1>15, <1>16 DEF JInv, Lasting, Answered

\* What does not touch the candidates keeps their order.
LEMMA SameCandidates ==
  ASSUME Scored => Collected, UNCHANGED <<rerank, limit, vector, fulltext, top, pending, rows>>,
         Scored' => Scored
  PROVE  Collected'
<1>1. Score(fulltext)' = Score(fulltext) /\ \A x : Relevance(x)' = Relevance(x)
  BY SameChoice DEF Relevance
<1> QED BY <1>1 DEF Collected, Sorted

\* The end of a search: the answer is selected, or there is none.
LEMMA EndKeepsMore == ASSUME JInv, Finish \/ Fail PROVE JInv'
<1>1. /\ UNCHANGED <<status, chunks, rerank, limit, vector, fulltext, top, pending, rows, shown>>
      /\ at \in {"ranked", "collecting"} /\ at' \in {"done", "failed"}
      /\ at' = "done" => at = "collecting" /\ pending = <<>> /\ Finish
  BY DEF Finish, Fail
<1>2. IInv'
  BY EndKeeps DEF JInv
<1>3. Collected'
  BY <1>1, SameCandidates DEF JInv, Scored
<1>4. Accounted' /\ Lasting'
  BY <1>1 DEF JInv, Scored, Accounted, Lasting, There, ChunksOf
<1>5. Answered'
  <2> SUFFICES ASSUME Finish
               PROVE  /\ \A x \in DOMAIN grades' : grades'[x] \in Int
                      /\ answer' = Selected(Reranked(rows, grades'), limit)
    BY <1>1 DEF Answered
  <2>1. PICK graded : grades' \in [graded -> Grades]
    BY DEF Finish
  <2>2. Grades \subseteq Int
    BY LimitsAssumption
  <2> QED BY <2>1, <2>2 DEF Finish
<1> QED BY <1>2, <1>3, <1>4, <1>5 DEF JInv

\* Uploads, tasks and deletions: what is gone does not come back.
LEMMA StoreKeepsMore == ASSUME JInv, StoreStep PROVE JInv'
<1>1. /\ UNCHANGED <<at, rerank, limit, vector, fulltext, top, pending, rows, grades, answer>>
      /\ shown' = IF at = "idle" THEN shown ELSE shown \cup Mine'
      /\ at \notin {"done", "failed"}
  BY DEF StoreStep, search
<1>2. IInv'
  BY StoreKeeps DEF JInv
<1>3. PICK d \in Docs :
        \/ Submit(d) \/ Begin(d) \/ GiveUp(d) \/ Erase(d)
        \/ \E n \in 1..MaxChunks : chunks' = [chunks EXCEPT ![d] = [i \in 1..n |-> "vector"]] /\ Publish(d)
  BY DEF StoreStep
<1>4. /\ status \in [Docs -> DocumentStatus \cup {"absent", "deleted"}] /\ chunks \in [Docs -> Seq(Embedding)]
      /\ \A c \in shown : c[1] \in Docs
  BY DEF JInv, IInv, Store, LedgerTypeOK, Chunk
<1>5. /\ \A e \in Docs \ {d} : status'[e] = status[e] /\ chunks'[e] = chunks[e]
      /\ status[d] = "deleted" => FALSE
      /\ status[d] = "COMPLETED" => status'[d] = "deleted" /\ chunks'[d] = <<>>
  <2>1. CASE Submit(d) \/ Begin(d) \/ GiveUp(d)
    BY <1>4, <2>1 DEF Submit, Begin, GiveUp
  <2>2. CASE Erase(d)
    BY <1>4, <2>2 DEF Erase, DocumentStatus
  <2>3. CASE \E n \in 1..MaxChunks : chunks' = [chunks EXCEPT ![d] = [i \in 1..n |-> "vector"]] /\ Publish(d)
    BY <1>4, <2>3 DEF Publish
  <2> QED BY <1>3, <2>1, <2>2, <2>3
<1>6. \A c \in shown : \/ status'[c[1]] = "COMPLETED" /\ There(c)'
                       \/ status'[c[1]] = "deleted" /\ ~There(c)'
  <2> SUFFICES ASSUME NEW c \in shown
               PROVE  \/ status'[c[1]] = "COMPLETED" /\ There(c)'
                      \/ status'[c[1]] = "deleted" /\ ~There(c)'
    OBVIOUS
  <2>1. \/ status[c[1]] = "COMPLETED" /\ There(c)
        \/ status[c[1]] = "deleted" /\ ~There(c)
    BY DEF JInv, Lasting
  <2>2. CASE c[1] # d
    BY <1>4, <1>5, <2>1, <2>2 DEF There, ChunksOf
  <2>3. CASE c[1] = d
    <3>1. status'[d] = "deleted" /\ chunks'[d] = <<>>
      BY <1>5, <2>1, <2>3
    <3>2. ~There(c)'
      BY <2>3, <3>1 DEF There, ChunksOf
    <3> QED BY <2>3, <3>1, <3>2
  <2> QED BY <2>2, <2>3
<1>7. \A c \in Mine' : status'[c[1]] = "COMPLETED" /\ There(c)'
  <2> SUFFICES ASSUME NEW e \in Docs, status'[e] = "COMPLETED", NEW c \in ChunksOf(e)'
               PROVE  status'[c[1]] = "COMPLETED" /\ There(c)'
    BY DEF Mine
  <2>1. c[1] = e
    BY DEF ChunksOf
  <2> QED BY <2>1 DEF There
<1>8. Lasting'
  BY <1>1, <1>6, <1>7 DEF JInv, Lasting
<1>9. Collected'
  BY <1>1, SameCandidates DEF JInv, Scored
<1>10. \A c \in shown : ~There(c) => ~There(c)'
  <2> SUFFICES ASSUME NEW c \in shown, ~There(c) PROVE ~There(c)'
    OBVIOUS
  <2>1. status[c[1]] = "deleted" /\ c[1] \in Docs
    BY <1>4 DEF JInv, Lasting
  <2>2. chunks'[c[1]] = chunks[c[1]]
    BY <1>5, <2>1
  <2> QED BY <2>2 DEF There, ChunksOf
<1>11. Accounted'
  <2>1. ASSUME Scored, NEW i \in DOMAIN top, ~There(top[i]) PROVE (\E j \in DOMAIN top : ~There(top[j]))'
    <3>1. Ranking(vector) /\ Ranking(fulltext) /\ top \in Seq(Candidates)
      BY <2>1 DEF JInv, IInv, Seen, Found, Scored
    <3>2. Candidates \subseteq shown
      BY <3>1, RangeOfSeq DEF Ranking, Candidates
    <3>3. top[i] \in Candidates
      BY <3>1, ElementOfSeq, LenProperties
    <3>4. PICK c \in shown : c = top[i]
      BY <3>2, <3>3
    <3>5. ~There(c)'
      BY <1>10, <2>1, <3>4
    <3> QED BY <1>1, <3>4, <3>5 DEF There, ChunksOf
  <2> QED BY <1>1, <2>1 DEF JInv, Accounted, Scored
<1>12. Answered'
  BY <1>1 DEF Answered
<1> QED BY <1>2, <1>8, <1>9, <1>11, <1>12 DEF JInv

\* A step that changes nothing.
LEMMA StutterKeepsMore == ASSUME JInv, UNCHANGED vars PROVE JInv'
<1>1. IInv'
  BY StutterKeeps DEF JInv
<1>2. UNCHANGED <<status, chunks, at, rerank, limit, vector, fulltext, top, pending, rows, grades, answer, shown>>
  BY DEF vars, search
<1>3. Collected'
  BY <1>2, SameCandidates DEF JInv, Scored
<1> QED BY <1>1, <1>2, <1>3 DEF JInv, Scored, Accounted, Lasting, There, ChunksOf, Answered

\* The order and the whereabouts of the candidates: the collected rows are
\* sorted, none to come is better, and whatever is missing was deleted for good.
THEOREM CandidatesAccounted == Spec => []JInv
<1>1. JInv /\ [Next]_vars => JInv'
  BY QueryKeepsMore, FuseKeepsMore, CollectKeepsMore, EndKeepsMore, StoreKeepsMore, StutterKeepsMore DEF Next, Over
<1> QED BY InitiallyMore, <1>1, PTL DEF Spec

\* Whatever part of the rows is graded, and however: the answer is the best of
\* them, in order, and as long as the limit allows.
THEOREM AnswerIsBest == Spec => []BestAnswer
<1>1. JInv => BestAnswer
  <2> SUFFICES ASSUME JInv, at = "done" PROVE BestAnswer
    BY DEF BestAnswer
  <2> DEFINE t == Reranked(rows, grades)
  <2>1. rows \in Seq(Row) /\ Sorted(rows) /\ \A x \in DOMAIN grades : grades[x] \in Int
    BY RowsAreRows DEF JInv, Collected, Scored, Answered
  <2>2. limit \in Nat \ {0}
    BY LimitIsPositive DEF JInv
  <2>3. /\ t \in Seq(Row) /\ Sorted(t)
        /\ \A i \in DOMAIN t : \E j \in DOMAIN rows : t[i] = Graded(rows[j])
        /\ \A j \in DOMAIN rows : \E i \in DOMAIN t : t[i] = Graded(rows[j])
    BY <2>1, RerankedInOrder
  <2>4. answer = Selected(t, limit)
    BY DEF JInv, Answered
  <2> HIDE DEF t
  <2>5. /\ \A p \in DOMAIN answer : \E i \in DOMAIN t : answer[p] = t[i]
        /\ Sorted(answer)
        /\ \A i \in Relevant(t) : \/ \E p \in DOMAIN answer : answer[p] = t[i]
                                  \/ Len(answer) = limit /\ answer[limit].relevance >= t[i].relevance
    <3>1. /\ \A p \in DOMAIN answer : \E i \in DOMAIN t : answer[p] = t[i]
          /\ Sorted(answer)
          /\ \A i \in Relevant(t) : \/ \E p \in DOMAIN answer : answer[p] = t[i]
                                    \/ Len(answer) = limit /\ (limit > 0 => answer[limit].relevance >= t[i].relevance)
      BY <2>2, <2>3, <2>4, SelectedIsBest
    <3> QED BY <2>2, <3>1
  <2>6. \A i \in DOMAIN answer : \E j \in DOMAIN rows : answer[i] = Graded(rows[j])
    BY <2>3, <2>5
  <2>7. ASSUME NEW i \in DOMAIN rows, Final(rows[i]) >= MinRelevance
        PROVE  \/ \E j \in DOMAIN answer : answer[j] = Graded(rows[i])
               \/ Len(answer) = limit /\ answer[limit].relevance >= Final(rows[i])
    <3>1. PICK p \in DOMAIN t : t[p] = Graded(rows[i])
      BY <2>3
    <3>2. Graded(rows[i]).relevance = Final(rows[i])
      <4>1. rows[i] \in Row
        BY <2>1, Numbered
      <4> QED BY <4>1 DEF Graded, Row
    <3>3. p \in Relevant(t)
      BY <2>7, <3>1, <3>2 DEF Relevant
    <3> QED BY <2>5, <3>1, <3>2, <3>3
  <2> QED BY <2>5, <2>6, <2>7 DEF BestAnswer, Sorted
<1> QED BY <1>1, CandidatesAccounted, PTL

\* With a generous rrf_k, an answer without grades is shorter than it could be
\* only if a candidate was deleted before it was fetched.
THEOREM ShorterOnlyIfDeleted == ASSUME Generous PROVE Spec => []FewerOnlyIfDeleted
<1>1. JInv => FewerOnlyIfDeleted
  <2> SUFFICES ASSUME JInv, at = "done", DOMAIN grades = {}, \A i \in DOMAIN top : There(top[i])
               PROVE  ~(Len(answer) < Min({limit, Len(top)}))
    BY DEF FewerOnlyIfDeleted
  <2>1. rows \in Seq(Row) /\ Sorted(rows) /\ rows \in Seq(Kept)
    BY RowsAreRows DEF JInv, IInv, Seen, Collected, Scored
  <2>2. limit \in Nat
    BY LimitIsPositive DEF JInv
  <2>3. answer = Selected(rows, limit) /\ pending = <<>>
    BY DEF JInv, Answered, Reranked
  <2>4. /\ Len(rows) \in Nat /\ DOMAIN rows = 1..Len(rows) /\ Cardinality(DOMAIN rows) = Len(rows)
    BY <2>1, Numbered
  <2>5. Relevant(rows) = DOMAIN rows
    <3>1. \A i \in DOMAIN rows : rows[i].relevance >= MinRelevance
      BY <2>1, <2>4, ElementOfSeq DEF Kept
    <3> QED BY <3>1 DEF Relevant
  <2>6. Len(answer) = Min({limit, Len(rows)})
    BY <2>1, <2>2, <2>3, <2>4, <2>5, SelectedIsBest
  <2>7. Len(rows) = Len(top)
    BY <2>3, <2>4 DEF JInv, Accounted, Scored
  <2>8. Min({limit, Len(rows)}) \in Int
    <3>1. \A k \in Int, j \in Int : Min({k, j}) \in {k, j}
      BY MinOfTwo, Zenon
    <3>2. limit \in Int /\ Len(rows) \in Int
      BY <2>2, <2>4
    <3>3. Min({limit, Len(rows)}) \in {limit, Len(rows)}
      BY <3>1, <3>2, Zenon
    <3> QED BY <3>2, <3>3
  <2> QED BY <2>6, <2>7, <2>8
<1> QED BY <1>1, CandidatesAccounted, PTL

\* For any rankings of any length, a chunk that both put before another is the
\* better candidate: neither ties nor chunks that only one ranking has can
\* reverse what they agree on.
THEOREM AgreementAlwaysCounts == Spec => []AgreementCounts
<1>1. IInv => AgreementCounts
  <2> SUFFICES ASSUME IInv, Scored, NEW a \in Candidates, NEW b \in Candidates,
                      a # b, NoWorse(a, b, vector), NoWorse(a, b, fulltext),
                      NEW j \in DOMAIN top, top[j] = b
               PROVE  \E i \in 1..j : top[i] = a
    BY DEF AgreementCounts, Candidates, Scored
  <2> DEFINE k == CandidateK(limit)
             score == Score(fulltext)
  <2>1. Ranking(vector) /\ Ranking(fulltext) /\ limit \in Limits /\ Chosen /\ top \in Seq(Candidates)
    BY DEF IInv, Seen, Found, Scored
  <2>2. k \in Nat
    BY <2>1, CandidatesBounded
  <2>3. /\ score[a] = Fused(RankIn(a, vector, k), RankIn(a, fulltext, k))
        /\ score[b] = Fused(RankIn(b, vector, k), RankIn(b, fulltext, k))
    BY DEF Score, Candidates
  <2>4. /\ vector \in Seq(shown) /\ Len(vector) <= k /\ IsInjective(vector)
        /\ fulltext \in Seq(shown) /\ Len(fulltext) <= k /\ IsInjective(fulltext)
    BY <2>1 DEF Ranking
  <2> HIDE DEF k
  <2>5. /\ RankIn(a, vector, k) <= RankIn(b, vector, k)
        /\ b \in Range(vector) => RankIn(a, vector, k) < RankIn(b, vector, k)
    BY <2>2, <2>4, RankOrder
  <2>6. /\ RankIn(a, fulltext, k) <= RankIn(b, fulltext, k)
        /\ b \in Range(fulltext) => RankIn(a, fulltext, k) < RankIn(b, fulltext, k)
    BY <2>2, <2>4, RankOrder
  <2>7. \A c : RankIn(c, vector, k) \in 1..(k + 1) /\ RankIn(c, fulltext, k) \in 1..(k + 1)
    BY <2>2, <2>4, Ranks
  <2>8. b \in Range(vector) \/ b \in Range(fulltext)
    BY DEF Candidates
  <2>9. \A v, f, w, g \in 1..(k + 1) :
           v <= w /\ f <= g /\ (v < w \/ f < g) => ~AtLeast(Fused(w, g), Fused(v, f))
    BY <2>2, HigherScore
  <2>10. ~AtLeast(score[b], score[a])
    BY <2>3, <2>5, <2>6, <2>7, <2>8, <2>9
  <2> HIDE DEF score
  <2>11. /\ \A m, n \in DOMAIN top : m < n => AtLeast(score[top[m]], score[top[n]])
         /\ \A c \in Candidates : ~Contains(top, c) => \A m \in DOMAIN top : AtLeast(score[top[m]], score[c])
    BY <2>1 DEF Chosen, Tops, score
  <2>12. Contains(top, a)
    BY <2>10, <2>11
  <2>13. Len(top) \in Nat /\ DOMAIN top = 1..Len(top)
    BY <2>1, LenProperties
  <2>14. PICK i \in DOMAIN top : top[i] = a
    BY <2>12, <2>13 DEF Contains
  <2>15. ~(j < i)
    BY <2>10, <2>11, <2>14
  <2> QED BY <2>13, <2>14, <2>15
<1> QED BY <1>1, Invariance, PTL
=============================================================================
