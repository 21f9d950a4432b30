----------------------------- MODULE DataProofs -----------------------------
(***************************************************************************)
(* Lemmas about the data that several models compute with: reduced         *)
(* fractions, folds, the laws of the arithmetic without rounding, sets of  *)
(* numbers in order and selections from a sequence.  What needs induction  *)
(* is proved in the form that every set of natural numbers has a least     *)
(* element.                                                                *)
(*                                                                         *)
(* The finite doubles, signs included, compute and compare like the        *)
(* rational numbers.  Each law is proved on numerators and denominators,   *)
(* which need not be the reduced ones (OnRatios), and holds of the         *)
(* fractions because two that are equal in value are the same fraction     *)
(* (SameRatios).                                                           *)
(***************************************************************************)
EXTENDS Doubles, Subsequences, SequencesExt, FiniteSetTheorems, WellFoundedInduction, TLAPS

\* A set of natural numbers has a least element; every induction here rests on this.
LEMMA LeastNat ==
  ASSUME NEW T, T \subseteq Nat, T # {}
  PROVE  \E n \in T : \A m \in T : n <= m
<1>1. PICK R : R = OpToRel(<, Nat)
  OBVIOUS
<1>2. IsWellFoundedOn(R, Nat)
  BY <1>1, NatLessThanWellFounded
<1>3. PICK n \in T : \A m \in T : <<m, n>> \notin R
  BY <1>2, WFMin
<1>4. \A a, b \in Nat : a < b => <<a, b>> \in R
  BY <1>1 DEF OpToRel
<1>5. ASSUME NEW m \in T PROVE n <= m
  <2>1. n \in Nat /\ m \in Nat /\ <<m, n>> \notin R
    BY <1>3
  <2>2. ~(m < n)
    BY <1>4, <2>1
  <2> QED BY <2>1, <2>2
<1> QED BY <1>5

-----------------------------------------------------------------------------
(* The greatest common divisor.                                            *)

Divides(g, n) == \E k \in Nat : n = g * k

CommonDivisors(a, b) == {g \in Nat : Divides(g, a) /\ Divides(g, b)}

\* Every number divides zero.
LEMMA DividesZero == \A g \in Nat : Divides(g, 0)
<1>1. \A g \in Nat : 0 = g * 0 /\ 0 \in Nat
  OBVIOUS
<1> QED BY <1>1 DEF Divides

\* Every number divides itself.
LEMMA DividesItself == \A n \in Nat : Divides(n, n)
<1>1. \A n \in Nat : n = n * 1 /\ 1 \in Nat
  OBVIOUS
<1> QED BY <1>1 DEF Divides

\* A divisor is no larger than what it divides.
LEMMA DivisorIsAtMost ==
  ASSUME NEW g \in Nat, NEW n \in Nat, Divides(g, n), n # 0
  PROVE  g <= n /\ g # 0
<1>1. PICK k \in Nat : n = g * k
  BY DEF Divides
<1>2. k # 0 /\ g # 0
  BY <1>1
<1>3. k >= 1
  BY <1>2
<1>4. g * k >= g
  BY <1>3
<1> QED BY <1>1, <1>2, <1>4

\* Multiplication distributes over sums and differences.
LEMMA Distributes ==
  ASSUME NEW g \in Int, NEW k \in Int, NEW l \in Int, NEW q \in Int
  PROVE  /\ g * (k - l * q) = g * k - (g * l) * q
         /\ g * (l * q + k) = (g * l) * q + g * k
OBVIOUS

\* A factor on both sides can be left out.
LEMMA Cancel ==
  ASSUME NEW a \in Int, NEW b \in Int, NEW c \in Int, c # 0, a * c = b * c
  PROVE  a = b
<1>1. (a - b) * c = 0
  OBVIOUS
<1> QED BY <1>1

\* Division with remainder.
LEMMA Division ==
  ASSUME NEW a \in Nat, NEW b \in Nat, b # 0
  PROVE  /\ a % b \in Nat /\ a % b < b /\ a \div b \in Nat
         /\ a = b * (a \div b) + (a % b)
OBVIOUS

\* A step of the Euclidean algorithm keeps the common divisors.
LEMMA SameDivisors ==
  ASSUME NEW a \in Nat, NEW b \in Nat, b # 0
  PROVE  CommonDivisors(a, b) = CommonDivisors(b, a % b)
<1>1. PICK q \in Nat, r \in Nat : q = a \div b /\ r = a % b /\ a = b * q + r
  BY Division
<1>2. ASSUME NEW g \in CommonDivisors(a, b) PROVE g \in CommonDivisors(b, r)
  <2>1. PICK k \in Nat, l \in Nat : a = g * k /\ b = g * l
    BY DEF CommonDivisors, Divides
  <2>2. g \in Nat /\ g # 0
    BY <2>1 DEF CommonDivisors
  <2>3. r = g * (k - l * q)
    <3>1. g * (k - l * q) = g * k - (g * l) * q
      BY <2>2, Distributes
    <3>2. r = a - b * q
      BY <1>1
    <3> QED BY <2>1, <3>1, <3>2
  <2>4. k - l * q >= 0
    <3> DEFINE m == k - l * q
    <3>1. m \in Int /\ r = g * m
      BY <2>3
    <3> HIDE DEF m
    <3>2. m < 0 => g * m < 0
      BY <2>2, <3>1
    <3> QED BY <1>1, <3>1, <3>2 DEF m
  <2>5. k - l * q \in Nat
    BY <2>4
  <2> QED BY <2>2, <2>3, <2>5 DEF CommonDivisors, Divides
<1>3. ASSUME NEW g \in CommonDivisors(b, r) PROVE g \in CommonDivisors(a, b)
  <2>1. PICK l \in Nat, m \in Nat : b = g * l /\ r = g * m
    BY DEF CommonDivisors, Divides
  <2>2. g \in Nat
    BY DEF CommonDivisors
  <2>3. a = g * (l * q + m) /\ l * q + m \in Nat
    <3>1. g * (l * q + m) = (g * l) * q + g * m
      BY <2>2, Distributes
    <3>2. l * q \in Nat
      OBVIOUS
    <3> QED BY <1>1, <2>1, <3>1, <3>2
  <2> QED BY <2>2, <2>3 DEF CommonDivisors, Divides
<1> QED BY <1>1, <1>2, <1>3

\* What the algorithm computes exists.
LEMMA GcdRecursion ==
  ASSUME NEW a \in Nat, NEW b \in Nat
  PROVE  gcd[<<a, b>>] = IF b = 0 THEN a ELSE gcd[<<b, a % b>>]
<1> DEFINE Greatest(S) == CHOOSE g \in S : \A h \in S : Divides(h, g)
           G == [p \in Nat \X Nat |-> Greatest(CommonDivisors(p[1], p[2]))]
<1>1. ASSUME NEW c \in Nat PROVE Greatest(CommonDivisors(c, 0)) = c
  <2>1. c \in CommonDivisors(c, 0) /\ \A h \in CommonDivisors(c, 0) : Divides(h, c)
    BY DividesZero, DividesItself DEF CommonDivisors
  <2>2. ASSUME NEW g \in CommonDivisors(c, 0), \A h \in CommonDivisors(c, 0) : Divides(h, g)
        PROVE  g = c
    <3>1. g \in Nat /\ Divides(g, c) /\ Divides(c, g)
      BY <2>1, <2>2 DEF CommonDivisors
    <3>2. CASE c = 0
      BY <3>1, <3>2 DEF Divides
    <3>3. CASE c # 0
      <4>1. g <= c /\ g # 0
        BY <3>1, <3>3, DivisorIsAtMost
      <4>2. c <= g
        BY <3>1, <4>1, DivisorIsAtMost
      <4> QED BY <3>1, <4>1, <4>2
    <3> QED BY <3>2, <3>3
  <2> QED BY <2>1, <2>2
<1> HIDE DEF Greatest
<1>2. ASSUME NEW p \in Nat \X Nat
      PROVE  G[p] = IF p[2] = 0 THEN p[1] ELSE G[<<p[2], p[1] % p[2]>>]
  <2>1. p[1] \in Nat /\ p[2] \in Nat
    OBVIOUS
  <2>2. CASE p[2] = 0
    BY <1>1, <2>1, <2>2
  <2>3. CASE p[2] # 0
    <3>1. <<p[2], p[1] % p[2]>> \in Nat \X Nat
      BY <2>1, <2>3, Division
    <3> QED BY <2>1, <2>3, <3>1, SameDivisors
  <2> QED BY <2>2, <2>3
<1>3. G = [p \in Nat \X Nat |-> IF p[2] = 0 THEN p[1] ELSE G[<<p[2], p[1] % p[2]>>]]
  BY <1>2
<1> HIDE DEF G
<1>4. gcd = [p \in Nat \X Nat |-> IF p[2] = 0 THEN p[1] ELSE gcd[<<p[2], p[1] % p[2]>>]]
  BY <1>3 DEF gcd
<1>5. <<a, b>> \in Nat \X Nat
  OBVIOUS
<1> QED BY <1>4, <1>5

\* It computes the greatest common divisor.
LEMMA GcdIsGreatest ==
  ASSUME NEW a \in Nat, NEW b \in Nat
  PROVE  /\ gcd[<<a, b>>] \in CommonDivisors(a, b)
         /\ \A h \in CommonDivisors(a, b) : Divides(h, gcd[<<a, b>>])
<1> DEFINE Is(c, d) == /\ gcd[<<c, d>>] \in CommonDivisors(c, d)
                       /\ \A h \in CommonDivisors(c, d) : Divides(h, gcd[<<c, d>>])
           Bad == {d \in Nat : \E c \in Nat : ~Is(c, d)}
<1>1. ASSUME Bad # {} PROVE FALSE
  <2>1. PICK d \in Bad : \A e \in Bad : d <= e
    BY <1>1, LeastNat
  <2>2. PICK c \in Nat : ~Is(c, d)
    OBVIOUS
  <2>3. CASE d = 0
    <3>1. gcd[<<c, d>>] = c
      BY <2>3, GcdRecursion
    <3>2. Is(c, d)
      BY <2>3, <3>1, DividesZero, DividesItself DEF CommonDivisors
    <3> QED BY <2>2, <3>2
  <2>4. CASE d # 0
    <3>1. d \in Nat /\ c % d \in Nat /\ c % d < d
      BY <2>4, Division
    <3>2. gcd[<<c, d>>] = gcd[<<d, c % d>>]
      BY <2>4, <3>1, GcdRecursion
    <3>3. c % d \notin Bad
      BY <2>1, <3>1
    <3>4. Is(d, c % d)
      BY <3>1, <3>3
    <3>5. CommonDivisors(c, d) = CommonDivisors(d, c % d)
      BY <2>4, <3>1, SameDivisors
    <3> QED BY <2>2, <3>2, <3>4, <3>5
  <2> QED BY <2>3, <2>4
<1> QED BY <1>1

-----------------------------------------------------------------------------
(* Reduced fractions.                                                      *)

Positive == Nat \ {0}

\* The finite doubles that are not negative.
Fractions == {x \in Nat \X Positive : \A h \in CommonDivisors(x[1], x[2]) : h = 1}

\* A product divided by its factor.
LEMMA Quotient ==
  ASSUME NEW g \in Positive, NEW k \in Nat
  PROVE  (g * k) \div g = k
<1> DEFINE n == g * k
<1>1. n \in Nat /\ g \in Nat /\ g # 0
  BY DEF Positive
<1>2. PICK q \in Nat, r \in Nat : q = n \div g /\ r < g /\ n = g * q + r
  BY <1>1, Division
<1>3. r = g * (k - q)
  BY <1>1, <1>2
<1>4. k - q = 0
  <2> DEFINE m == k - q
  <2>1. m \in Int /\ r = g * m
    BY <1>3
  <2> HIDE DEF m
  <2>2. m >= 1 => g * m >= g
    BY <1>1, <2>1
  <2>3. m <= -1 => g * m < 0
    BY <1>1, <2>1
  <2>4. m = 0
    BY <1>1, <1>2, <2>1, <2>2, <2>3
  <2> QED BY <2>4 DEF m
<1> QED BY <1>2, <1>4

\* Reducing divides both terms by the same number, and nothing more divides
\* both.
LEMMA ReducedIs ==
  ASSUME NEW n \in Nat, NEW d \in Positive
  PROVE  /\ Reduced(n, d) \in Fractions
         /\ Reduced(n, d)[1] * d = n * Reduced(n, d)[2]
<1> DEFINE g == gcd[<<n, d>>]
<1>1. d \in Nat /\ d # 0 /\ Magnitude(n) = n
  BY DEF Positive, Magnitude
<1>2. g \in CommonDivisors(n, d) /\ \A h \in CommonDivisors(n, d) : Divides(h, g)
  BY <1>1, GcdIsGreatest
<1> HIDE DEF g
<1>3. PICK k \in Nat, l \in Nat : n = g * k /\ d = g * l
  BY <1>2 DEF CommonDivisors, Divides
<1>4. g \in Positive /\ l \in Positive
  <2>1. g \in Nat
    BY <1>2 DEF CommonDivisors
  <2>2. g # 0 /\ l # 0
    BY <1>1, <1>3, <2>1
  <2> QED BY <2>1, <2>2 DEF Positive
<1>5. n \div g = k /\ d \div g = l
  BY <1>3, <1>4, Quotient
<1>6. Reduced(n, d) = <<k, l>>
  BY <1>1, <1>4, <1>5 DEF Reduced, g, Positive
<1>7. ASSUME NEW h \in CommonDivisors(k, l) PROVE h = 1
  <2>1. PICK i \in Nat, j \in Nat : k = h * i /\ l = h * j
    BY DEF CommonDivisors, Divides
  <2>2. h \in Nat /\ h # 0 /\ g \in Nat /\ g # 0
    BY <1>4, <2>1 DEF CommonDivisors, Positive
  <2>3. g * h \in Nat /\ n = (g * h) * i /\ d = (g * h) * j
    BY <1>3, <2>1, <2>2
  <2>4. Divides(g * h, g)
    BY <1>2, <2>3 DEF CommonDivisors, Divides
  <2>5. g * h <= g
    BY <2>2, <2>3, <2>4, DivisorIsAtMost
  <2>6. h >= 2 => g * h >= g + g
    BY <2>2
  <2> QED BY <2>2, <2>5, <2>6
<1>8. <<k, l>> \in Fractions
  BY <1>4, <1>7 DEF Fractions
<1>9. k * d = n * l
  <2>1. g \in Nat /\ l \in Nat
    BY <1>4 DEF Positive
  <2> QED BY <1>3, <2>1
<1> QED BY <1>6, <1>8, <1>9

\* Numerator and denominator of a fraction.
LEMMA FractionTerms ==
  ASSUME NEW x \in Fractions
  PROVE  /\ x = <<x[1], x[2]>> /\ x[1] \in Nat /\ x[2] \in Positive /\ x[2] \in Nat /\ x[2] # 0
         /\ \A h \in CommonDivisors(x[1], x[2]) : h = 1
BY DEF Fractions, Positive

\* Of all fractions of one value the one with the least denominator divides
\* the others, so there is only one reduced fraction of that value.
LEMMA MultipleOfLeast ==
  ASSUME NEW n \in Nat, NEW d \in Positive, NEW p \in Nat, NEW q \in Positive,
         p * d = n * q,
         \A e \in Positive : (\E m \in Nat : m * d = n * e) => q <= e,
         NEW z \in Fractions, z[1] * d = n * z[2]
  PROVE  z = <<p, q>>
<1>1. d \in Nat /\ d # 0 /\ q \in Nat /\ q # 0
  BY DEF Positive
<1>2. PICK a \in Nat, b \in Nat : z = <<a, b>> /\ a * d = n * b /\ b # 0
  BY FractionTerms
<1>3. PICK k \in Nat, r \in Nat : k = b \div q /\ r = b % q /\ r < q /\ b = q * k + r
  BY <1>1, <1>2, Division
<1> DEFINE m == a - k * p
<1>4. m * d = n * r
  <2>1. m * d = a * d - k * (p * d)
    BY <1>1
  <2>2. n * r = n * b - k * (n * q)
    <3>1. n * (q * k + r) = (n * q) * k + n * r
      BY <1>1, Distributes
    <3>2. n * b = n * (q * k + r)
      BY <1>3
    <3>3. (n * q) * k = k * (n * q) /\ n * r \in Int /\ k * (n * q) \in Int
      BY <1>1
    <3> QED BY <3>1, <3>2, <3>3
  <2> QED BY <1>2, <2>1, <2>2
<1>5. m \in Nat
  <2>1. m \in Int
    OBVIOUS
  <2>2. n * r >= 0
    OBVIOUS
  <2> HIDE DEF m
  <2>3. m < 0 => m * d < 0
    BY <1>1, <2>1
  <2>4. m * d >= 0
    BY <1>4, <2>2
  <2> QED BY <1>1, <2>1, <2>3, <2>4
<1> HIDE DEF m
<1>6. r = 0
  <2>1. r # 0 => q <= r
    BY <1>4, <1>5 DEF Positive
  <2> QED BY <1>1, <1>3, <2>1
<1>7. m = 0
  <2>1. m * d = 0
    BY <1>4, <1>6
  <2> QED BY <1>1, <1>5, <2>1
<1>8. a = k * p /\ b = k * q
  BY <1>1, <1>3, <1>6, <1>7 DEF m
<1>9. k = 1
  <2>1. k \in CommonDivisors(a, b)
    BY <1>1, <1>8 DEF CommonDivisors, Divides
  <2> QED BY <1>2, <2>1, FractionTerms
<1> QED BY <1>1, <1>2, <1>8, <1>9

\* Fractions with equal ratios are equal.
LEMMA SameValue ==
  ASSUME NEW x \in Fractions, NEW y \in Fractions, x[1] * y[2] = y[1] * x[2]
  PROVE  x = y
<1> DEFINE n == x[1]
           d == x[2]
           T == {e \in Positive : \E m \in Nat : m * d = n * e}
<1>1. n \in Nat /\ d \in Positive /\ n * d = n * d
  BY FractionTerms
<1>2. T \subseteq Nat /\ T # {}
  BY <1>1 DEF Positive
<1>3. PICK q \in T : \A e \in T : q <= e
  BY <1>2, LeastNat
<1>4. PICK p \in Nat : p * d = n * q
  OBVIOUS
<1>5. y[1] * d = n * y[2]
  BY FractionTerms
<1>8. x[1] * d = n * x[2]
  OBVIOUS
<1> HIDE DEF n, d
<1>6. q \in Positive /\ \A e \in Positive : (\E m \in Nat : m * d = n * e) => q <= e
  BY <1>3
<1> HIDE DEF T
<1>7. y = <<p, q>>
  BY <1>1, <1>4, <1>5, <1>6, MultipleOfLeast
<1>9. x = <<p, q>>
  BY <1>1, <1>4, <1>6, <1>8, MultipleOfLeast
<1> QED BY <1>7, <1>9

\* Two quotients reduce to the same fraction when they are equal.
LEMMA SameRatio ==
  ASSUME NEW n \in Nat, NEW d \in Positive, NEW m \in Nat, NEW e \in Positive
  PROVE  Reduced(n, d) = Reduced(m, e) <=> n * e = m * d
<1>1. PICK x \in Fractions : x = Reduced(n, d) /\ x[1] * d = n * x[2]
  BY ReducedIs
<1>2. PICK y \in Fractions : y = Reduced(m, e) /\ y[1] * e = m * y[2]
  BY ReducedIs
<1>3. PICK a \in Nat, b \in Nat : x = <<a, b>> /\ b # 0
  BY FractionTerms
<1>4. PICK f \in Nat, g \in Nat : y = <<f, g>> /\ g # 0
  BY FractionTerms
<1>5. d \in Nat /\ d # 0 /\ e \in Nat /\ e # 0
  BY DEF Positive
<1>6. a * d = n * b /\ f * e = m * g
  BY <1>1, <1>2, <1>3, <1>4
<1>7. ASSUME n * e = m * d PROVE x = y
  <2>1. (a * g) * (d * e) = (f * b) * (d * e)
    <3>1. (a * g) * (d * e) = (a * d) * (g * e)
      BY <1>5
    <3>2. (f * b) * (d * e) = (f * e) * (b * d)
      BY <1>5
    <3>3. (n * b) * (g * e) = (n * e) * (b * g)
      BY <1>5
    <3>4. (m * g) * (b * d) = (m * d) * (b * g)
      BY <1>5
    <3> QED BY <1>6, <1>7, <3>1, <3>2, <3>3, <3>4
  <2>2. a * g = f * b
    BY <1>5, <2>1, Cancel
  <2> QED BY <1>3, <1>4, <2>2, SameValue
<1>8. ASSUME x = y PROVE n * e = m * d
  <2>1. a = f /\ b = g
    BY <1>3, <1>4, <1>8
  <2>2. (n * e) * b = (m * d) * b
    <3>1. (n * e) * b = (n * b) * e
      BY <1>5
    <3>2. (m * d) * b = (m * b) * d
      BY <1>5
    <3>3. (a * d) * e = (a * e) * d
      BY <1>5
    <3> QED BY <1>6, <2>1, <3>1, <3>2, <3>3
  <2> QED BY <1>3, <1>5, <2>2, Cancel
<1> QED BY <1>1, <1>2, <1>7, <1>8

\* A reduced fraction is its own reduction.
LEMMA Unreduced ==
  ASSUME NEW x \in Fractions
  PROVE  Reduced(x[1], x[2]) = x
<1>1. x[1] \in Nat /\ x[2] \in Positive
  BY FractionTerms
<1> QED BY <1>1, ReducedIs, SameValue

\* A fraction is zero when its numerator is.
LEMMA IsZero ==
  /\ Zero \in Fractions
  /\ \A x \in Fractions : x = Zero <=> x[1] = 0
<1>1. ASSUME NEW h \in CommonDivisors(0, 1) PROVE h = 1
  <2>1. h \in Nat /\ Divides(h, 1)
    BY DEF CommonDivisors
  <2>2. h <= 1 /\ h # 0
    BY <2>1, DivisorIsAtMost
  <2> QED BY <2>1, <2>2
<1>2. Zero \in Fractions
  BY <1>1 DEF Zero, Fractions, Positive
<1>3. ASSUME NEW x \in Fractions, x[1] = 0 PROVE x = Zero
  <2>1. x = <<x[1], x[2]>> /\ x[2] \in Nat
    BY FractionTerms
  <2>2. x[2] \in CommonDivisors(x[1], x[2])
    BY <1>3, <2>1, DividesZero, DividesItself DEF CommonDivisors
  <2>3. x[2] = 1
    BY <2>2, FractionTerms
  <2> QED BY <1>3, <2>1, <2>3 DEF Zero
<1>4. Zero[1] = 0
  BY DEF Zero
<1> QED BY <1>2, <1>3, <1>4

\* So is a reduced one.
LEMMA ReducedIsZero ==
  ASSUME NEW n \in Nat, NEW d \in Positive
  PROVE  Reduced(n, d) = Zero <=> n = 0
<1>1. PICK x \in Fractions : x = Reduced(n, d) /\ x[1] * d = n * x[2]
  BY ReducedIs
<1>2. PICK a \in Nat, b \in Nat : x = <<a, b>> /\ b # 0
  BY FractionTerms
<1>3. d \in Nat /\ d # 0 /\ a * d = n * b
  BY <1>1, <1>2 DEF Positive
<1>4. a = 0 <=> n = 0
  BY <1>2, <1>3
<1> QED BY <1>1, <1>2, <1>4, IsZero

\* Amounts are the fractions above zero.
LEMMA AmountsAreFractions == Amounts = Fractions \ {Zero}
<1>1. ASSUME NEW x \in Amounts PROVE x \in Fractions /\ x # Zero
  <2>1. /\ x[1] \in Nat /\ x[2] \in Positive /\ x[1] # 0
        /\ x = Reduced(x[1], x[2])
    BY DEF Amounts, Positive
  <2>2. Reduced(x[1], x[2]) \in Fractions /\ Reduced(x[1], x[2]) # Zero
    BY <2>1, ReducedIs, ReducedIsZero
  <2> QED BY <2>1, <2>2
<1>2. ASSUME NEW x \in Fractions, x # Zero PROVE x \in Amounts
  <2>1. /\ x = <<x[1], x[2]>> /\ x[1] \in Nat /\ x[2] \in Nat /\ x[2] # 0
        /\ x[1] # 0 /\ Reduced(x[1], x[2]) = x
    BY <1>2, FractionTerms, IsZero, Unreduced
  <2>2. x \in Nat \X Nat /\ x[1] > 0 /\ x[2] > 0
    <3>1. x \in Nat \X Positive
      BY DEF Fractions
    <3> QED BY <2>1, <3>1 DEF Positive
  <2> QED BY <2>1, <2>2 DEF Amounts
<1> QED BY <1>1, <1>2

\* Whatever a division leaves, infinity and NaN included, is a pair of natural
\* numbers.
LEMMA ReducedType ==
  ASSUME NEW n \in Nat, NEW d \in Nat
  PROVE  Reduced(n, d) \in Nat \X Nat
<1>1. gcd[<<n, d>>] \in Nat
  BY GcdIsGreatest DEF CommonDivisors
<1>2. Magnitude(n) = n
  BY DEF Magnitude
<1>3. CASE gcd[<<n, d>>] = 0
  BY <1>2, <1>3 DEF Reduced, NaN
<1>4. CASE gcd[<<n, d>>] # 0
  <2> DEFINE g == gcd[<<n, d>>]
  <2>1. n \div g \in Nat /\ d \div g \in Nat
    <3> HIDE DEF g
    <3> QED BY <1>1, <1>4, Division DEF g
  <2> QED BY <1>2, <1>4, <2>1 DEF Reduced
<1> QED BY <1>3, <1>4

\* Sums of fractions are fractions.
LEMMA PlusType ==
  ASSUME NEW x \in Fractions, NEW y \in Fractions
  PROVE  /\ Plus(x, y) \in Fractions
         /\ Plus(x, y) = Zero <=> x = Zero /\ y = Zero
<1>1. PICK a \in Nat, b \in Nat : x = <<a, b>> /\ b # 0
  BY FractionTerms
<1>2. PICK f \in Nat, g \in Nat : y = <<f, g>> /\ g # 0
  BY FractionTerms
<1>3. a * g + f * b \in Nat /\ b * g \in Positive
  BY <1>1, <1>2 DEF Positive
<1>4. a * g + f * b = 0 <=> a = 0 /\ f = 0
  BY <1>1, <1>2
<1>5. Plus(x, y) = Reduced(a * g + f * b, b * g)
  BY <1>1, <1>2 DEF Plus
<1> QED BY <1>1, <1>2, <1>3, <1>4, <1>5, ReducedIs, ReducedIsZero, IsZero

\* So are products.
LEMMA TimesType ==
  ASSUME NEW x \in Fractions, NEW y \in Fractions
  PROVE  /\ Times(x, y) \in Fractions
         /\ Times(x, y) = Zero <=> x = Zero \/ y = Zero
<1>1. PICK a \in Nat, b \in Nat : x = <<a, b>> /\ b # 0
  BY FractionTerms
<1>2. PICK f \in Nat, g \in Nat : y = <<f, g>> /\ g # 0
  BY FractionTerms
<1>3. a * f \in Nat /\ b * g \in Positive
  BY <1>1, <1>2 DEF Positive
<1>4. a * f = 0 <=> a = 0 \/ f = 0
  OBVIOUS
<1>5. Times(x, y) = Reduced(a * f, b * g)
  BY <1>1, <1>2 DEF Times
<1> QED BY <1>1, <1>2, <1>3, <1>4, <1>5, ReducedIs, ReducedIsZero, IsZero

\* So are quotients by one that is not zero.
LEMMA OverType ==
  ASSUME NEW x \in Fractions, NEW y \in Fractions, y # Zero
  PROVE  /\ Over(x, y) \in Fractions
         /\ Over(x, y) = Zero <=> x = Zero
<1>1. PICK a \in Nat, b \in Nat : x = <<a, b>> /\ b # 0
  BY FractionTerms
<1>2. PICK f \in Nat, g \in Nat : y = <<f, g>> /\ g # 0 /\ f # 0
  BY FractionTerms, IsZero
<1>3. a * g \in Nat /\ b * f \in Positive
  BY <1>1, <1>2 DEF Positive
<1>4. a * g = 0 <=> a = 0
  BY <1>2
<1>5. Over(x, y) = Reduced(a * g, b * f)
  BY <1>1, <1>2 DEF Over
<1> QED BY <1>1, <1>2, <1>3, <1>4, <1>5, ReducedIs, ReducedIsZero, IsZero

-----------------------------------------------------------------------------
(* Folds.                                                                  *)

\* The largest element of a set of numbers.
LEMMA MaxOfInterval ==
  ASSUME NEW n \in Nat, NEW s \in SUBSET (1..n), s # {}
  PROVE  Max(s) \in s /\ \A x \in s : x <= Max(s)
<1> DEFINE T == {n - x : x \in s}
<1>1. T \subseteq Nat /\ T # {}
  <2>1. \A x \in s : x \in 1..n /\ n - x \in Nat
    OBVIOUS
  <2>2. PICK x \in s : TRUE
    OBVIOUS
  <2>3. n - x \in T
    OBVIOUS
  <2> QED BY <2>1, <2>3
<1>2. PICK d \in T : \A e \in T : d <= e
  BY <1>1, LeastNat
<1>3. PICK m \in s : d = n - m
  OBVIOUS
<1>4. \A x \in s : m >= x
  BY <1>2, <1>3
<1> HIDE DEF T
<1>5. Max(s) \in s /\ \A x \in s : Max(s) >= x
  BY <1>4 DEF Max
<1>6. \A x \in s : Max(s) >= x => x <= Max(s)
  BY <1>5
<1> QED BY <1>5, <1>6

\* A fold over 1..n by the function F exists, as a function of the part of
\* 1..n that it has folded.
IsFold(g, n, base, F) ==
  \A s \in SUBSET (1..n) :
    g[s] = IF s = {} THEN base ELSE F[<<g[s \ {Max(s)}], Max(s)>>]

\* The recursion of a fold has a solution.
LEMMA FoldExists ==
  ASSUME NEW n \in Nat, NEW S, NEW base \in S, NEW F \in [S \X (1..n) -> S]
  PROVE  \E g \in [SUBSET (1..n) -> S] : IsFold(g, n, base, F)
<1> DEFINE Folds(g, k) == \A s \in SUBSET (1..k) :
                            g[s] = IF s = {} THEN base ELSE F[<<g[s \ {Max(s)}], Max(s)>>]
           Bad == {k \in 0..n : ~ \E g \in [SUBSET (1..k) -> S] : Folds(g, k)}
<1>1. ASSUME Bad # {} PROVE FALSE
  <2>1. PICK k \in Bad : \A l \in Bad : k <= l
    <3>1. Bad \subseteq Nat
      OBVIOUS
    <3> HIDE DEF Bad
    <3> QED BY <1>1, <3>1, LeastNat
  <2>2. CASE k = 0
    <3> DEFINE g == [s \in SUBSET (1..0) |-> base]
    <3>1. g \in [SUBSET (1..0) -> S] /\ Folds(g, 0)
      OBVIOUS
    <3> HIDE DEF g
    <3> QED BY <2>2, <3>1
  <2>3. CASE k # 0
    <3> DEFINE j == k - 1
    <3>1. k \in Nat /\ k <= n /\ k >= 1 /\ j \in 0..n /\ j < k
      BY <2>3
    <3>2. PICK g \in [SUBSET (1..j) -> S] : Folds(g, j)
      <4>1. j \notin Bad
        <5> HIDE DEF Bad
        <5> QED BY <2>1, <3>1
      <4> HIDE DEF Folds
      <4> QED BY <3>1, <4>1
    <3> DEFINE h == [s \in SUBSET (1..k) |-> IF k \in s THEN F[<<g[s \ {k}], k>>] ELSE g[s]]
    <3>3. \A s \in SUBSET (1..k) : s \ {k} \in SUBSET (1..j)
      BY <3>1
    <3>4. \A s \in SUBSET (1..k) : k \notin s => s \in SUBSET (1..j)
      BY <3>1
    <3>5. ASSUME NEW s \in SUBSET (1..k) PROVE h[s] \in S
      <4>1. g[s \ {k}] \in S /\ (k \notin s => g[s] \in S)
        BY <3>3, <3>4
      <4>2. k \in 1..n
        BY <3>1
      <4> QED BY <4>1, <4>2
    <3>6. h \in [SUBSET (1..k) -> S]
      BY <3>5
    <3>7. ASSUME NEW s \in SUBSET (1..k)
          PROVE  h[s] = IF s = {} THEN base ELSE F[<<h[s \ {Max(s)}], Max(s)>>]
      <4>1. CASE s = {}
        BY <3>2, <3>4, <4>1
      <4>2. CASE k \in s
        <5>1. Max(s) = k
          <6> HIDE DEF h
          <6>1. Max(s) \in s /\ k <= Max(s)
            BY <3>1, <4>2, MaxOfInterval
          <6>2. Max(s) \in 1..k
            BY <6>1
          <6> QED BY <3>1, <6>1, <6>2
        <5>2. h[s \ {k}] = g[s \ {k}]
          OBVIOUS
        <5> QED BY <4>2, <5>1, <5>2
      <4>3. CASE k \notin s /\ s # {}
        <5>1. s \in SUBSET (1..j) /\ j \in Nat
          BY <3>1, <3>4, <4>3
        <5>2. h[s] = g[s] /\ h[s \ {Max(s)}] = g[s \ {Max(s)}]
          BY <4>3, <5>1
        <5> QED BY <3>2, <4>3, <5>1, <5>2
      <4> QED BY <4>1, <4>2, <4>3
    <3>8. Folds(h, k)
      BY <3>7
    <3> HIDE DEF h, Folds
    <3> QED BY <3>6, <3>8
  <2> QED BY <2>2, <2>3
<1> HIDE DEF Folds
<1>2. \E g \in [SUBSET (1..n) -> S] : Folds(g, n)
  <2>1. n \in 0..n
    OBVIOUS
  <2>2. n \notin Bad
    <3> HIDE DEF Bad
    <3> QED BY <1>1
  <2> QED BY <2>1, <2>2
<1> QED BY <1>2 DEF Folds, IsFold

\* The values of a fold, one element after the other.
IsFoldRun(run, n, base, F) ==
  run[0] = base /\ \A k \in 1..n : run[k] = F[<<run[k - 1], k>>]

\* A fold of F from base, as far as its values stay in S.
FoldsIn(it, n, S, base, F) ==
  /\ n \in Nat /\ base \in S /\ F \in [S \X (1..n) -> S]
  /\ it[{}] = base
  /\ \A s \in SUBSET (1..n) :
       s # {} /\ it[s \ {Max(s)}] \in S => it[s] = F[<<it[s \ {Max(s)}], Max(s)>>]

RunsIn(it, n, S, base, F) ==
  \E run \in [0..n -> S] : IsFoldRun(run, n, base, F) /\ run[n] = it[1..n]

\* Every part 1..k of the numbers ends where the k-th value of the run is.
LEMMA FoldRuns ==
  ASSUME NEW it, NEW n, NEW S, NEW base, NEW F, FoldsIn(it, n, S, base, F)
  PROVE  RunsIn(it, n, S, base, F)
<1> USE DEF FoldsIn
<1> DEFINE Bad == {k \in 0..n : it[1..k] \notin S}
           run == [k \in 0..n |-> it[1..k]]
<1>1. it[1..0] = base
  <2>1. 1..0 = {}
    OBVIOUS
  <2> QED BY <2>1 DEF FoldsIn
<1>2. ASSUME NEW k \in 1..n, it[1..(k - 1)] \in S
      PROVE  it[1..k] = F[<<it[1..(k - 1)], k>>] /\ it[1..k] \in S
  <2>1. 1..k \in SUBSET (1..n) /\ 1..k # {} /\ k \in Nat
    <3>1. k \in 1..k /\ \A x \in 1..k : x \in 1..n
      OBVIOUS
    <3> QED BY <3>1
  <2>2. Max(1..k) = k
    <3>1. Max(1..k) \in 1..k /\ \A x \in 1..k : x <= Max(1..k)
      BY <2>1, MaxOfInterval
    <3> QED BY <2>1, <3>1
  <2>3. (1..k) \ {k} = 1..(k - 1)
    BY <2>1
  <2>4. it[1..k] = F[<<it[1..(k - 1)], k>>]
    BY <1>2, <2>1, <2>2, <2>3 DEF FoldsIn
  <2> QED BY <1>2, <2>4
<1>3. Bad = {}
  <2> SUFFICES ASSUME Bad # {} PROVE FALSE
    OBVIOUS
  <2>1. PICK k \in Bad : \A l \in Bad : k <= l
    <3>1. Bad \subseteq Nat
      OBVIOUS
    <3> HIDE DEF Bad
    <3> QED BY <3>1, LeastNat
  <2>2. k # 0
    BY <1>1, <2>1
  <2>3. k \in 1..n /\ k - 1 \in 0..n /\ k - 1 \notin Bad
    BY <2>1, <2>2
  <2> QED BY <1>2, <2>1, <2>3
<1>4. run \in [0..n -> S]
  BY <1>3
<1>5. IsFoldRun(run, n, base, F)
  <2>1. run[0] = base
    BY <1>1
  <2>2. ASSUME NEW k \in 1..n PROVE run[k] = F[<<run[k - 1], k>>]
    <3>1. k - 1 \in 0..n /\ k \in 0..n
      OBVIOUS
    <3>2. run[k - 1] = it[1..(k - 1)] /\ run[k] = it[1..k] /\ it[1..(k - 1)] \in S
      BY <1>4, <3>1
    <3> QED BY <1>2, <3>2
  <2> QED BY <2>1, <2>2 DEF IsFoldRun
<1>6. run[n] = it[1..n]
  OBVIOUS
<1> QED BY <1>4, <1>5, <1>6 DEF RunsIn

-----------------------------------------------------------------------------
(* Sums over sets, in whatever order a fold takes the elements.            *)

\* An operation for which order and grouping do not matter.
IsMonoid(A, S) ==
  /\ A \in [S \X S -> S]
  /\ \A x, y \in S : A[<<x, y>>] = A[<<y, x>>]
  /\ \A x, y, z \in S : A[<<x, A[<<y, z>>]>>] = A[<<A[<<x, y>>], z>>]

\* What the terms of a part of 1..n come to, whichever is taken last.
Adds(g, n, S, base, A, v) ==
  /\ g \in [SUBSET (1..n) -> S] /\ g[{}] = base
  /\ \A s \in SUBSET (1..n) : \A x \in s : g[s] = A[<<v[x], g[s \ {x}]>>]

\* What a set of numbers loses with an element.
LEMMA PartsOfInterval ==
  ASSUME NEW n \in Nat, NEW s \in SUBSET (1..n)
  PROVE  /\ Cardinality(s) \in Nat
         /\ \A x \in s : Cardinality(s \ {x}) = Cardinality(s) - 1
<1>1. IsFiniteSet(1..n)
  BY FS_Interval
<1>2. IsFiniteSet(s)
  BY <1>1, FS_Subset
<1> QED BY <1>2, FS_CardinalityType, FS_RemoveElement

\* Terms can be added up in any order.
LEMMA AddsExists ==
  ASSUME NEW n \in Nat, NEW S, NEW base \in S, NEW A, IsMonoid(A, S), NEW v \in [1..n -> S]
  PROVE  \E g : Adds(g, n, S, base, A, v)
<1> DEFINE F == [p \in S \X (1..n) |-> A[<<v[p[2]], p[1]>>]]
<1>1. F \in [S \X (1..n) -> S]
  BY DEF IsMonoid
<1>2. PICK g \in [SUBSET (1..n) -> S] : IsFold(g, n, base, F)
  <2> HIDE DEF F
  <2> QED BY <1>1, FoldExists
<1>3. \A s \in SUBSET (1..n) : Cardinality(s) \in Nat
  BY PartsOfInterval
<1>4. ASSUME NEW s \in SUBSET (1..n), s # {}
      PROVE  /\ Max(s) \in s /\ \A x \in s : x <= Max(s)
             /\ g[s] = A[<<v[Max(s)], g[s \ {Max(s)}]>>]
  <2>1. Max(s) \in s /\ Max(s) \in 1..n /\ \A x \in s : x <= Max(s)
    BY <1>4, MaxOfInterval
  <2>2. g[s] = F[<<g[s \ {Max(s)}], Max(s)>>]
    <3> HIDE DEF F
    <3> QED BY <1>2, <1>4 DEF IsFold
  <2>3. s \ {Max(s)} \in SUBSET (1..n)
    OBVIOUS
  <2> QED BY <2>1, <2>2, <2>3
<1> HIDE DEF F
<1> DEFINE Added(s) == \A x \in s : g[s] = A[<<v[x], g[s \ {x}]>>]
           Bad == {c \in Nat : \E s \in SUBSET (1..n) : c = Cardinality(s) /\ ~Added(s)}
<1>5. Bad = {}
  <2> SUFFICES ASSUME Bad # {} PROVE FALSE
    OBVIOUS
  <2>1. PICK c \in Bad : \A d \in Bad : c <= d
    <3>1. Bad \subseteq Nat
      OBVIOUS
    <3> HIDE DEF Bad
    <3> QED BY <3>1, LeastNat
  <2>2. PICK s \in SUBSET (1..n) : c = Cardinality(s) /\ ~Added(s)
    OBVIOUS
  <2>3. PICK x \in s : g[s] # A[<<v[x], g[s \ {x}]>>]
    BY <2>2
  <2>4. PICK m \in s : m = Max(s) /\ (\A y \in s : y <= m) /\ g[s] = A[<<v[m], g[s \ {m}]>>]
    BY <1>4, <2>3
  <2>5. x # m
    BY <2>3, <2>4
  <2> DEFINE t == s \ {m}
             u == s \ {x}
             w == t \ {x}
  <2>6. /\ t = s \ {m} /\ u = s \ {x} /\ w = t \ {x} /\ w = u \ {m}
        /\ t \in SUBSET (1..n) /\ u \in SUBSET (1..n) /\ w \in SUBSET (1..n)
    OBVIOUS
  <2> HIDE DEF t, u, w
  <2>7. Added(t)
    <3>1. Cardinality(t) = c - 1 /\ c \in Nat /\ Cardinality(t) \in Nat
      <4>1. Cardinality(s) \in Nat /\ Cardinality(s \ {m}) = Cardinality(s) - 1
        BY PartsOfInterval
      <4>2. Cardinality(t) \in Nat
        BY <2>6, PartsOfInterval
      <4> QED BY <2>2, <2>6, <4>1, <4>2
    <3>2. Cardinality(t) \notin Bad
      <4> HIDE DEF Bad
      <4> QED BY <2>1, <3>1
    <3> HIDE DEF Added
    <3> QED BY <2>6, <3>1, <3>2
  <2>8. g[t] = A[<<v[x], g[w]>>]
    BY <2>5, <2>6, <2>7
  <2>9. g[u] = A[<<v[m], g[w]>>]
    <3>1. m \in u /\ Max(u) \in u /\ m <= Max(u)
      BY <1>4, <2>4, <2>5, <2>6
    <3>2. Max(u) <= m /\ Max(u) \in Nat /\ m \in Nat
      BY <2>4, <2>6, <3>1
    <3>3. Max(u) = m
      BY <3>1, <3>2
    <3> QED BY <1>4, <2>6, <3>1, <3>3, ZenonT(40)
  <2>10. PICK a \in S, b \in S, d \in S : a = v[m] /\ b = v[x] /\ d = g[w]
    BY <2>6
  <2>11. A[<<a, A[<<b, d>>]>>] = A[<<b, A[<<a, d>>]>>]
    <3>1. A[<<a, A[<<b, d>>]>>] = A[<<A[<<a, b>>], d>>]
      BY DEF IsMonoid
    <3>2. A[<<b, A[<<a, d>>]>>] = A[<<A[<<b, a>>], d>>]
      BY DEF IsMonoid
    <3>3. A[<<a, b>>] = A[<<b, a>>]
      BY DEF IsMonoid
    <3> QED BY <3>1, <3>2, <3>3
  <2> QED BY <2>3, <2>4, <2>6, <2>8, <2>9, <2>10, <2>11
<1>6. \A s \in SUBSET (1..n) : Added(s)
  <2> HIDE DEF Added
  <2> QED BY <1>3, <1>5
<1>7. g[{}] = base
  BY <1>2 DEF IsFold
<1> QED BY <1>2, <1>6, <1>7 DEF Adds

\* A fold that takes the elements as it likes.
AddsSomehow(it, n, S, base, A, v) ==
  /\ it[{}] = base
  /\ \A s \in SUBSET (1..n) :
       s # {} => \E x \in s : it[s \ {x}] \in S => it[s] = A[<<v[x], it[s \ {x}]>>]

\* The sums of the terms from the first on.
AddsInTurn(run, n, base, A, v) ==
  run[0] = base /\ \A k \in 1..n : run[k] = A[<<v[k], run[k - 1]>>]

Addable(n, S, base, A, v) == n \in Nat /\ \E g : Adds(g, n, S, base, A, v)

AddsUp(it, n, S, base, A, v) ==
  \E run \in [0..n -> S] : AddsInTurn(run, n, base, A, v) /\ run[n] = it[1..n]

\* The sum over a set, whatever order its fold takes, is the sum in turn.
LEMMA AddedInAnyOrder ==
  ASSUME NEW it, NEW n, NEW S, NEW base, NEW A, NEW v,
         Addable(n, S, base, A, v), AddsSomehow(it, n, S, base, A, v)
  PROVE  AddsUp(it, n, S, base, A, v)
<1>0. PICK g : n \in Nat /\ Adds(g, n, S, base, A, v)
  BY DEF Addable
<1> USE <1>0
<1>1. \A s \in SUBSET (1..n) : Cardinality(s) \in Nat
  BY PartsOfInterval
<1> DEFINE Bad == {c \in Nat : \E s \in SUBSET (1..n) : c = Cardinality(s) /\ it[s] # g[s]}
<1>2. Bad = {}
  <2> SUFFICES ASSUME Bad # {} PROVE FALSE
    OBVIOUS
  <2>1. PICK c \in Bad : \A d \in Bad : c <= d
    <3>1. Bad \subseteq Nat
      OBVIOUS
    <3> HIDE DEF Bad
    <3> QED BY <3>1, LeastNat
  <2>2. PICK s \in SUBSET (1..n) : c = Cardinality(s) /\ it[s] # g[s]
    OBVIOUS
  <2>3. s # {}
    BY <2>2 DEF Adds, AddsSomehow
  <2>4. PICK x \in s : it[s \ {x}] \in S => it[s] = A[<<v[x], it[s \ {x}]>>]
    BY <2>3 DEF AddsSomehow
  <2>5. it[s \ {x}] = g[s \ {x}] /\ g[s \ {x}] \in S
    <3>1. s \ {x} \in SUBSET (1..n) /\ Cardinality(s \ {x}) = c - 1 /\ c \in Nat
      BY <2>2, PartsOfInterval
    <3>2. Cardinality(s \ {x}) \in Nat
      BY <1>1, <3>1
    <3>3. Cardinality(s \ {x}) \notin Bad
      <4> HIDE DEF Bad
      <4> QED BY <2>1, <3>1, <3>2
    <3> QED BY <3>1, <3>2, <3>3 DEF Adds
  <2>6. g[s] = A[<<v[x], g[s \ {x}]>>]
    BY DEF Adds
  <2> QED BY <2>2, <2>4, <2>5, <2>6
<1> DEFINE run == [k \in 0..n |-> g[1..k]]
<1>3. \A k \in 0..n : 1..k \in SUBSET (1..n)
  OBVIOUS
<1>4. run \in [0..n -> S]
  BY <1>3 DEF Adds
<1>5. run[0] = base
  <2>1. 1..0 = {}
    OBVIOUS
  <2> QED BY <2>1 DEF Adds
<1>6. ASSUME NEW k \in 1..n PROVE run[k] = A[<<v[k], run[k - 1]>>]
  <2>1. k \in 0..n /\ k - 1 \in 0..n /\ k \in 1..k /\ (1..k) \ {k} = 1..(k - 1)
    OBVIOUS
  <2>2. 1..k \in SUBSET (1..n)
    BY <1>3, <2>1
  <2>3. g[1..k] = A[<<v[k], g[(1..k) \ {k}]>>]
    BY <2>1, <2>2 DEF Adds
  <2> QED BY <2>1, <2>3
<1>7. run[n] = it[1..n]
  <2>1. n \in 0..n /\ 1..n \in SUBSET (1..n) /\ Cardinality(1..n) \in Nat
    BY <1>1
  <2> QED BY <1>2, <2>1
<1> HIDE DEF run
<1> QED BY <1>4, <1>5, <1>6, <1>7 DEF AddsInTurn, AddsUp

-----------------------------------------------------------------------------
(* Numerators and denominators.                                            *)

\* A negative product divided by its factor.
LEMMA QuotientOfNegative ==
  ASSUME NEW g \in Positive, NEW k \in Nat
  PROVE  (-(g * k)) \div g = -k
<1>1. g \in Nat /\ g # 0 /\ g > 0
  BY DEF Positive
<1>2. PICK q \in Int, r \in Nat : q = (-(g * k)) \div g /\ r < g /\ -(g * k) = g * q + r
  BY <1>1
<1>3. r = g * (-k - q)
  BY <1>1, <1>2
<1> DEFINE m == -k - q
<1>4. m \in Int /\ r = g * m
  BY <1>3
<1> HIDE DEF m
<1>5. m >= 1 => g * m >= g
  BY <1>1, <1>4
<1>6. m <= -1 => g * m < 0
  BY <1>1, <1>4
<1>7. m = 0
  BY <1>1, <1>2, <1>4, <1>5, <1>6
<1> QED BY <1>2, <1>7 DEF m

\* A magnitude is a natural number.
LEMMA MagnitudeType ==
  ASSUME NEW n \in Int
  PROVE  Magnitude(n) \in Nat /\ (n = Magnitude(n) \/ n = -Magnitude(n))
BY DEF Magnitude

\* Reducing keeps value and sign.
LEMMA ReducedTerms ==
  ASSUME NEW n \in Int, NEW d \in Positive
  PROVE  \E k \in Int, l \in Positive :
           /\ Reduced(n, d) = <<k, l>> /\ k * d = n * l
           /\ Reduced(Magnitude(n), d) = <<Magnitude(k), l>>
<1> DEFINE a == Magnitude(n)
           g == gcd[<<a, d>>]
<1>1. d \in Nat /\ d # 0 /\ a \in Nat /\ Magnitude(a) = a
  BY MagnitudeType DEF Positive, Magnitude
<1>2. g \in CommonDivisors(a, d)
  BY <1>1, GcdIsGreatest
<1>3. PICK i \in Nat, l \in Nat : a = g * i /\ d = g * l
  BY <1>2 DEF CommonDivisors, Divides
<1>4. g \in Positive /\ l \in Positive
  <2> HIDE DEF g, a
  <2>1. g \in Nat
    BY <1>2 DEF CommonDivisors
  <2>2. g # 0 /\ l # 0
    BY <1>1, <1>3, <2>1
  <2> QED BY <2>1, <2>2 DEF Positive
<1>5. a \div g = i /\ d \div g = l /\ (-a) \div g = -i
  <2> HIDE DEF g, a
  <2> QED BY <1>3, <1>4, Quotient, QuotientOfNegative
<1>6. Reduced(a, d) = <<i, l>>
  BY <1>1, <1>4, <1>5 DEF Reduced, Positive
<1>7. Reduced(n, d) = <<n \div g, l>>
  BY <1>1, <1>4, <1>5 DEF Reduced, Positive
<1>8. i * d = a * l
  <2> HIDE DEF g, a
  <2>1. g \in Nat /\ l \in Nat
    BY <1>4 DEF Positive
  <2> QED BY <1>3, <2>1
<1>9. n = a \/ n = -a
  BY MagnitudeType
<1> HIDE DEF g, a
<1>10. CASE n = a
  <2>1. Magnitude(i) = i
    BY DEF Magnitude
  <2> QED BY <1>4, <1>5, <1>6, <1>7, <1>8, <1>10, <2>1 DEF a
<1>11. CASE n = -a
  <2>1. Magnitude(-i) = i /\ -i \in Int
    BY DEF Magnitude
  <2>2. (-i) * d = (-a) * l
    <3>1. l \in Nat
      BY <1>4 DEF Positive
    <3>2. (-i) * d = -(i * d) /\ (-a) * l = -(a * l)
      BY <1>1, <3>1
    <3> QED BY <1>8, <3>2
  <2> QED BY <1>4, <1>5, <1>6, <1>7, <1>11, <2>1, <2>2 DEF a
<1> QED BY <1>9, <1>10, <1>11

\* A positive factor keeps the sign.
LEMMA SignOfProduct ==
  ASSUME NEW k \in Int, NEW d \in Positive
  PROVE  /\ k * d \in Int
         /\ k * d > 0 <=> k > 0
         /\ k * d < 0 <=> k < 0
         /\ k * d = 0 <=> k = 0
<1>1. d \in Nat /\ d > 0
  BY DEF Positive
<1>2. k > 0 => k * d > 0
  BY <1>1
<1>3. k < 0 => k * d < 0
  BY <1>1
<1>4. k = 0 => k * d = 0
  BY <1>1
<1>5. PICK u \in Int : u = k * d
  BY <1>1
<1> QED BY <1>2, <1>3, <1>4, <1>5

\* A product of positive numbers is positive.
LEMMA PositiveProduct ==
  ASSUME NEW d \in Positive, NEW e \in Positive
  PROVE  d * e \in Positive
<1>1. d \in Int /\ d > 0 /\ e \in Int /\ e > 0
  BY DEF Positive
<1>2. d * e \in Int /\ d * e > 0
  BY <1>1, SignOfProduct
<1> QED BY <1>2 DEF Positive

\* Two equal ratios have the same sign.
LEMMA SameSign ==
  ASSUME NEW k \in Int, NEW d \in Positive, NEW n \in Int, NEW l \in Positive, k * d = n * l
  PROVE  (k > 0 <=> n > 0) /\ (k < 0 <=> n < 0) /\ (k = 0 <=> n = 0)
BY SignOfProduct

\* Equal ratios have one reduced form, whatever their sign.
LEMMA SameRatios ==
  ASSUME NEW n \in Int, NEW d \in Positive, NEW m \in Int, NEW e \in Positive
  PROVE  Reduced(n, d) = Reduced(m, e) <=> n * e = m * d
<1>1. PICK k \in Int, l \in Positive :
        /\ Reduced(n, d) = <<k, l>> /\ k * d = n * l
        /\ Reduced(Magnitude(n), d) = <<Magnitude(k), l>>
  BY ReducedTerms
<1>2. PICK i \in Int, j \in Positive :
        /\ Reduced(m, e) = <<i, j>> /\ i * e = m * j
        /\ Reduced(Magnitude(m), e) = <<Magnitude(i), j>>
  BY ReducedTerms
<1>3. /\ d \in Nat /\ d # 0 /\ e \in Nat /\ e # 0
      /\ l \in Nat /\ l # 0 /\ j \in Nat /\ j # 0
  BY DEF Positive
<1>4. ASSUME k = i, l = j PROVE n * e = m * d
  <2>1. (n * e) * l = (m * d) * l
    <3>1. (n * e) * l = (n * l) * e
      BY <1>3
    <3>2. (m * d) * l = (m * l) * d
      BY <1>3
    <3>3. (k * d) * e = (k * e) * d
      BY <1>3
    <3> QED BY <1>1, <1>2, <1>4, <3>1, <3>2, <3>3
  <2> QED BY <1>3, <2>1, Cancel
<1>5. ASSUME n * e = m * d PROVE k = i /\ l = j
  <2>1. Magnitude(n) * e = Magnitude(m) * d
    <3>1. n < 0 <=> m < 0
      BY <1>5, SameSign
    <3>2. (-n) * e = -(n * e) /\ (-m) * d = -(m * d)
      BY <1>3
    <3> QED BY <1>5, <3>1, <3>2 DEF Magnitude
  <2>2. Magnitude(n) \in Nat /\ Magnitude(m) \in Nat
    BY MagnitudeType
  <2>3. Reduced(Magnitude(n), d) = Reduced(Magnitude(m), e)
    BY <2>1, <2>2, SameRatio
  <2>4. Magnitude(k) = Magnitude(i) /\ l = j
    BY <1>1, <1>2, <2>3
  <2>5. k < 0 <=> n < 0
    BY <1>1, SameSign
  <2>6. i < 0 <=> m < 0
    BY <1>2, SameSign
  <2>7. n < 0 <=> m < 0
    BY <1>5, SameSign
  <2> QED BY <2>4, <2>5, <2>6, <2>7 DEF Magnitude
<1> QED BY <1>1, <1>2, <1>4, <1>5

\* Numerator and denominator of a finite double.
LEMMA FiniteTerms ==
  ASSUME NEW x \in Finite
  PROVE  /\ x = <<x[1], x[2]>> /\ x[1] \in Int /\ x[2] \in Positive /\ x[2] \in Nat /\ x[2] # 0
         /\ x = Reduced(x[1], x[2])
BY DEF Finite, Positive

\* A reduced ratio is a finite double.
LEMMA ReducedIsFinite ==
  ASSUME NEW n \in Int, NEW d \in Positive
  PROVE  Reduced(n, d) \in Finite /\ Reduced(n, d)[1] * d = n * Reduced(n, d)[2]
<1>1. PICK k \in Int, l \in Positive : Reduced(n, d) = <<k, l>> /\ k * d = n * l
  BY ReducedTerms
<1>2. Reduced(k, l) = Reduced(n, d)
  BY <1>1, SameRatios
<1>3. <<k, l>> \in Int \X Nat /\ l > 0
  BY DEF Positive
<1>4. <<k, l>> \in Finite
  BY <1>1, <1>2, <1>3 DEF Finite
<1> QED BY <1>1, <1>4

\* The fractions are the finite doubles that are not negative.
LEMMA FractionsAreFinite == Fractions = {x \in Finite : x[1] >= 0}
<1>1. ASSUME NEW x \in Fractions PROVE x \in Finite /\ x[1] >= 0
  <2>1. x[1] \in Nat /\ x[2] \in Positive /\ Reduced(x[1], x[2]) = x
    BY FractionTerms, Unreduced
  <2> QED BY <2>1, ReducedIsFinite
<1>2. ASSUME NEW x \in Finite, x[1] >= 0 PROVE x \in Fractions
  <2>1. x[1] \in Nat /\ x[2] \in Positive /\ x = Reduced(x[1], x[2])
    BY <1>2, FiniteTerms
  <2> QED BY <2>1, ReducedIs
<1> QED BY <1>1, <1>2

\* The operations may be computed with any terms of the same value.
LEMMA OnRatios ==
  ASSUME NEW n \in Int, NEW d \in Positive, NEW m \in Int, NEW e \in Positive
  PROVE  /\ Plus(Reduced(n, d), Reduced(m, e)) = Reduced(n * e + m * d, d * e)
         /\ Minus(Reduced(n, d), Reduced(m, e)) = Reduced(n * e - m * d, d * e)
         /\ Times(Reduced(n, d), Reduced(m, e)) = Reduced(n * m, d * e)
         /\ m > 0 => Over(Reduced(n, d), Reduced(m, e)) = Reduced(n * e, d * m)
         /\ Less(Reduced(n, d), Reduced(m, e)) <=> n * e < m * d
<1>1. PICK k \in Int, l \in Positive : Reduced(n, d) = <<k, l>> /\ k * d = n * l
  BY ReducedTerms
<1>2. PICK i \in Int, j \in Positive : Reduced(m, e) = <<i, j>> /\ i * e = m * j
  BY ReducedTerms
<1>3. /\ d \in Int /\ d > 0 /\ e \in Int /\ e > 0 /\ l \in Int /\ l > 0 /\ j \in Int /\ j > 0
  BY DEF Positive
<1>4. d * e \in Positive /\ l * j \in Positive
  BY <1>3, PositiveProduct
<1>5. (k * j) * (d * e) = (n * e) * (l * j)
  <2>1. (k * j) * (d * e) = (k * d) * (j * e)
    BY <1>3
  <2>2. (n * l) * (j * e) = (n * e) * (l * j)
    BY <1>3
  <2> QED BY <1>1, <2>1, <2>2
<1>6. (i * l) * (d * e) = (m * d) * (l * j)
  <2>1. (i * l) * (d * e) = (i * e) * (l * d)
    BY <1>3
  <2>2. (m * j) * (l * d) = (m * d) * (l * j)
    BY <1>3
  <2> QED BY <1>2, <2>1, <2>2
<1>7. PICK kj \in Int, il \in Int, ne \in Int, md \in Int :
        kj = k * j /\ il = i * l /\ ne = n * e /\ md = m * d
  BY <1>3
<1>8. PICK de \in Positive, lj \in Positive : de = d * e /\ lj = l * j
  BY <1>4
<1>9. kj * de = ne * lj /\ il * de = md * lj
  BY <1>5, <1>6, <1>7, <1>8
<1>10. /\ (kj + il) * de = (ne + md) * lj
       /\ (kj - il) * de = (ne - md) * lj
  <2>1. de \in Int /\ lj \in Int
    BY DEF Positive
  <2>2. /\ (kj + il) * de = kj * de + il * de /\ (ne + md) * lj = ne * lj + md * lj
        /\ (kj - il) * de = kj * de - il * de /\ (ne - md) * lj = ne * lj - md * lj
    BY <2>1
  <2> QED BY <1>9, <2>2
<1>11. Plus(Reduced(n, d), Reduced(m, e)) = Reduced(n * e + m * d, d * e)
  <2>1. Plus(<<k, l>>, <<i, j>>) = Reduced(kj + il, lj)
    BY <1>7, <1>8 DEF Plus
  <2>2. Reduced(kj + il, lj) = Reduced(ne + md, de)
    BY <1>10, SameRatios
  <2> QED BY <1>1, <1>2, <1>7, <1>8, <2>1, <2>2
<1>12. Minus(Reduced(n, d), Reduced(m, e)) = Reduced(n * e - m * d, d * e)
  <2>1. Minus(<<k, l>>, <<i, j>>) = Reduced(kj - il, lj)
    BY <1>7, <1>8 DEF Minus
  <2>2. Reduced(kj - il, lj) = Reduced(ne - md, de)
    BY <1>10, SameRatios
  <2> QED BY <1>1, <1>2, <1>7, <1>8, <2>1, <2>2
<1>13. Times(Reduced(n, d), Reduced(m, e)) = Reduced(n * m, d * e)
  <2>1. (k * i) * (d * e) = (n * m) * (l * j)
    <3>1. (k * i) * (d * e) = (k * d) * (i * e)
      BY <1>3
    <3>2. (n * l) * (m * j) = (n * m) * (l * j)
      BY <1>3
    <3> QED BY <1>1, <1>2, <3>1, <3>2
  <2>2. k * i \in Int /\ n * m \in Int
    OBVIOUS
  <2>3. Reduced(k * i, l * j) = Reduced(n * m, d * e)
    BY <1>4, <2>1, <2>2, SameRatios
  <2> QED BY <1>1, <1>2, <2>3 DEF Times
<1>14. ASSUME m > 0 PROVE Over(Reduced(n, d), Reduced(m, e)) = Reduced(n * e, d * m)
  <2>1. i > 0
    BY <1>2, <1>14, SameSign
  <2>2. i \in Positive /\ m \in Positive
    BY <1>14, <2>1 DEF Positive
  <2>3. l * i \in Positive /\ d * m \in Positive
    BY <2>2, PositiveProduct
  <2>4. (k * j) * (d * m) = (n * e) * (l * i)
    <3>1. (k * j) * (d * m) = (k * d) * (m * j)
      BY <1>3
    <3>2. (n * l) * (i * e) = (n * e) * (l * i)
      BY <1>3
    <3> QED BY <1>1, <1>2, <3>1, <3>2
  <2>5. k * j \in Int /\ n * e \in Int
    BY <1>3
  <2>6. Reduced(k * j, l * i) = Reduced(n * e, d * m)
    BY <2>3, <2>4, <2>5, SameRatios
  <2> QED BY <1>1, <1>2, <2>6 DEF Over
<1>15. Less(Reduced(n, d), Reduced(m, e)) <=> n * e < m * d
  <2>1. Less(<<k, l>>, <<i, j>>) <=> kj < il
    BY <1>7 DEF Less
  <2>2. kj - il \in Int /\ ne - md \in Int
    OBVIOUS
  <2>3. kj - il < 0 <=> ne - md < 0
    BY <1>10, <2>2, SameSign
  <2> QED BY <1>1, <1>2, <1>7, <2>1, <2>3
<1> QED BY <1>11, <1>12, <1>13, <1>14, <1>15

-----------------------------------------------------------------------------
(* Terms of the numbers in use.                                            *)

\* A factor that is not negative keeps the order.
LEMMA ScaledOrder ==
  ASSUME NEW n \in Int, NEW m \in Int, NEW k \in Int, k >= 0, n <= m
  PROVE  n * k <= m * k
<1>1. (m - n) * k >= 0
  OBVIOUS
<1>2. (m - n) * k = m * k - n * k
  OBVIOUS
<1> QED BY <1>1, <1>2

\* Numerator and denominator of an amount.
LEMMA AmountTerms ==
  ASSUME NEW x \in Amounts
  PROVE  /\ x = Reduced(x[1], x[2]) /\ x[1] \in Positive /\ x[2] \in Positive
         /\ x \in Finite
BY DEF Amounts, Positive, Finite

\* Zero and one as ratios.
LEMMA ZeroIs == Zero = Reduced(0, 1) /\ 1 \in Positive /\ One \in Amounts /\ One = Reduced(1, 1)
<1>1. 1 \in Positive /\ 0 \in Nat
  BY DEF Positive
<1>2. Reduced(0, 1) = Zero
  BY <1>1, ReducedIsZero
<1>3. Reduced(1, 1) = <<1, 1>>
  <2>1. Reduced(1, 1) # Zero /\ Reduced(1, 1) \in Fractions
    BY <1>1, ReducedIs, ReducedIsZero DEF Positive
  <2>2. <<1, 1>> \in Fractions
    <3>1. ASSUME NEW h \in CommonDivisors(1, 1) PROVE h = 1
      <4>1. h \in Nat /\ Divides(h, 1)
        BY DEF CommonDivisors
      <4>2. h <= 1 /\ h # 0
        BY <4>1, DivisorIsAtMost
      <4> QED BY <4>1, <4>2
    <3> QED BY <1>1, <3>1 DEF Fractions, Positive
  <2>3. Reduced(<<1, 1>>[1], <<1, 1>>[2]) = <<1, 1>>
    BY <2>2, Unreduced
  <2> QED BY <2>3
<1>4. One \in Amounts
  BY <1>3 DEF One, Amounts
<1> QED BY <1>1, <1>2, <1>3, <1>4 DEF One

-----------------------------------------------------------------------------
(* Sums, products and quotients.                                           *)

\* Addition commutes.
LEMMA PlusCommutes ==
  ASSUME NEW x \in Finite, NEW y \in Finite
  PROVE  Plus(x, y) = Plus(y, x)
<1>1. PICK a \in Int, b \in Positive : x = Reduced(a, b)
  BY FiniteTerms
<1>2. PICK c \in Int, d \in Positive : y = Reduced(c, d)
  BY FiniteTerms
<1>3. b \in Int /\ d \in Int
  BY DEF Positive
<1>4. /\ Plus(x, y) = Reduced(a * d + c * b, b * d)
      /\ a * d + c * b \in Int /\ b * d \in Positive
  BY <1>1, <1>2, <1>3, OnRatios, PositiveProduct
<1>5. /\ Plus(y, x) = Reduced(c * b + a * d, d * b)
      /\ c * b + a * d \in Int /\ d * b \in Positive
  BY <1>1, <1>2, <1>3, OnRatios, PositiveProduct
<1>6. (a * d + c * b) * (d * b) = (c * b + a * d) * (b * d)
  BY <1>3
<1> QED BY <1>4, <1>5, <1>6, SameRatios

\* Addition associates.
LEMMA PlusAssociates ==
  ASSUME NEW x \in Finite, NEW y \in Finite, NEW z \in Finite
  PROVE  Plus(Plus(x, y), z) = Plus(x, Plus(y, z))
<1>1. PICK a \in Int, b \in Positive : x = Reduced(a, b)
  BY FiniteTerms
<1>2. PICK c \in Int, d \in Positive : y = Reduced(c, d)
  BY FiniteTerms
<1>3. PICK e \in Int, f \in Positive : z = Reduced(e, f)
  BY FiniteTerms
<1>4. b \in Int /\ d \in Int /\ f \in Int
  BY DEF Positive
<1>5. /\ Plus(x, y) = Reduced(a * d + c * b, b * d)
      /\ a * d + c * b \in Int /\ b * d \in Positive
  BY <1>1, <1>2, <1>4, OnRatios, PositiveProduct
<1>6. /\ Plus(Plus(x, y), z) = Reduced((a * d + c * b) * f + e * (b * d), (b * d) * f)
      /\ (a * d + c * b) * f + e * (b * d) \in Int /\ (b * d) * f \in Positive
  BY <1>3, <1>5, <1>4, OnRatios, PositiveProduct
<1>7. /\ Plus(y, z) = Reduced(c * f + e * d, d * f)
      /\ c * f + e * d \in Int /\ d * f \in Positive
  BY <1>2, <1>3, <1>4, OnRatios, PositiveProduct
<1>8. /\ Plus(x, Plus(y, z)) = Reduced(a * (d * f) + (c * f + e * d) * b, b * (d * f))
      /\ a * (d * f) + (c * f + e * d) * b \in Int /\ b * (d * f) \in Positive
  BY <1>1, <1>7, <1>4, OnRatios, PositiveProduct
<1>9. ((a * d + c * b) * f + e * (b * d)) * (b * (d * f)) = (a * (d * f) + (c * f + e * d) * b) * ((b * d) * f)
  BY <1>4
<1> QED BY <1>6, <1>8, <1>9, SameRatios

\* Multiplication commutes.
LEMMA TimesCommutes ==
  ASSUME NEW x \in Finite, NEW y \in Finite
  PROVE  Times(x, y) = Times(y, x)
<1>1. PICK a \in Int, b \in Positive : x = Reduced(a, b)
  BY FiniteTerms
<1>2. PICK c \in Int, d \in Positive : y = Reduced(c, d)
  BY FiniteTerms
<1>3. b \in Int /\ d \in Int
  BY DEF Positive
<1>4. /\ Times(x, y) = Reduced(a * c, b * d)
      /\ a * c \in Int /\ b * d \in Positive
  BY <1>1, <1>2, <1>3, OnRatios, PositiveProduct
<1>5. /\ Times(y, x) = Reduced(c * a, d * b)
      /\ c * a \in Int /\ d * b \in Positive
  BY <1>1, <1>2, <1>3, OnRatios, PositiveProduct
<1>6. (a * c) * (d * b) = (c * a) * (b * d)
  BY <1>3
<1> QED BY <1>4, <1>5, <1>6, SameRatios

\* Multiplication distributes over addition.
LEMMA TimesDistributes ==
  ASSUME NEW x \in Finite, NEW y \in Finite, NEW z \in Finite
  PROVE  Times(x, Plus(y, z)) = Plus(Times(x, y), Times(x, z))
<1>1. PICK a \in Int, b \in Positive : x = Reduced(a, b)
  BY FiniteTerms
<1>2. PICK c \in Int, d \in Positive : y = Reduced(c, d)
  BY FiniteTerms
<1>3. PICK e \in Int, f \in Positive : z = Reduced(e, f)
  BY FiniteTerms
<1>4. b \in Int /\ d \in Int /\ f \in Int
  BY DEF Positive
<1>5. /\ Plus(y, z) = Reduced(c * f + e * d, d * f)
      /\ c * f + e * d \in Int /\ d * f \in Positive
  BY <1>2, <1>3, <1>4, OnRatios, PositiveProduct
<1>6. /\ Times(x, Plus(y, z)) = Reduced(a * (c * f + e * d), b * (d * f))
      /\ a * (c * f + e * d) \in Int /\ b * (d * f) \in Positive
  BY <1>1, <1>5, <1>4, OnRatios, PositiveProduct
<1>7. /\ Times(x, y) = Reduced(a * c, b * d)
      /\ a * c \in Int /\ b * d \in Positive
  BY <1>1, <1>2, <1>4, OnRatios, PositiveProduct
<1>8. /\ Times(x, z) = Reduced(a * e, b * f)
      /\ a * e \in Int /\ b * f \in Positive
  BY <1>1, <1>3, <1>4, OnRatios, PositiveProduct
<1>9. /\ Plus(Times(x, y), Times(x, z)) = Reduced((a * c) * (b * f) + (a * e) * (b * d), (b * d) * (b * f))
      /\ (a * c) * (b * f) + (a * e) * (b * d) \in Int /\ (b * d) * (b * f) \in Positive
  BY <1>7, <1>8, <1>4, OnRatios, PositiveProduct
<1>10. (a * (c * f + e * d)) * ((b * d) * (b * f)) = ((a * c) * (b * f) + (a * e) * (b * d)) * (b * (d * f))
  BY <1>4
<1> QED BY <1>6, <1>9, <1>10, SameRatios

\* So does division by an amount.
LEMMA OverDistributes ==
  ASSUME NEW x \in Finite, NEW y \in Finite, NEW z \in Amounts
  PROVE  Over(Plus(x, y), z) = Plus(Over(x, z), Over(y, z))
<1>1. PICK a \in Int, b \in Positive : x = Reduced(a, b)
  BY FiniteTerms
<1>2. PICK c \in Int, d \in Positive : y = Reduced(c, d)
  BY FiniteTerms
<1>3. PICK e \in Positive, f \in Positive : z = Reduced(e, f)
  BY AmountTerms
<1>4. b \in Int /\ d \in Int /\ f \in Int /\ e \in Int /\ e > 0
  BY DEF Positive
<1>5. /\ Plus(x, y) = Reduced(a * d + c * b, b * d)
      /\ a * d + c * b \in Int /\ b * d \in Positive
  BY <1>1, <1>2, <1>4, OnRatios, PositiveProduct
<1>6. /\ Over(Plus(x, y), z) = Reduced((a * d + c * b) * f, (b * d) * e)
      /\ (a * d + c * b) * f \in Int /\ (b * d) * e \in Positive
  BY <1>3, <1>5, <1>4, OnRatios, PositiveProduct
<1>7. /\ Over(x, z) = Reduced(a * f, b * e)
      /\ a * f \in Int /\ b * e \in Positive
  BY <1>1, <1>3, <1>4, OnRatios, PositiveProduct
<1>8. /\ Over(y, z) = Reduced(c * f, d * e)
      /\ c * f \in Int /\ d * e \in Positive
  BY <1>2, <1>3, <1>4, OnRatios, PositiveProduct
<1>9. /\ Plus(Over(x, z), Over(y, z)) = Reduced((a * f) * (d * e) + (c * f) * (b * e), (b * e) * (d * e))
      /\ (a * f) * (d * e) + (c * f) * (b * e) \in Int /\ (b * e) * (d * e) \in Positive
  BY <1>7, <1>8, <1>4, OnRatios, PositiveProduct
<1>10. ((a * d + c * b) * f) * ((b * e) * (d * e)) = ((a * f) * (d * e) + (c * f) * (b * e)) * ((b * d) * e)
  BY <1>4
<1> QED BY <1>6, <1>9, <1>10, SameRatios

\* A number less itself is zero.
LEMMA MinusItself ==
  ASSUME NEW x \in Finite
  PROVE  Minus(x, x) = Zero
<1>1. PICK a \in Int, b \in Positive : x = Reduced(a, b)
  BY FiniteTerms
<1>2. b \in Int
  BY DEF Positive
<1>3. /\ Minus(x, x) = Reduced(a * b - a * b, b * b)
      /\ a * b - a * b \in Int /\ b * b \in Positive
  BY <1>1, <1>2, OnRatios, PositiveProduct
<1>4. (a * b - a * b) * 1 = 0 * (b * b)
  BY <1>2
<1> QED BY <1>3, <1>4, SameRatios, ZeroIs

\* Addition undoes subtraction.
LEMMA MinusThenPlus ==
  ASSUME NEW x \in Finite, NEW y \in Finite
  PROVE  Plus(y, Minus(x, y)) = x
<1>1. PICK a \in Int, b \in Positive : x = Reduced(a, b)
  BY FiniteTerms
<1>2. PICK c \in Int, d \in Positive : y = Reduced(c, d)
  BY FiniteTerms
<1>3. b \in Int /\ d \in Int
  BY DEF Positive
<1>4. /\ Minus(x, y) = Reduced(a * d - c * b, b * d)
      /\ a * d - c * b \in Int /\ b * d \in Positive
  BY <1>1, <1>2, <1>3, OnRatios, PositiveProduct
<1>5. /\ Plus(y, Minus(x, y)) = Reduced(c * (b * d) + (a * d - c * b) * d, d * (b * d))
      /\ c * (b * d) + (a * d - c * b) * d \in Int /\ d * (b * d) \in Positive
  BY <1>2, <1>4, <1>3, OnRatios, PositiveProduct
<1>6. (c * (b * d) + (a * d - c * b) * d) * b = a * (d * (b * d))
  BY <1>3
<1> QED BY <1>5, <1>1, <1>6, SameRatios

\* Subtraction undoes addition.
LEMMA PlusThenMinus ==
  ASSUME NEW x \in Finite, NEW y \in Finite
  PROVE  Minus(Plus(x, y), x) = y
<1>1. PICK a \in Int, b \in Positive : x = Reduced(a, b)
  BY FiniteTerms
<1>2. PICK c \in Int, d \in Positive : y = Reduced(c, d)
  BY FiniteTerms
<1>3. b \in Int /\ d \in Int
  BY DEF Positive
<1>4. /\ Plus(x, y) = Reduced(a * d + c * b, b * d)
      /\ a * d + c * b \in Int /\ b * d \in Positive
  BY <1>1, <1>2, <1>3, OnRatios, PositiveProduct
<1>5. /\ Minus(Plus(x, y), x) = Reduced((a * d + c * b) * b - a * (b * d), (b * d) * b)
      /\ (a * d + c * b) * b - a * (b * d) \in Int /\ (b * d) * b \in Positive
  BY <1>1, <1>4, <1>3, OnRatios, PositiveProduct
<1>6. ((a * d + c * b) * b - a * (b * d)) * d = c * ((b * d) * b)
  BY <1>3
<1> QED BY <1>5, <1>2, <1>6, SameRatios

\* To subtract twice is to subtract the sum.
LEMMA MinusTwice ==
  ASSUME NEW x \in Finite, NEW y \in Finite, NEW z \in Finite
  PROVE  Minus(Minus(x, y), z) = Minus(x, Plus(y, z))
<1>1. PICK a \in Int, b \in Positive : x = Reduced(a, b)
  BY FiniteTerms
<1>2. PICK c \in Int, d \in Positive : y = Reduced(c, d)
  BY FiniteTerms
<1>3. PICK e \in Int, f \in Positive : z = Reduced(e, f)
  BY FiniteTerms
<1>4. b \in Int /\ d \in Int /\ f \in Int
  BY DEF Positive
<1>5. /\ Minus(x, y) = Reduced(a * d - c * b, b * d)
      /\ a * d - c * b \in Int /\ b * d \in Positive
  BY <1>1, <1>2, <1>4, OnRatios, PositiveProduct
<1>6. /\ Minus(Minus(x, y), z) = Reduced((a * d - c * b) * f - e * (b * d), (b * d) * f)
      /\ (a * d - c * b) * f - e * (b * d) \in Int /\ (b * d) * f \in Positive
  BY <1>3, <1>5, <1>4, OnRatios, PositiveProduct
<1>7. /\ Plus(y, z) = Reduced(c * f + e * d, d * f)
      /\ c * f + e * d \in Int /\ d * f \in Positive
  BY <1>2, <1>3, <1>4, OnRatios, PositiveProduct
<1>8. /\ Minus(x, Plus(y, z)) = Reduced(a * (d * f) - (c * f + e * d) * b, b * (d * f))
      /\ a * (d * f) - (c * f + e * d) * b \in Int /\ b * (d * f) \in Positive
  BY <1>1, <1>7, <1>4, OnRatios, PositiveProduct
<1>9. ((a * d - c * b) * f - e * (b * d)) * (b * (d * f)) = (a * (d * f) - (c * f + e * d) * b) * ((b * d) * f)
  BY <1>4
<1> QED BY <1>6, <1>8, <1>9, SameRatios

\* What was subtracted too much can be added again.
LEMMA MinusLess ==
  ASSUME NEW x \in Finite, NEW y \in Finite, NEW z \in Finite
  PROVE  Minus(x, y) = Plus(Minus(x, Plus(y, z)), z)
<1>1. PICK a \in Int, b \in Positive : x = Reduced(a, b)
  BY FiniteTerms
<1>2. PICK c \in Int, d \in Positive : y = Reduced(c, d)
  BY FiniteTerms
<1>3. PICK e \in Int, f \in Positive : z = Reduced(e, f)
  BY FiniteTerms
<1>4. b \in Int /\ d \in Int /\ f \in Int
  BY DEF Positive
<1>5. /\ Minus(x, y) = Reduced(a * d - c * b, b * d)
      /\ a * d - c * b \in Int /\ b * d \in Positive
  BY <1>1, <1>2, <1>4, OnRatios, PositiveProduct
<1>6. /\ Plus(y, z) = Reduced(c * f + e * d, d * f)
      /\ c * f + e * d \in Int /\ d * f \in Positive
  BY <1>2, <1>3, <1>4, OnRatios, PositiveProduct
<1>7. /\ Minus(x, Plus(y, z)) = Reduced(a * (d * f) - (c * f + e * d) * b, b * (d * f))
      /\ a * (d * f) - (c * f + e * d) * b \in Int /\ b * (d * f) \in Positive
  BY <1>1, <1>6, <1>4, OnRatios, PositiveProduct
<1>8. /\ Plus(Minus(x, Plus(y, z)), z) = Reduced((a * (d * f) - (c * f + e * d) * b) * f + e * (b * (d * f)), (b * (d * f)) * f)
      /\ (a * (d * f) - (c * f + e * d) * b) * f + e * (b * (d * f)) \in Int /\ (b * (d * f)) * f \in Positive
  BY <1>3, <1>7, <1>4, OnRatios, PositiveProduct
<1>9. (a * d - c * b) * ((b * (d * f)) * f) = ((a * (d * f) - (c * f + e * d) * b) * f + e * (b * (d * f))) * (b * d)
  BY <1>4
<1> QED BY <1>5, <1>8, <1>9, SameRatios

\* Division undoes multiplication.
LEMMA TimesThenOver ==
  ASSUME NEW x \in Amounts, NEW y \in Finite
  PROVE  Over(Times(x, y), x) = y
<1>1. PICK a \in Positive, b \in Positive : x = Reduced(a, b)
  BY AmountTerms
<1>2. PICK c \in Int, d \in Positive : y = Reduced(c, d)
  BY FiniteTerms
<1>3. b \in Int /\ d \in Int /\ a \in Int /\ a > 0
  BY DEF Positive
<1>4. /\ Times(x, y) = Reduced(a * c, b * d)
      /\ a * c \in Int /\ b * d \in Positive
  BY <1>1, <1>2, <1>3, OnRatios, PositiveProduct
<1>5. /\ Over(Times(x, y), x) = Reduced((a * c) * b, (b * d) * a)
      /\ (a * c) * b \in Int /\ (b * d) * a \in Positive
  BY <1>1, <1>4, <1>3, OnRatios, PositiveProduct
<1>6. ((a * c) * b) * d = c * ((b * d) * a)
  BY <1>3
<1> QED BY <1>5, <1>2, <1>6, SameRatios

\* Multiplication undoes division.
LEMMA OverThenTimes ==
  ASSUME NEW x \in Amounts, NEW y \in Finite
  PROVE  Times(x, Over(y, x)) = y
<1>1. PICK a \in Positive, b \in Positive : x = Reduced(a, b)
  BY AmountTerms
<1>2. PICK c \in Int, d \in Positive : y = Reduced(c, d)
  BY FiniteTerms
<1>3. b \in Int /\ d \in Int /\ a \in Int /\ a > 0
  BY DEF Positive
<1>4. /\ Over(y, x) = Reduced(c * b, d * a)
      /\ c * b \in Int /\ d * a \in Positive
  BY <1>1, <1>2, <1>3, OnRatios, PositiveProduct
<1>5. /\ Times(x, Over(y, x)) = Reduced(a * (c * b), b * (d * a))
      /\ a * (c * b) \in Int /\ b * (d * a) \in Positive
  BY <1>1, <1>4, <1>3, OnRatios, PositiveProduct
<1>6. (a * (c * b)) * d = c * (b * (d * a))
  BY <1>3
<1> QED BY <1>5, <1>2, <1>6, SameRatios

\* Multiplication associates.
LEMMA TimesAssociates ==
  ASSUME NEW x \in Finite, NEW y \in Finite, NEW z \in Finite
  PROVE  Times(Times(x, y), z) = Times(x, Times(y, z))
<1>1. PICK a \in Int, b \in Positive : x = Reduced(a, b)
  BY FiniteTerms
<1>2. PICK c \in Int, d \in Positive : y = Reduced(c, d)
  BY FiniteTerms
<1>3. PICK e \in Int, f \in Positive : z = Reduced(e, f)
  BY FiniteTerms
<1>4. b \in Int /\ d \in Int /\ f \in Int
  BY DEF Positive
<1>5. /\ Times(x, y) = Reduced(a * c, b * d)
      /\ a * c \in Int /\ b * d \in Positive
  BY <1>1, <1>2, <1>4, OnRatios, PositiveProduct
<1>6. /\ Times(y, z) = Reduced(c * e, d * f)
      /\ c * e \in Int /\ d * f \in Positive
  BY <1>2, <1>3, <1>4, OnRatios, PositiveProduct
<1>7. Times(Times(x, y), z) = Reduced((a * c) * e, (b * d) * f)
  BY <1>3, <1>5, OnRatios
<1>8. Times(x, Times(y, z)) = Reduced(a * (c * e), b * (d * f))
  BY <1>1, <1>6, OnRatios
<1>9. (a * c) * e = a * (c * e) /\ (b * d) * f = b * (d * f)
  BY <1>4
<1> QED BY <1>7, <1>8, <1>9

\* Of three factors, the last two may change places.
LEMMA TimesSwaps ==
  ASSUME NEW x \in Finite, NEW y \in Finite, NEW z \in Finite
  PROVE  Times(Times(x, y), z) = Times(Times(x, z), y)
<1>1. /\ Times(Times(x, y), z) = Times(x, Times(y, z))
      /\ Times(Times(x, z), y) = Times(x, Times(z, y))
  BY TimesAssociates
<1>2. Times(y, z) = Times(z, y)
  BY TimesCommutes
<1> QED BY <1>1, <1>2

\* One is neutral.
LEMMA TimesOne ==
  ASSUME NEW x \in Finite
  PROVE  Times(x, One) = x /\ Times(One, x) = x
<1>1. PICK a \in Int, b \in Positive : x = Reduced(a, b)
  BY FiniteTerms
<1>2. b \in Int
  BY DEF Positive
<1>3. Times(x, One) = Reduced(a * 1, b * 1) /\ Times(One, x) = Reduced(1 * a, 1 * b)
  BY <1>1, ZeroIs, OnRatios
<1>4. a * 1 = a /\ b * 1 = b /\ 1 * a = a /\ 1 * b = b
  BY <1>2
<1> QED BY <1>1, <1>3, <1>4

\* Dividing is multiplying with the inverse.
LEMMA TimesInverse ==
  ASSUME NEW x \in Finite, NEW y \in Amounts
  PROVE  Times(x, Over(One, y)) = Over(x, y)
<1>1. PICK a \in Int, b \in Positive : x = Reduced(a, b)
  BY FiniteTerms
<1>2. PICK c \in Positive, d \in Positive : y = Reduced(c, d)
  BY AmountTerms
<1>3. /\ b \in Int /\ c \in Int /\ c > 0 /\ d \in Int /\ 1 \in Int
      /\ 1 \in Positive /\ 1 * d \in Int /\ 1 * c \in Positive
  BY DEF Positive
<1>4. Over(One, y) = Reduced(1 * d, 1 * c)
  BY <1>2, <1>3, OnRatios, ZeroIs
<1>5. Times(x, Over(One, y)) = Reduced(a * (1 * d), b * (1 * c))
  BY <1>1, <1>3, <1>4, OnRatios
<1>6. Over(x, y) = Reduced(a * d, b * c)
  BY <1>1, <1>2, <1>3, OnRatios
<1>7. a * (1 * d) = a * d /\ b * (1 * c) = b * c
  BY <1>3
<1> QED BY <1>5, <1>6, <1>7

-----------------------------------------------------------------------------
(* Closure and order.                                                      *)

\* The finite doubles are closed under the operations.
LEMMA FiniteClosed ==
  ASSUME NEW x \in Finite, NEW y \in Finite
  PROVE  /\ Plus(x, y) \in Finite /\ Minus(x, y) \in Finite /\ Times(x, y) \in Finite
         /\ y \in Amounts => Over(x, y) \in Finite
<1>1. PICK a \in Int, b \in Positive : x = Reduced(a, b)
  BY FiniteTerms
<1>2. PICK c \in Int, d \in Positive : y = Reduced(c, d) /\ c = y[1] /\ d = y[2]
  BY FiniteTerms
<1>3. b \in Int /\ d \in Int /\ b * d \in Positive
  BY PositiveProduct DEF Positive
<1>4. a * d + c * b \in Int /\ a * d - c * b \in Int /\ a * c \in Int /\ a * d \in Int
  BY <1>3
<1>5. ASSUME y \in Amounts PROVE c > 0 /\ b * c \in Positive
  <2>1. c \in Positive
    BY <1>2, <1>5, AmountTerms
  <2> QED BY <2>1, PositiveProduct DEF Positive
<1>6. Plus(x, y) = Reduced(a * d + c * b, b * d) /\ Minus(x, y) = Reduced(a * d - c * b, b * d)
  BY <1>1, <1>2, OnRatios
<1>7. Times(x, y) = Reduced(a * c, b * d) /\ (c > 0 => Over(x, y) = Reduced(a * d, b * c))
  BY <1>1, <1>2, OnRatios
<1>8. Plus(x, y) \in Finite /\ Minus(x, y) \in Finite
  BY <1>3, <1>4, <1>6, ReducedIsFinite
<1>9. Times(x, y) \in Finite
  BY <1>3, <1>4, <1>7, ReducedIsFinite
<1>10. y \in Amounts => Over(x, y) \in Finite
  BY <1>4, <1>5, <1>7, ReducedIsFinite
<1> QED BY <1>8, <1>9, <1>10

\* NaN is not a finite double.
LEMMA NoNaN == NaN \notin Finite
BY DEF NaN, Finite

\* The order of doubles is that of their ratios.
LEMMA OrderOnRatios ==
  ASSUME NEW n \in Int, NEW d \in Positive, NEW m \in Int, NEW e \in Positive
  PROVE  AtMost(Reduced(n, d), Reduced(m, e)) <=> n * e <= m * d
<1>1. Less(Reduced(n, d), Reduced(m, e)) <=> n * e < m * d
  BY OnRatios
<1>2. Reduced(n, d) = Reduced(m, e) <=> n * e = m * d
  BY SameRatios
<1>3. Reduced(n, d) # NaN
  BY ReducedIsFinite, NoNaN
<1>4. n * e \in Int /\ m * d \in Int
  BY DEF Positive
<1> QED BY <1>1, <1>2, <1>3, <1>4 DEF AtMost

\* The order is total and antisymmetric.
LEMMA OrderIsTotal ==
  ASSUME NEW x \in Finite, NEW y \in Finite
  PROVE  /\ AtMost(x, y) <=> ~Less(y, x)
         /\ AtMost(x, x)
         /\ AtMost(x, y) /\ AtMost(y, x) => x = y
<1>1. PICK a \in Int, b \in Positive : x = Reduced(a, b)
  BY FiniteTerms
<1>2. PICK c \in Int, d \in Positive : y = Reduced(c, d)
  BY FiniteTerms
<1>3. PICK ad \in Int, cb \in Int : ad = a * d /\ cb = c * b
  BY DEF Positive
<1>4. /\ AtMost(x, y) <=> ad <= cb
      /\ AtMost(y, x) <=> cb <= ad
      /\ Less(y, x) <=> cb < ad
      /\ x = y <=> ad = cb
  BY <1>1, <1>2, <1>3, OnRatios, OrderOnRatios, SameRatios
<1>5. AtMost(x, x)
  BY NoNaN DEF AtMost
<1> QED BY <1>4, <1>5

\* The order is transitive.
LEMMA AtMostTransitive ==
  ASSUME NEW x \in Finite, NEW y \in Finite, NEW z \in Finite, AtMost(x, y), AtMost(y, z)
  PROVE  AtMost(x, z)
<1>1. PICK a \in Int, b \in Positive : x = Reduced(a, b)
  BY FiniteTerms
<1>2. PICK c \in Int, d \in Positive : y = Reduced(c, d)
  BY FiniteTerms
<1>3. PICK e \in Int, f \in Positive : z = Reduced(e, f)
  BY FiniteTerms
<1>4. b \in Int /\ b > 0 /\ d \in Int /\ d > 0 /\ f \in Int /\ f > 0
  BY DEF Positive
<1>5. a * d <= c * b /\ c * f <= e * d
  BY <1>1, <1>2, <1>3, OrderOnRatios
<1>6. (a * d) * f <= (c * b) * f /\ (c * f) * b <= (e * d) * b
  BY <1>4, <1>5, ScaledOrder
<1>7. (a * f) * d <= (e * b) * d
  <2>1. (a * f) * d = (a * d) * f /\ (c * b) * f = (c * f) * b /\ (e * b) * d = (e * d) * b
    BY <1>4
  <2>2. (a * d) * f \in Int /\ (c * b) * f \in Int /\ (e * d) * b \in Int
    BY <1>4
  <2> QED BY <1>6, <2>1, <2>2
<1>8. a * f <= e * b
  <2>1. a * f - e * b \in Int
    BY <1>4
  <2>2. (a * f - e * b) * d <= 0
    BY <1>4, <1>7
  <2>3. a * f - e * b <= 0
    BY <1>4, <2>1, <2>2, SignOfProduct DEF Positive
  <2> QED BY <1>4, <2>3
<1> QED BY <1>1, <1>3, <1>8, OrderOnRatios

\* Addition keeps the order.
LEMMA PlusMonotone ==
  ASSUME NEW x \in Finite, NEW y \in Finite, NEW z \in Finite, AtMost(x, y)
  PROVE  AtMost(Plus(z, x), Plus(z, y))
<1>1. PICK a \in Int, b \in Positive : x = Reduced(a, b)
  BY FiniteTerms
<1>2. PICK c \in Int, d \in Positive : y = Reduced(c, d)
  BY FiniteTerms
<1>3. PICK e \in Int, f \in Positive : z = Reduced(e, f)
  BY FiniteTerms
<1>4. b \in Int /\ b > 0 /\ d \in Int /\ d > 0 /\ f \in Int /\ f > 0
  BY DEF Positive
<1>5. a * d <= c * b
  BY <1>1, <1>2, OrderOnRatios
<1>6. /\ Plus(z, x) = Reduced(e * b + a * f, f * b) /\ Plus(z, y) = Reduced(e * d + c * f, f * d)
      /\ e * b + a * f \in Int /\ f * b \in Positive
      /\ e * d + c * f \in Int /\ f * d \in Positive
  <2>1. Plus(z, x) = Reduced(e * b + a * f, f * b)
    BY <1>1, <1>3, OnRatios
  <2>2. Plus(z, y) = Reduced(e * d + c * f, f * d)
    BY <1>2, <1>3, OnRatios
  <2>3. e * b + a * f \in Int /\ e * d + c * f \in Int
    BY <1>4
  <2> QED BY <2>1, <2>2, <2>3, PositiveProduct
<1>7. (e * b + a * f) * (f * d) <= (e * d + c * f) * (f * b)
  <2>1. (e * b + a * f) * (f * d) = e * b * f * d + (a * d) * (f * f)
    BY <1>4
  <2>2. (e * d + c * f) * (f * b) = e * b * f * d + (c * b) * (f * f)
    BY <1>4
  <2>3. f * f \in Int /\ f * f >= 0
    BY <1>4
  <2>4. (a * d) * (f * f) <= (c * b) * (f * f)
    BY <1>4, <1>5, <2>3, ScaledOrder
  <2>5. PICK r \in Int, s \in Int, t \in Int : r = e * b * f * d /\ s = (a * d) * (f * f) /\ t = (c * b) * (f * f)
    BY <1>4
  <2> QED BY <2>1, <2>2, <2>4, <2>5
<1> QED BY <1>6, <1>7, OrderOnRatios

\* A factor keeps the order or, when it is negative, reverses it.
LEMMA TimesMonotone ==
  ASSUME NEW x \in Finite, NEW y \in Finite, NEW z \in Finite, AtMost(x, y)
  PROVE  /\ AtMost(Zero, z) => AtMost(Times(x, z), Times(y, z))
         /\ AtMost(z, Zero) => AtMost(Times(y, z), Times(x, z))
<1>1. PICK a \in Int, b \in Positive : x = Reduced(a, b)
  BY FiniteTerms
<1>2. PICK c \in Int, d \in Positive : y = Reduced(c, d)
  BY FiniteTerms
<1>3. PICK e \in Int, f \in Positive : z = Reduced(e, f)
  BY FiniteTerms
<1>4. b \in Int /\ b > 0 /\ d \in Int /\ d > 0 /\ f \in Int /\ f > 0
  BY DEF Positive
<1>5. a * d <= c * b
  BY <1>1, <1>2, OrderOnRatios
<1>6. /\ Times(x, z) = Reduced(a * e, b * f) /\ Times(y, z) = Reduced(c * e, d * f)
      /\ a * e \in Int /\ b * f \in Positive /\ c * e \in Int /\ d * f \in Positive
  <2>1. Times(x, z) = Reduced(a * e, b * f)
    BY <1>1, <1>3, OnRatios
  <2>2. Times(y, z) = Reduced(c * e, d * f)
    BY <1>2, <1>3, OnRatios
  <2>3. a * e \in Int /\ c * e \in Int
    OBVIOUS
  <2> QED BY <2>1, <2>2, <2>3, PositiveProduct
<1>7. /\ (a * e) * (d * f) = (a * d) * (e * f)
      /\ (c * e) * (b * f) = (c * b) * (e * f)
  BY <1>4
<1>8. (AtMost(Zero, z) => e >= 0) /\ (AtMost(z, Zero) => e <= 0)
  <2>1. /\ AtMost(Zero, z) <=> 0 * f <= e * 1
        /\ AtMost(z, Zero) <=> e * 1 <= 0 * f
    BY <1>3, ZeroIs, OrderOnRatios
  <2> QED BY <1>4, <2>1
<1>9. e >= 0 => (a * e) * (d * f) <= (c * e) * (b * f)
  <2>1. e >= 0 => e * f >= 0 /\ e * f \in Int
    BY <1>4
  <2> QED BY <1>4, <1>5, <1>7, <2>1, ScaledOrder
<1>10. e <= 0 => (c * e) * (b * f) <= (a * e) * (d * f)
  <2>1. e <= 0 => (-e) * f >= 0 /\ (-e) * f \in Int
    BY <1>4
  <2>2. e <= 0 => (a * d) * ((-e) * f) <= (c * b) * ((-e) * f)
    BY <1>4, <1>5, <2>1, ScaledOrder
  <2>3. /\ (a * d) * ((-e) * f) = -((a * d) * (e * f))
        /\ (c * b) * ((-e) * f) = -((c * b) * (e * f))
        /\ (a * d) * (e * f) \in Int /\ (c * b) * (e * f) \in Int
    BY <1>4
  <2> QED BY <1>7, <2>2, <2>3
<1> QED BY <1>6, <1>8, <1>9, <1>10, OrderOnRatios

\* Division by a larger amount brings a number nearer to zero.
LEMMA OverMonotone ==
  ASSUME NEW x \in Finite, NEW y \in Amounts, NEW z \in Amounts, AtMost(y, z)
  PROVE  /\ AtMost(Zero, x) => AtMost(Over(x, z), Over(x, y))
         /\ AtMost(x, Zero) => AtMost(Over(x, y), Over(x, z))
<1>1. PICK a \in Int, b \in Positive : x = Reduced(a, b)
  BY FiniteTerms
<1>2. PICK c \in Positive, d \in Positive : y = Reduced(c, d)
  BY AmountTerms
<1>3. PICK e \in Positive, f \in Positive : z = Reduced(e, f)
  BY AmountTerms
<1>4. /\ b \in Int /\ b > 0 /\ c \in Int /\ c > 0 /\ d \in Int /\ d > 0
      /\ e \in Int /\ e > 0 /\ f \in Int /\ f > 0
  BY DEF Positive
<1>5. c * f <= e * d
  BY <1>2, <1>3, <1>4, OrderOnRatios
<1>6. /\ Over(x, y) = Reduced(a * d, b * c) /\ Over(x, z) = Reduced(a * f, b * e)
      /\ a * d \in Int /\ b * c \in Positive /\ a * f \in Int /\ b * e \in Positive
  <2>1. Over(x, y) = Reduced(a * d, b * c)
    BY <1>1, <1>2, <1>4, OnRatios
  <2>2. Over(x, z) = Reduced(a * f, b * e)
    BY <1>1, <1>3, <1>4, OnRatios
  <2>3. a * d \in Int /\ a * f \in Int
    BY <1>4
  <2> QED BY <2>1, <2>2, <2>3, PositiveProduct
<1>7. /\ (a * f) * (b * c) = (c * f) * (a * b)
      /\ (a * d) * (b * e) = (e * d) * (a * b)
  BY <1>4
<1>8. (AtMost(Zero, x) => a >= 0) /\ (AtMost(x, Zero) => a <= 0)
  <2>1. /\ AtMost(Zero, x) <=> 0 * b <= a * 1
        /\ AtMost(x, Zero) <=> a * 1 <= 0 * b
    BY <1>1, ZeroIs, OrderOnRatios
  <2> QED BY <1>4, <2>1
<1>9. a >= 0 => (a * f) * (b * c) <= (a * d) * (b * e)
  <2>1. a >= 0 => a * b >= 0 /\ a * b \in Int
    BY <1>4
  <2> QED BY <1>4, <1>5, <1>7, <2>1, ScaledOrder
<1>10. a <= 0 => (a * d) * (b * e) <= (a * f) * (b * c)
  <2>1. a <= 0 => (-a) * b >= 0 /\ (-a) * b \in Int
    BY <1>4
  <2>2. a <= 0 => (c * f) * ((-a) * b) <= (e * d) * ((-a) * b)
    BY <1>4, <1>5, <2>1, ScaledOrder
  <2>3. /\ (c * f) * ((-a) * b) = -((c * f) * (a * b))
        /\ (e * d) * ((-a) * b) = -((e * d) * (a * b))
        /\ (c * f) * (a * b) \in Int /\ (e * d) * (a * b) \in Int
    BY <1>4
  <2> QED BY <1>7, <2>2, <2>3
<1> QED BY <1>6, <1>8, <1>9, <1>10, OrderOnRatios

\* The sign of a difference is the order of its terms.
LEMMA SignOfMinus ==
  ASSUME NEW x \in Finite, NEW y \in Finite
  PROVE  /\ AtMost(Zero, Minus(x, y)) <=> AtMost(y, x)
         /\ AtMost(Minus(x, y), Zero) <=> AtMost(x, y)
<1>1. PICK a \in Int, b \in Positive : x = Reduced(a, b)
  BY FiniteTerms
<1>2. PICK c \in Int, d \in Positive : y = Reduced(c, d)
  BY FiniteTerms
<1>3. PICK ad \in Int, cb \in Int, bd \in Positive : ad = a * d /\ cb = c * b /\ bd = b * d
  BY PositiveProduct DEF Positive
<1>4. Minus(x, y) = Reduced(ad - cb, bd)
  BY <1>1, <1>2, <1>3, OnRatios
<1>5. ad - cb \in Int /\ bd \in Int
  BY DEF Positive
<1>6. /\ AtMost(Zero, Minus(x, y)) <=> 0 * bd <= (ad - cb) * 1
      /\ AtMost(Minus(x, y), Zero) <=> (ad - cb) * 1 <= 0 * bd
  BY <1>4, <1>5, ZeroIs, OrderOnRatios
<1>7. /\ AtMost(y, x) <=> cb <= ad
      /\ AtMost(x, y) <=> ad <= cb
  BY <1>1, <1>2, <1>3, OrderOnRatios
<1> QED BY <1>5, <1>6, <1>7

\* A finite double is above zero when its numerator is.
LEMMA AmountIsPositive ==
  ASSUME NEW x \in Finite
  PROVE  x \in Amounts <=> Less(Zero, x)
<1>1. x[1] \in Int /\ x[2] \in Int
  BY DEF Finite
<1>2. Less(Zero, x) <=> x[1] > 0
  BY <1>1 DEF Less, Zero
<1> QED BY <1>1, <1>2 DEF Amounts, Finite

\* Sums, products and quotients of amounts are amounts.
LEMMA AmountsClosed ==
  ASSUME NEW x \in Amounts, NEW y \in Amounts
  PROVE  Times(x, y) \in Amounts /\ Over(x, y) \in Amounts /\ Plus(x, y) \in Amounts
BY AmountsAreFractions, PlusType, TimesType, OverType

\* Zero is neutral.
LEMMA ZeroPlus ==
  ASSUME NEW x \in Finite
  PROVE  /\ Plus(Zero, x) = x /\ Minus(x, Zero) = x
         /\ Zero \in Finite
<1>1. PICK a \in Int, b \in Positive : x = Reduced(a, b)
  BY FiniteTerms
<1>2. b \in Int
  BY DEF Positive
<1>3. /\ Plus(Zero, x) = Reduced(0 * b + a * 1, 1 * b)
      /\ Minus(x, Zero) = Reduced(a * 1 - 0 * b, b * 1)
  BY <1>1, ZeroIs, OnRatios
<1>4. 0 * b + a * 1 = a /\ 1 * b = b /\ a * 1 - 0 * b = a /\ b * 1 = b
  BY <1>2
<1>5. Zero \in Finite
  BY ZeroIs, ReducedIsFinite
<1> QED BY <1>1, <1>3, <1>4, <1>5

\* Less is transitive along with AtMost.
LEMMA LessTransitive ==
  ASSUME NEW x \in Finite, NEW y \in Finite, NEW z \in Finite
  PROVE  /\ AtMost(x, y) /\ Less(y, z) => Less(x, z)
         /\ Less(x, y) /\ AtMost(y, z) => Less(x, z)
<1>1. /\ Less(y, z) <=> ~AtMost(z, y)
      /\ Less(x, z) <=> ~AtMost(z, x)
      /\ Less(x, y) <=> ~AtMost(y, x)
  BY OrderIsTotal
<1>2. ASSUME AtMost(x, y), Less(y, z), AtMost(z, x) PROVE FALSE
  BY <1>1, <1>2, AtMostTransitive
<1>3. ASSUME Less(x, y), AtMost(y, z), AtMost(z, x) PROVE FALSE
  BY <1>1, <1>3, AtMostTransitive
<1> QED BY <1>1, <1>2, <1>3

\* A factor above zero can be divided out of a comparison.
LEMMA TimesCancels ==
  ASSUME NEW x \in Finite, NEW y \in Finite, NEW z \in Amounts
  PROVE  /\ Less(x, y) <=> Less(Times(x, z), Times(y, z))
         /\ AtMost(x, y) <=> AtMost(Times(x, z), Times(y, z))
<1>1. /\ z \in Finite /\ One \in Finite /\ One \in Amounts /\ Zero \in Finite
      /\ Over(One, z) \in Amounts /\ Over(One, z) \in Finite
      /\ Times(x, z) \in Finite /\ Times(y, z) \in Finite
  BY AmountTerms, AmountsClosed, ZeroIs, ZeroPlus, FiniteClosed
<1>2. AtMost(Zero, z) /\ AtMost(Zero, Over(One, z))
  BY <1>1, AmountIsPositive DEF AtMost
<1>3. ASSUME NEW u \in Finite PROVE Times(Times(u, z), Over(One, z)) = u
  <2>1. Times(u, z) = Times(z, u) /\ Times(u, z) \in Finite
    BY <1>1, TimesCommutes, FiniteClosed
  <2> QED BY <2>1, TimesInverse, TimesThenOver
<1>4. AtMost(x, y) => AtMost(Times(x, z), Times(y, z))
  BY <1>1, <1>2, TimesMonotone
<1>5. AtMost(Times(x, z), Times(y, z)) => AtMost(x, y)
  <2>1. AtMost(Times(x, z), Times(y, z)) =>
          AtMost(Times(Times(x, z), Over(One, z)), Times(Times(y, z), Over(One, z)))
    BY <1>1, <1>2, TimesMonotone
  <2> QED BY <1>3, <2>1
<1>6. AtMost(y, x) <=> AtMost(Times(y, z), Times(x, z))
  <2>1. AtMost(y, x) => AtMost(Times(y, z), Times(x, z))
    BY <1>1, <1>2, TimesMonotone
  <2>2. AtMost(Times(y, z), Times(x, z)) =>
          AtMost(Times(Times(y, z), Over(One, z)), Times(Times(x, z), Over(One, z)))
    BY <1>1, <1>2, TimesMonotone
  <2> QED BY <1>3, <2>1, <2>2
<1>7. /\ Less(x, y) <=> ~AtMost(y, x)
      /\ Less(Times(x, z), Times(y, z)) <=> ~AtMost(Times(y, z), Times(x, z))
  BY <1>1, OrderIsTotal
<1> QED BY <1>4, <1>5, <1>6, <1>7

\* A factor between zero and one, zero excluded, takes nothing beyond the amount.
LEMMA ScaledDown ==
  ASSUME NEW x \in Amounts, NEW f \in Finite, Less(Zero, f), AtMost(f, One)
  PROVE  Times(x, f) \in Amounts /\ AtMost(Times(x, f), x)
<1>1. /\ f \in Amounts /\ x \in Finite /\ One \in Finite
      /\ Times(x, f) = Times(f, x) /\ Times(One, x) = x
  BY AmountIsPositive, AmountTerms, ZeroIs, TimesCommutes, TimesOne
<1>2. AtMost(Times(f, x), Times(One, x))
  BY <1>1, TimesCancels
<1> QED BY <1>1, <1>2, AmountsClosed

-----------------------------------------------------------------------------
(* Whole doubles.                                                          *)

\* A whole number is a finite double.
LEMMA Whole ==
  ASSUME NEW n \in Int
  PROVE  /\ Double(n) = Reduced(n, 1) /\ Double(n) \in Finite
         /\ n > 0 => Double(n) \in Amounts
         /\ Double(0) = Zero
<1>1. gcd[<<Magnitude(n), 1>>] = 1
  <2>1. PICK m \in Nat, one \in Nat, none \in Nat : m = Magnitude(n) /\ one = 1 /\ none = 0
    BY MagnitudeType
  <2>2. m % one = none
    BY <2>1
  <2>3. gcd[<<m, one>>] = gcd[<<one, none>>]
    BY <2>1, <2>2, GcdRecursion
  <2>4. gcd[<<one, none>>] = one
    BY <2>1, GcdRecursion
  <2> QED BY <2>1, <2>3, <2>4
<1>2. Reduced(n, 1) = <<n, 1>>
  <2>1. n \div 1 = n /\ 1 \div 1 = 1
    OBVIOUS
  <2> QED BY <1>1, <2>1 DEF Reduced
<1>3. 1 \in Positive
  BY ZeroIs
<1>4. Double(n) = Reduced(n, 1) /\ Double(n) \in Finite
  BY <1>2, <1>3, ReducedIsFinite DEF Double
<1>5. n > 0 => Double(n) \in Amounts
  <2> SUFFICES ASSUME n > 0 PROVE <<n, 1>> \in Amounts
    BY DEF Double
  <2>1. <<n, 1>> \in Nat \X Nat
    OBVIOUS
  <2> QED BY <1>2, <2>1 DEF Amounts
<1> QED BY <1>4, <1>5 DEF Double, Zero

\* The arithmetic of whole numbers is that of integers.
LEMMA WholeSums ==
  ASSUME NEW m \in Int, NEW n \in Int
  PROVE  /\ Plus(Double(m), Double(n)) = Double(m + n)
         /\ Minus(Double(m), Double(n)) = Double(m - n)
         /\ Times(Double(m), Double(n)) = Double(m * n)
         /\ AtMost(Double(m), Double(n)) <=> m <= n
<1>1. /\ Double(m) = Reduced(m, 1) /\ Double(n) = Reduced(n, 1) /\ m + n \in Int /\ m - n \in Int
      /\ m * n \in Int /\ 1 \in Positive
  BY Whole, ZeroIs
<1>2. /\ Plus(Reduced(m, 1), Reduced(n, 1)) = Reduced(m + n, 1)
      /\ Minus(Reduced(m, 1), Reduced(n, 1)) = Reduced(m - n, 1)
      /\ Times(Reduced(m, 1), Reduced(n, 1)) = Reduced(m * n, 1)
      /\ AtMost(Reduced(m, 1), Reduced(n, 1)) <=> m <= n
  <2>1. PICK one \in Positive : one = 1
    BY <1>1
  <2>2. m * one = m /\ n * one = n /\ one * one = one
    BY <2>1
  <2>3. /\ Plus(Reduced(m, one), Reduced(n, one)) = Reduced(m * one + n * one, one * one)
        /\ Minus(Reduced(m, one), Reduced(n, one)) = Reduced(m * one - n * one, one * one)
        /\ Times(Reduced(m, one), Reduced(n, one)) = Reduced(m * n, one * one)
        /\ AtMost(Reduced(m, one), Reduced(n, one)) <=> m * one <= n * one
    BY OnRatios, OrderOnRatios
  <2> QED BY <2>1, <2>2, <2>3
<1>3. /\ Double(m + n) = Reduced(m + n, 1) /\ Double(m - n) = Reduced(m - n, 1)
      /\ Double(m * n) = Reduced(m * n, 1)
  BY <1>1, Whole
<1> QED BY <1>1, <1>2, <1>3

-----------------------------------------------------------------------------
(* Sums of doubles.                                                        *)

\* The sums of a series.
IsSum(S, n, F) == S[0] = Zero /\ \A k \in 1..n : S[k] = Plus(S[k - 1], F[k])

\* A fold of additions ends where the sums of its column end.
LEMMA FoldedSum ==
  ASSUME NEW column \in Seq(Finite)
  PROVE  \E sum \in [0..Len(column) -> Finite] :
           IsSum(sum, Len(column), column) /\ FoldLeft(Plus, Zero, column) = sum[Len(column)]
<1>1. PICK n \in Nat : n = Len(column) /\ DOMAIN column = 1..n /\ \A i \in 1..n : column[i] \in Finite
  OBVIOUS
<1> DEFINE step(iter, s) == IF s = {} THEN Zero ELSE Plus(iter[s \ {Max(s)}], column[Max(s)])
           it == CHOOSE iter : iter = [s \in SUBSET (DOMAIN column) |-> step(iter, s)]
           F == [p \in Finite \X (1..n) |-> Plus(p[1], column[p[2]])]
<1>2. FoldLeft(Plus, Zero, column) = it[DOMAIN column]
  BY DEF FoldLeft, MapThenFoldSet
<1>3. F \in [Finite \X (1..n) -> Finite] /\ Zero \in Finite
  BY <1>1, FiniteClosed, ZeroPlus, ZeroIs, AmountTerms
<1>4. \A s \in SUBSET (1..n) : it[s] = step(it, s)
  <2>1. PICK g \in [SUBSET (1..n) -> Finite] : IsFold(g, n, Zero, F)
    <3> HIDE DEF F, it, step
    <3> QED BY <1>3, FoldExists
  <2>2. ASSUME NEW s \in SUBSET (1..n) PROVE g[s] = step(g, s)
    <3>1. CASE s = {}
      BY <2>1, <3>1 DEF IsFold
    <3>2. CASE s # {}
      <4>1. Max(s) \in 1..n /\ s \ {Max(s)} \in SUBSET (1..n)
        BY <3>2, MaxOfInterval
      <4>2. g[s] = F[<<g[s \ {Max(s)}], Max(s)>>] /\ g[s \ {Max(s)}] \in Finite
        BY <2>1, <3>2, <4>1 DEF IsFold
      <4> QED BY <3>2, <4>1, <4>2
    <3> QED BY <3>1, <3>2
  <2>3. g = [s \in SUBSET (DOMAIN column) |-> step(g, s)]
    <3> HIDE DEF step
    <3> QED BY <1>1, <2>1, <2>2
  <2>4. it = [s \in SUBSET (DOMAIN column) |-> step(it, s)]
    <3> HIDE DEF step
    <3> QED BY <2>3
  <2> HIDE DEF step, it
  <2> QED BY <1>1, <2>4
<1> HIDE DEF it
<1>5. PICK sum \in [0..n -> Finite] : IsFoldRun(sum, n, Zero, F) /\ sum[n] = it[1..n]
  <2>1. it[{}] = Zero
    BY <1>4
  <2>2. ASSUME NEW s \in SUBSET (1..n), s # {}, it[s \ {Max(s)}] \in Finite
        PROVE  it[s] = F[<<it[s \ {Max(s)}], Max(s)>>]
    <3>1. Max(s) \in 1..n
      BY <2>2, MaxOfInterval
    <3> QED BY <1>4, <2>2, <3>1
  <2>3. \A s \in SUBSET (1..n) :
          s # {} /\ it[s \ {Max(s)}] \in Finite => it[s] = F[<<it[s \ {Max(s)}], Max(s)>>]
    <3> HIDE DEF F
    <3> QED BY <2>2
  <2> HIDE DEF F, step
  <2>4. FoldsIn(it, n, Finite, Zero, F)
    BY <1>1, <1>3, <2>1, <2>3 DEF FoldsIn
  <2>5. RunsIn(it, n, Finite, Zero, F)
    BY <2>4, FoldRuns
  <2> QED BY <2>5 DEF RunsIn
<1>6. ASSUME NEW k \in 1..n PROVE sum[k] = Plus(sum[k - 1], column[k])
  <2>1. k - 1 \in 0..n
    OBVIOUS
  <2>2. sum[k - 1] \in Finite
    BY <1>5, <2>1
  <2>3. sum[k] = F[<<sum[k - 1], k>>]
    <3> HIDE DEF F
    <3> QED BY <1>5 DEF IsFoldRun
  <2> QED BY <2>2, <2>3
<1>7. sum[0] = Zero
  BY <1>5 DEF IsFoldRun
<1> HIDE DEF F, step
<1>8. IsSum(sum, n, column)
  BY <1>6, <1>7 DEF IsSum
<1> QED BY <1>1, <1>2, <1>5, <1>8

\* The sums of whole numbers.
IsTotal(T, n, f) == T[0] = 0 /\ \A k \in 1..n : T[k] = T[k - 1] + f[k]

\* The same for whole numbers.
LEMMA FoldedTotal ==
  ASSUME NEW column \in Seq(Int)
  PROVE  \E sum \in [0..Len(column) -> Int] :
           IsTotal(sum, Len(column), column) /\ FoldLeft(+, 0, column) = sum[Len(column)]
<1>1. PICK n \in Nat : n = Len(column) /\ DOMAIN column = 1..n /\ \A i \in 1..n : column[i] \in Int
  OBVIOUS
<1> DEFINE step(iter, s) == IF s = {} THEN 0 ELSE iter[s \ {Max(s)}] + column[Max(s)]
           it == CHOOSE iter : iter = [s \in SUBSET (DOMAIN column) |-> step(iter, s)]
           F == [p \in Int \X (1..n) |-> p[1] + column[p[2]]]
<1>2. FoldLeft(+, 0, column) = it[DOMAIN column]
  BY DEF FoldLeft, MapThenFoldSet
<1>3. F \in [Int \X (1..n) -> Int] /\ 0 \in Int
  BY <1>1
<1>4. \A s \in SUBSET (1..n) : it[s] = step(it, s)
  <2>1. PICK g \in [SUBSET (1..n) -> Int] : IsFold(g, n, 0, F)
    <3> HIDE DEF F, it, step
    <3> QED BY <1>3, FoldExists
  <2>2. ASSUME NEW s \in SUBSET (1..n) PROVE g[s] = step(g, s)
    <3>1. CASE s = {}
      BY <2>1, <3>1 DEF IsFold
    <3>2. CASE s # {}
      <4>1. Max(s) \in 1..n /\ s \ {Max(s)} \in SUBSET (1..n)
        BY <3>2, MaxOfInterval
      <4>2. g[s] = F[<<g[s \ {Max(s)}], Max(s)>>] /\ g[s \ {Max(s)}] \in Int
        BY <2>1, <3>2, <4>1 DEF IsFold
      <4> QED BY <3>2, <4>1, <4>2
    <3> QED BY <3>1, <3>2
  <2>3. g = [s \in SUBSET (DOMAIN column) |-> step(g, s)]
    <3> HIDE DEF step
    <3> QED BY <1>1, <2>1, <2>2
  <2>4. it = [s \in SUBSET (DOMAIN column) |-> step(it, s)]
    <3> HIDE DEF step
    <3> QED BY <2>3
  <2> HIDE DEF step, it
  <2> QED BY <1>1, <2>4
<1> HIDE DEF it
<1>5. PICK sum \in [0..n -> Int] : IsFoldRun(sum, n, 0, F) /\ sum[n] = it[1..n]
  <2>1. it[{}] = 0
    BY <1>4
  <2>2. ASSUME NEW s \in SUBSET (1..n), s # {}, it[s \ {Max(s)}] \in Int
        PROVE  it[s] = F[<<it[s \ {Max(s)}], Max(s)>>]
    <3>1. Max(s) \in 1..n
      BY <2>2, MaxOfInterval
    <3> QED BY <1>4, <2>2, <3>1
  <2>3. \A s \in SUBSET (1..n) :
          s # {} /\ it[s \ {Max(s)}] \in Int => it[s] = F[<<it[s \ {Max(s)}], Max(s)>>]
    <3> HIDE DEF F
    <3> QED BY <2>2
  <2> HIDE DEF F, step
  <2>4. FoldsIn(it, n, Int, 0, F)
    BY <1>1, <1>3, <2>1, <2>3 DEF FoldsIn
  <2>5. RunsIn(it, n, Int, 0, F)
    BY <2>4, FoldRuns
  <2> QED BY <2>5 DEF RunsIn
<1>6. ASSUME NEW k \in 1..n PROVE sum[k] = sum[k - 1] + column[k]
  <2>1. k - 1 \in 0..n
    OBVIOUS
  <2>2. sum[k - 1] \in Int
    BY <1>5, <2>1
  <2>3. sum[k] = F[<<sum[k - 1], k>>]
    <3> HIDE DEF F
    <3> QED BY <1>5 DEF IsFoldRun
  <2> QED BY <2>2, <2>3
<1>7. sum[0] = 0
  BY <1>5 DEF IsFoldRun
<1> HIDE DEF F, step
<1>8. IsTotal(sum, n, column)
  BY <1>6, <1>7 DEF IsTotal
<1> QED BY <1>1, <1>2, <1>5, <1>8

\* The first m sums of a longer series are the sums of its first m terms.
LEMMA SumsAgree ==
  ASSUME NEW n \in Nat, NEW m \in 0..n, NEW S, NEW T, NEW F, NEW G,
         IsSum(S, n, F), IsSum(T, m, G), \A i \in 1..m : G[i] = F[i]
  PROVE  T[m] = S[m]
<1> DEFINE Bad == {k \in 0..m : T[k] # S[k]}
<1>1. Bad = {}
  <2> SUFFICES ASSUME Bad # {} PROVE FALSE
    OBVIOUS
  <2>1. PICK k \in Bad : \A l \in Bad : k <= l
    <3>1. Bad \subseteq Nat
      OBVIOUS
    <3> HIDE DEF Bad
    <3> QED BY <3>1, LeastNat
  <2>2. k # 0
    BY <2>1 DEF IsSum
  <2>3. k \in 1..m /\ k \in 1..n /\ k - 1 \in 0..m /\ k - 1 \notin Bad
    BY <2>1, <2>2
  <2>4. T[k - 1] = S[k - 1]
    BY <2>3
  <2>5. T[k] = Plus(T[k - 1], G[k]) /\ S[k] = Plus(S[k - 1], F[k]) /\ G[k] = F[k]
    BY <2>3 DEF IsSum
  <2> QED BY <2>1, <2>4, <2>5
<1> QED BY <1>1

\* A product with zero is zero.
LEMMA TimesZero ==
  ASSUME NEW x \in Finite
  PROVE  Times(x, Zero) = Zero
<1>1. PICK t \in Finite : t = Times(x, Zero)
  BY FiniteClosed, ZeroPlus
<1>2. Plus(Zero, Zero) = Zero /\ Zero \in Finite
  BY ZeroPlus
<1>3. t = Plus(t, t)
  BY <1>1, <1>2, TimesDistributes
<1>4. Minus(Plus(t, t), t) = t /\ Minus(t, t) = Zero
  BY PlusThenMinus, MinusItself
<1> QED BY <1>1, <1>3, <1>4

\* Of two additions, the one with the higher terms is the higher.
LEMMA PlusStrict ==
  ASSUME NEW x \in Finite, NEW y \in Finite, NEW z \in Finite, NEW w \in Finite,
         AtMost(x, y), Less(z, w)
  PROVE  Less(Plus(x, z), Plus(y, w))
<1>1. PICK xz \in Finite, yz \in Finite, yw \in Finite, zx \in Finite :
        xz = Plus(x, z) /\ yz = Plus(y, z) /\ yw = Plus(y, w) /\ zx = Plus(z, x)
  BY FiniteClosed
<1>2. AtMost(xz, yz)
  <2>1. AtMost(Plus(z, x), Plus(z, y)) /\ Plus(z, x) = Plus(x, z) /\ Plus(z, y) = Plus(y, z)
    BY PlusMonotone, PlusCommutes
  <2> QED BY <1>1, <2>1
<1>3. Less(yz, yw)
  <2> SUFFICES ASSUME AtMost(yw, yz) PROVE FALSE
    BY <1>1, OrderIsTotal
  <2>1. PICK n \in Finite : n = Minus(Zero, y)
    BY FiniteClosed, ZeroPlus
  <2>2. Plus(n, y) = Zero
    BY <2>1, MinusThenPlus, PlusCommutes, ZeroPlus
  <2>3. Plus(n, Plus(y, w)) = w /\ Plus(n, Plus(y, z)) = z
    <3>1. Plus(Plus(n, y), w) = Plus(n, Plus(y, w)) /\ Plus(Plus(n, y), z) = Plus(n, Plus(y, z))
      BY <2>1, PlusAssociates
    <3> QED BY <2>2, <3>1, ZeroPlus
  <2>4. AtMost(Plus(n, yw), Plus(n, yz))
    BY <1>1, <2>1, PlusMonotone
  <2> QED BY <1>1, <2>3, <2>4, OrderIsTotal
<1> QED BY <1>1, <1>2, <1>3, LessTransitive

\* S and T add up n columns F and G of finite doubles.
AreSums(n, S, F, T, G) ==
  /\ n \in Nat /\ S \in [0..n -> Finite] /\ T \in [0..n -> Finite]
  /\ IsSum(S, n, F) /\ IsSum(T, n, G) /\ \A i \in 1..n : F[i] \in Finite /\ G[i] \in Finite

\* If every term of one sum is below that of another, so is the sum.
LEMMA SumsInOrder ==
  ASSUME NEW n, NEW S, NEW F, NEW T, NEW G, AreSums(n, S, F, T, G),
         \A i \in 1..n : Less(F[i], G[i]), n # 0
  PROVE  Less(S[n], T[n])
<1>1. /\ n \in Nat /\ S \in [0..n -> Finite] /\ T \in [0..n -> Finite]
      /\ IsSum(S, n, F) /\ IsSum(T, n, G) /\ \A i \in 1..n : F[i] \in Finite /\ G[i] \in Finite
  BY DEF AreSums
<1>2. ASSUME NEW k \in 1..n, AtMost(S[k - 1], T[k - 1]) PROVE Less(S[k], T[k])
  <2>1. k - 1 \in 0..n /\ S[k - 1] \in Finite /\ T[k - 1] \in Finite
    BY <1>1
  <2>2. Less(Plus(S[k - 1], F[k]), Plus(T[k - 1], G[k]))
    BY <1>1, <1>2, <2>1, PlusStrict
  <2> QED BY <1>1, <2>2 DEF IsSum
<1> DEFINE Bad == {k \in 1..n : ~Less(S[k], T[k])}
<1>3. Bad = {}
  <2> SUFFICES ASSUME Bad # {} PROVE FALSE
    OBVIOUS
  <2>1. PICK k \in Bad : \A l \in Bad : k <= l
    <3>1. Bad \subseteq Nat
      BY <1>1
    <3> HIDE DEF Bad
    <3> QED BY <3>1, LeastNat
  <2>2. AtMost(S[k - 1], T[k - 1])
    <3>1. CASE k = 1
      <4>1. S[k - 1] = Zero /\ T[k - 1] = Zero
        BY <1>1, <3>1 DEF IsSum
      <4>2. AtMost(Zero, Zero)
        <5>1. Zero \in Finite
          BY <1>1 DEF IsSum
        <5> QED BY <5>1, OrderIsTotal
      <4> QED BY <4>1, <4>2
    <3>2. CASE k # 1
      <4>1. k - 1 \in 1..n /\ k - 1 \notin Bad /\ k - 1 \in 0..n
        BY <1>1, <2>1, <3>2
      <4> QED BY <1>1, <4>1 DEF AtMost
    <3> QED BY <3>1, <3>2
  <2> QED BY <1>2, <2>1, <2>2
<1>4. n \in 1..n
  BY <1>1
<1> QED BY <1>3, <1>4

\* The multiples of the terms F add up to x.
ScaledTo(q, n, F, x) ==
  \E T, G : /\ T \in [0..n -> Finite] /\ IsSum(T, n, G) /\ T[n] = x
            /\ \A i \in 1..n : G[i] = Times(q, F[i])

\* A multiple of a sum is the sum of the multiples.
LEMMA ScaledSum ==
  ASSUME NEW n \in Nat, NEW S \in [0..n -> Finite], NEW F, IsSum(S, n, F),
         \A i \in 1..n : F[i] \in Finite, NEW q \in Finite
  PROVE  ScaledTo(q, n, F, Times(q, S[n]))
<1> DEFINE T == [k \in 0..n |-> Times(q, S[k])]
           G == [i \in 1..n |-> Times(q, F[i])]
<1>1. T \in [0..n -> Finite] /\ n \in 0..n
  BY FiniteClosed
<1>2. T[0] = Zero
  <2>1. 0 \in 0..n /\ S[0] = Zero
    BY DEF IsSum
  <2> QED BY <2>1, TimesZero
<1>3. ASSUME NEW k \in 1..n PROVE T[k] = Plus(T[k - 1], G[k])
  <2>1. k - 1 \in 0..n /\ k \in 0..n /\ S[k - 1] \in Finite /\ F[k] \in Finite
    OBVIOUS
  <2>2. S[k] = Plus(S[k - 1], F[k])
    BY DEF IsSum
  <2> QED BY <2>1, <2>2, TimesDistributes
<1>4. IsSum(T, n, G)
  BY <1>2, <1>3 DEF IsSum
<1>5. T[n] = Times(q, S[n]) /\ \A i \in 1..n : G[i] = Times(q, F[i])
  BY <1>1
<1> HIDE DEF T, G
<1> QED BY <1>1, <1>4, <1>5 DEF ScaledTo

\* Amounts add up to an amount.
LEMMA SumOfAmounts ==
  ASSUME NEW n \in Nat, n # 0, NEW S \in [0..n -> Finite], NEW F, IsSum(S, n, F),
         \A i \in 1..n : F[i] \in Amounts
  PROVE  S[n] \in Amounts
<1> DEFINE Bad == {k \in 1..n : S[k] \notin Amounts}
<1>1. Bad = {}
  <2> SUFFICES ASSUME Bad # {} PROVE FALSE
    OBVIOUS
  <2>1. PICK k \in Bad : \A l \in Bad : k <= l
    <3>1. Bad \subseteq Nat
      OBVIOUS
    <3> HIDE DEF Bad
    <3> QED BY <3>1, LeastNat
  <2>2. S[k] = Plus(S[k - 1], F[k]) /\ F[k] \in Amounts /\ F[k] \in Finite
    BY <2>1, AmountTerms DEF IsSum
  <2>3. CASE k = 1
    <3>1. S[k - 1] = Zero
      BY <2>3 DEF IsSum
    <3> QED BY <2>1, <2>2, <3>1, ZeroPlus
  <2>4. CASE k # 1
    <3>1. k - 1 \in 1..n /\ k - 1 \notin Bad
      BY <2>1, <2>4
    <3> QED BY <2>1, <2>2, <3>1, AmountsClosed
  <2> QED BY <2>3, <2>4
<1>2. n \in 1..n
  OBVIOUS
<1> QED BY <1>1, <1>2

-----------------------------------------------------------------------------
(* Sets of numbers in order.                                               *)

\* g lists the elements of S, lower ones first.
Lists(g, n, S) ==
  /\ n \in Nat /\ g \in [1..n -> S]
  /\ \A i, j \in 1..n : i < j => g[i] < g[j]
  /\ \A x \in S : \E i \in 1..n : g[i] = x

Below(S, x) == {y \in S : y < x}

\* Each element has fewer elements below it than any higher one.
LEMMA RanksDiffer ==
  ASSUME NEW S, S \subseteq Nat, IsFiniteSet(S), NEW x \in S
  PROVE  /\ Cardinality(Below(S, x)) \in 0..(Cardinality(S) - 1)
         /\ \A z \in S : x < z => Cardinality(Below(S, x)) < Cardinality(Below(S, z))
<1>1. /\ Below(S, x) \in SUBSET S /\ IsFiniteSet(Below(S, x)) /\ x \notin Below(S, x)
      /\ Cardinality(Below(S, x)) \in Nat /\ Cardinality(S) \in Nat
  <2>1. Below(S, x) \in SUBSET S /\ x \notin Below(S, x)
    BY DEF Below
  <2>2. IsFiniteSet(Below(S, x))
    BY <2>1, FS_Subset
  <2> QED BY <2>1, <2>2, FS_CardinalityType
<1>2. ASSUME NEW T, IsFiniteSet(T), Below(S, x) \cup {x} \in SUBSET T
      PROVE  Cardinality(Below(S, x)) + 1 <= Cardinality(T)
  <2>1. Cardinality(Below(S, x) \cup {x}) = Cardinality(Below(S, x)) + 1
    BY <1>1, FS_AddElement
  <2>2. Cardinality(Below(S, x) \cup {x}) <= Cardinality(T)
    BY <1>2, FS_Subset
  <2> QED BY <2>1, <2>2
<1>3. Cardinality(Below(S, x)) + 1 <= Cardinality(S)
  <2>1. Below(S, x) \cup {x} \in SUBSET S
    BY <1>1
  <2> QED BY <1>2, <2>1
<1>4. ASSUME NEW z \in S, x < z
      PROVE  Cardinality(Below(S, x)) < Cardinality(Below(S, z))
  <2>1. Below(S, x) \cup {x} \in SUBSET Below(S, z) /\ Below(S, z) \in SUBSET S
    <3>1. \A y \in S : y \in Int
      OBVIOUS
    <3>2. x \in Below(S, z)
      BY <1>4 DEF Below
    <3>3. ASSUME NEW y \in Below(S, x) PROVE y \in Below(S, z)
      <4>1. y \in S /\ y < x /\ y \in Int /\ x \in Int /\ z \in Int
        BY <3>1 DEF Below
      <4>2. y < z
        BY <1>4, <4>1
      <4> QED BY <4>1, <4>2 DEF Below
    <3>4. Below(S, z) \in SUBSET S
      BY DEF Below
    <3> QED BY <3>2, <3>3, <3>4
  <2>2. IsFiniteSet(Below(S, z))
    BY <2>1, FS_Subset
  <2>3. Cardinality(Below(S, z)) \in Nat
    BY <2>2, FS_CardinalityType
  <2>4. Cardinality(Below(S, x)) + 1 <= Cardinality(Below(S, z))
    BY <1>2, <2>1, <2>2
  <2> QED BY <1>1, <2>3, <2>4
<1> QED BY <1>1, <1>3, <1>4

\* Ascending lists a finite set of numbers in order.
LEMMA AscendingLists ==
  ASSUME NEW S, S \subseteq Nat, IsFiniteSet(S)
  PROVE  Lists(Ascending(S), Cardinality(S), S)
<1> DEFINE n == Cardinality(S)
           rank == [x \in S |-> Cardinality(Below(S, x)) + 1]
           g == Ascending(S)
<1>1. n \in Nat
  BY FS_CardinalityType
<1>2. \A x, z \in S : rank[x] \in 1..n /\ (x < z => rank[x] < rank[z])
  <2>1. ASSUME NEW x \in S, NEW z \in S PROVE rank[x] \in 1..n /\ (x < z => rank[x] < rank[z])
    <3>1. /\ Cardinality(Below(S, x)) \in 0..(n - 1) /\ Cardinality(Below(S, z)) \in 0..(n - 1)
          /\ x < z => Cardinality(Below(S, x)) < Cardinality(Below(S, z))
      BY RanksDiffer
    <3> QED BY <1>1, <3>1
  <2> QED BY <2>1
<1>3. \A x \in S : rank[x] = Cardinality({y \in S : y < x}) + 1 /\ Cardinality({y \in S : y < x}) \in Int
  <2>1. ASSUME NEW x \in S
        PROVE  rank[x] = Cardinality({y \in S : y < x}) + 1 /\ Cardinality({y \in S : y < x}) \in Int
    <3>1. Cardinality(Below(S, x)) \in 0..(n - 1)
      BY RanksDiffer
    <3> QED BY <1>1, <3>1 DEF Below
  <2> QED BY <2>1
<1>4. rank \in Surjection(S, 1..n)
  <2>1. rank \in [S -> 1..n]
    <3>1. \A x \in S : rank[x] \in 1..n
      BY <1>2
    <3> QED BY <3>1
  <2>2. \A x, z \in S : rank[x] = rank[z] => x = z
    <3>1. \A x, z \in S : rank[x] \in Int /\ x \in Int /\ (x < z => rank[x] < rank[z])
      BY <1>2
    <3> HIDE DEF rank
    <3>2. ASSUME NEW x \in S, NEW z \in S, rank[x] = rank[z] PROVE x = z
      <4>1. ~(x < z) /\ ~(z < x)
        BY <3>1, <3>2
      <4> QED BY <3>1, <4>1
    <3> QED BY <3>2
  <2>3. rank \in Injection(S, 1..n)
    <3> HIDE DEF rank
    <3> QED BY <2>1, <2>2 DEF Injection, IsInjective
  <2>4. IsFiniteSet(1..n) /\ Cardinality(1..n) = n
    BY <1>1, FS_Interval
  <2> HIDE DEF rank
  <2> QED BY <2>3, <2>4, FS_Injection
<1>5. ASSUME NEW k \in 1..n PROVE g[k] \in S /\ rank[g[k]] = k
  <2>1. PICK x \in S : rank[x] = k
    BY <1>4 DEF Surjection
  <2>2. Cardinality({y \in S : y < x}) = k - 1
    BY <1>3, <2>1
  <2>3. g[k] = CHOOSE z \in S : Cardinality({y \in S : y < z}) = k - 1
    BY DEF Ascending
  <2>4. g[k] \in S /\ Cardinality({y \in S : y < g[k]}) = k - 1
    BY <2>2, <2>3
  <2> HIDE DEF rank, g
  <2>5. PICK x1 \in S : x1 = g[k]
    BY <2>4
  <2>6. rank[x1] = Cardinality({y \in S : y < x1}) + 1 /\ Cardinality({y \in S : y < x1}) = k - 1
    BY <1>3, <2>4, <2>5
  <2>7. k \in Int
    BY <1>1
  <2> QED BY <2>5, <2>6, <2>7
<1>6. g \in [1..n -> S]
  <2>1. PICK h : /\ h = g
                 /\ h = [k \in 1..n |-> CHOOSE z \in S : Cardinality({y \in S : y < z}) = k - 1]
    BY DEF Ascending
  <2>2. \A k \in 1..n : h[k] \in S
    BY <1>5, <2>1
  <2> HIDE DEF g, rank
  <2> QED BY <2>1, <2>2
<1>0. \A x \in S : x \in Int
  OBVIOUS
<1> HIDE DEF g, rank, n
<1>7. ASSUME NEW i \in 1..n, NEW j \in 1..n, i < j PROVE g[i] < g[j]
  <2>1. g[i] \in S /\ g[j] \in S /\ g[i] \in Int /\ g[j] \in Int /\ rank[g[i]] = i /\ rank[g[j]] = j
    BY <1>0, <1>5
  <2>2. ~(g[j] < g[i]) /\ g[i] # g[j]
    BY <1>2, <1>7, <2>1
  <2> QED BY <2>1, <2>2
<1>8. ASSUME NEW x \in S PROVE \E i \in 1..n : g[i] = x
  <2>1. rank[x] \in 1..n
    BY <1>2
  <2>2. g[rank[x]] \in S /\ rank[g[rank[x]]] = rank[x] /\ g[rank[x]] \in Int /\ x \in Int
    BY <1>0, <1>5, <2>1
  <2>3. ~(g[rank[x]] < x) /\ ~(x < g[rank[x]])
    BY <1>2, <2>1, <2>2
  <2>4. g[rank[x]] = x
    BY <2>2, <2>3
  <2> QED BY <2>1, <2>4
<1>9. Lists(g, n, S)
  BY <1>1, <1>6, <1>7, <1>8 DEF Lists
<1> QED BY <1>9 DEF g, n

\* Nothing else lists the set.
LEMMA OneList ==
  ASSUME NEW n, NEW S, S \subseteq Nat, NEW g, Lists(g, n, S)
  PROVE  /\ IsFiniteSet(S) /\ Cardinality(S) = n /\ Ascending(S) = g
<1>1. n \in Nat /\ g \in [1..n -> S]
  BY DEF Lists
<1>0. \A x \in S : x \in Nat
  OBVIOUS
<1>2. IsFiniteSet(S) /\ Cardinality(S) = n
  <2>1. g \in Surjection(1..n, S)
    BY DEF Lists, Surjection
  <2>2. g \in Injection(1..n, S)
    <3>1. ASSUME NEW i \in 1..n, NEW j \in 1..n, g[i] = g[j] PROVE i = j
      <4>1. g[i] \in Nat /\ i \in Int /\ j \in Int
        <5>1. g[i] \in S
          BY <1>1
        <5>2. i \in Int /\ j \in Int
          BY <1>1
        <5> QED BY <1>0, <5>1, <5>2
      <4>2. ~(i < j) /\ ~(j < i)
        BY <3>1, <4>1 DEF Lists
      <4> QED BY <4>1, <4>2
    <3> QED BY <1>1, <3>1 DEF Injection, IsInjective
  <2>3. IsFiniteSet(1..n) /\ Cardinality(1..n) = n
    BY <1>1, FS_Interval
  <2> QED BY <2>1, <2>2, <2>3, FS_Surjection
<1>3. PICK a : a = Ascending(S) /\ Lists(a, n, S)
  BY <1>2, AscendingLists
<1> DEFINE Bad == {k \in 1..n : a[k] # g[k]}
<1>4. ASSUME Bad # {} PROVE FALSE
  <2>1. PICK k \in Bad : \A l \in Bad : k <= l
    <3>1. Bad \subseteq Nat
      OBVIOUS
    <3> HIDE DEF Bad
    <3> QED BY <1>4, <3>1, LeastNat
  <2>2. /\ k \in 1..n /\ k \in Nat /\ a[k] # g[k] /\ a[k] \in S /\ g[k] \in S
        /\ a[k] \in Nat /\ g[k] \in Nat
    <3>1. a[k] \in S /\ g[k] \in S /\ k \in 1..n /\ a[k] # g[k]
      BY <2>1, <1>1, <1>3 DEF Lists
    <3>2. a[k] \in Nat /\ g[k] \in Nat
      BY <1>0, <3>1
    <3>3. k \in Nat
      BY <1>1, <3>1
    <3> QED BY <3>1, <3>2, <3>3
  <2>3. \A l \in 1..n : l < k => a[l] = g[l]
    BY <2>1
  <2>4. PICK i \in 1..n : a[i] = g[k]
    BY <2>2, <1>3 DEF Lists
  <2>5. PICK j \in 1..n : g[j] = a[k]
    BY <2>2 DEF Lists
  <2>6. i > k
    <3>1. i # k
      BY <2>2, <2>4
    <3>2. ASSUME i < k PROVE FALSE
      <4>1. a[i] = g[i] /\ g[i] < g[k]
        BY <2>2, <2>3, <3>2 DEF Lists
      <4> QED BY <2>2, <2>4, <4>1
    <3> QED BY <2>2, <3>1, <3>2
  <2>7. j > k
    <3>1. j # k
      BY <2>2, <2>5
    <3>2. ASSUME j < k PROVE FALSE
      <4>1. a[j] = g[j] /\ a[j] < a[k]
        BY <1>3, <2>2, <2>3, <3>2 DEF Lists
      <4> QED BY <2>2, <2>5, <4>1
    <3> QED BY <2>2, <3>1, <3>2
  <2>8. a[k] < a[i] /\ g[k] < g[j]
    BY <1>3, <2>2, <2>6, <2>7 DEF Lists
  <2> QED BY <2>2, <2>4, <2>5, <2>8
<1>5. a = g
  <2>1. \A k \in 1..n : a[k] = g[k]
    BY <1>4
  <2>2. a \in [1..n -> S]
    BY <1>3 DEF Lists
  <2> QED BY <1>1, <2>1, <2>2
<1> QED BY <1>2, <1>3, <1>5

-----------------------------------------------------------------------------
(* Subsequences.                                                           *)

Through(s, g, n) == [k \in 1..n |-> s[g[k]]]

\* Selected takes the elements at the indices that are listed.
LEMMA SelectedIs ==
  ASSUME NEW s, NEW n, NEW I, I \subseteq Nat, NEW g, Lists(g, n, I)
  PROVE  Selected(s, I) = Through(s, g, n)
BY OneList DEF Selected, Through

\* The elements a to b.
Part(s, a, b) == [k \in 1..(b + 1 - a) |-> s[k + a - 1]]

\* Consecutive indices select a part of the sequence.
LEMMA SelectedInterval ==
  ASSUME NEW s, NEW a \in Nat, NEW b \in Nat, a <= b + 1
  PROVE  Selected(s, a..b) = Part(s, a, b)
<1> DEFINE g == [k \in 1..(b + 1 - a) |-> k + a - 1]
<1>1. Lists(g, b + 1 - a, a..b)
  <2>1. b + 1 - a \in Nat /\ g \in [1..(b + 1 - a) -> a..b]
    OBVIOUS
  <2>2. ASSUME NEW x \in a..b PROVE \E i \in 1..(b + 1 - a) : g[i] = x
    <3>1. x - a + 1 \in 1..(b + 1 - a) /\ g[x - a + 1] = x
      OBVIOUS
    <3> QED BY <3>1
  <2> QED BY <2>1, <2>2 DEF Lists
<1>2. a..b \subseteq Nat
  OBVIOUS
<1> HIDE DEF g
<1>3. Selected(s, a..b) = Through(s, g, b + 1 - a)
  BY <1>1, <1>2, SelectedIs
<1> QED BY <1>3 DEF g, Through, Part

\* The places in the list of what is also in J.
Places(g, n, J) == {k \in 1..n : g[k] \in J}

PartLists(g, n, I, J) == I \subseteq Nat /\ Lists(g, n, I) /\ J \subseteq I

\* To select from what was selected is to select.
LEMMA SelectedTwice ==
  ASSUME NEW s, NEW n, NEW I, NEW g, NEW J, PartLists(g, n, I, J)
  PROVE  Selected(Selected(s, I), Places(g, n, J)) = Selected(s, J)
<1> I \subseteq Nat /\ Lists(g, n, I) /\ J \subseteq I
  BY DEF PartLists
<1>0. PICK K : K = Places(g, n, J)
  OBVIOUS
<1>1. n \in Nat /\ g \in [1..n -> I]
  BY DEF Lists
<1>2. IsFiniteSet(K) /\ K \subseteq Nat /\ K \subseteq 1..n
  <2>1. K \in SUBSET (1..n) /\ IsFiniteSet(1..n)
    BY <1>0, <1>1, FS_Interval DEF Places
  <2>2. IsFiniteSet(K)
    BY <2>1, FS_Subset
  <2> QED BY <2>1, <2>2
<1>3. PICK m, h : Lists(h, m, K)
  BY <1>2, AscendingLists
<1>4. m \in Nat /\ h \in [1..m -> K]
  BY <1>3 DEF Lists
<1> DEFINE c == [k \in 1..m |-> g[h[k]]]
<1>5. Lists(c, m, J)
  <2>1. \A k \in 1..m : h[k] \in 1..n /\ g[h[k]] \in J
    BY <1>0, <1>4 DEF Places
  <2>2. c \in [1..m -> J]
    BY <2>1
  <2>3. ASSUME NEW i \in 1..m, NEW j \in 1..m, i < j PROVE c[i] < c[j]
    <3>1. h[i] < h[j]
      BY <1>3, <2>3 DEF Lists
    <3> QED BY <2>1, <3>1 DEF Lists
  <2>4. ASSUME NEW x \in J PROVE \E i \in 1..m : c[i] = x
    <3>1. PICK k \in 1..n : g[k] = x
      BY DEF Lists
    <3>2. k \in K
      BY <1>0, <3>1 DEF Places
    <3>3. PICK i \in 1..m : h[i] = k
      BY <1>3, <3>2 DEF Lists
    <3> QED BY <3>1, <3>3
  <2> HIDE DEF c
  <2> QED BY <1>4, <2>2, <2>3, <2>4 DEF Lists
<1> HIDE DEF c
<1>6. J \subseteq Nat
  OBVIOUS
<1>7. Selected(s, J) = Through(s, c, m)
  BY <1>5, <1>6, SelectedIs
<1>8. Selected(s, I) = Through(s, g, n)
  BY SelectedIs
<1>9. Selected(Selected(s, I), K) = Through(Selected(s, I), h, m)
  BY <1>2, <1>3, SelectedIs
<1>10. \A k \in 1..m : Selected(s, I)[h[k]] = s[c[k]]
  <2>1. \A k \in 1..m : h[k] \in 1..n
    BY <1>2, <1>4
  <2> QED BY <1>8, <2>1 DEF c, Through
<1> QED BY <1>0, <1>7, <1>9, <1>10 DEF Through
=============================================================================
