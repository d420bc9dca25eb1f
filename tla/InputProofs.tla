---------------------------- MODULE InputProofs ----------------------------
(***************************************************************************)
(* Proofs about Input: how far a derived number can leave its range, for   *)
(* every width of the words and every precision of a double.               *)
(*                                                                         *)
(* The provers know no more of a power of two than its value for a given   *)
(* exponent.  What is needed of it comes from the number of subsets of a   *)
(* set, by an induction over a set of numbers that follows from the order  *)
(* of the natural numbers being well founded.                              *)
(***************************************************************************)
EXTENDS Input, FiniteSetTheorems, FunctionTheorems, WellFoundedInduction, TLAPS

\* A set of numbers that is not empty has a least one.
LEMMA Least ==
  ASSUME NEW S \in SUBSET Nat, S # {} PROVE \E n \in S : \A m \in S : n <= m
<1>1. IsWellFoundedOn(OpToRel(<, Nat), Nat)
  BY NatLessThanWellFounded
<1>2. PICK n \in S : \A m \in S : <<m, n>> \notin OpToRel(<, Nat)
  BY <1>1, WFMin
<1>3. \A m \in S : m < n => <<m, n>> \in OpToRel(<, Nat)
  BY DEF OpToRel
<1>4. \A m \in S : ~(m < n)
  BY <1>2, <1>3
<1>5. \A m \in S : m \in Nat /\ n \in Nat
  BY <1>2
<1>6. \A m \in S : n <= m
  BY <1>4, <1>5
<1> QED
  BY <1>2, <1>6

\* Induction, for a set instead of a predicate.
LEMMA Induction ==
  ASSUME NEW S \in SUBSET Nat, 0 \in S, \A n \in S : n + 1 \in S
  PROVE  \A n \in Nat : n \in S
<1> SUFFICES ASSUME Nat \ S # {} PROVE FALSE
  OBVIOUS
<1>1. PICK n \in Nat \ S : \A m \in Nat \ S : n <= m
  BY Least
<1>2. n # 0 /\ n - 1 \in Nat /\ n - 1 \in S
  BY <1>1
<1>3. (n - 1) + 1 = n
  BY <1>1
<1> QED
  BY <1>1, <1>2, <1>3

LEMMA FiniteTo == ASSUME NEW k \in Nat PROVE IsFiniteSet(1..k) /\ Cardinality(1..k) = k
<1>1. 1 \in Int /\ k \in Int
  OBVIOUS
<1>2. IsFiniteSet(1..k) /\ Cardinality(1..k) = IF 1 > k THEN 0 ELSE k - 1 + 1
  BY <1>1, FS_Interval
<1> QED
  BY <1>2

\* A power of two counts the subsets of a set, which is what the provers know of it.
LEMMA PowerCounts ==
  ASSUME NEW k \in Nat
  PROVE  /\ IsFiniteSet(SUBSET (1..k)) /\ Cardinality(SUBSET (1..k)) = 2^k
         /\ 2^k \in Nat
<1>1. IsFiniteSet(1..k) /\ Cardinality(1..k) = k
  BY FiniteTo
<1>2. IsFiniteSet(SUBSET (1..k)) /\ Cardinality(SUBSET (1..k)) = 2^k
  BY <1>1, FS_SUBSET
<1>3. Cardinality(SUBSET (1..k)) \in Nat
  BY <1>2, FS_CardinalityType
<1> QED
  BY <1>2, <1>3

\* One more element doubles the subsets.
LEMMA PowerDoubles == ASSUME NEW k \in Nat PROVE 2^(k + 1) = 2^k + 2^k
<1> DEFINE Without == SUBSET (1..k)
           All == SUBSET (1..(k + 1))
           With == {s \cup {k + 1} : s \in Without}
           f == [s \in Without |-> s \cup {k + 1}]
<1>1. k + 1 \notin 1..k /\ 1..(k + 1) = 1..k \cup {k + 1} /\ k + 1 \in Nat
  OBVIOUS
<1>2. All = Without \cup With
  <2>1. ASSUME NEW s \in All, k + 1 \in s PROVE s \in With
    <3>1. s \ {k + 1} \in Without /\ s = (s \ {k + 1}) \cup {k + 1}
      BY <1>1, <2>1
    <3> QED
      BY <3>1
  <2>2. ASSUME NEW s \in All, k + 1 \notin s PROVE s \in Without
    BY <1>1, <2>2
  <2>3. Without \subseteq All /\ With \subseteq All
    BY <1>1
  <2> QED
    BY <2>1, <2>2, <2>3
<1>3. Without \cap With = {}
  BY <1>1
<1>4. f \in Bijection(Without, With)
  <2>1. f \in [Without -> With] /\ \A t \in With : \E s \in Without : f[s] = t
    OBVIOUS
  <2>2. \A s, t \in Without : f[s] = f[t] => s = t
    <3>1. \A s \in Without : f[s] \ {k + 1} = s
      BY <1>1
    <3> QED
      BY <3>1
  <2> QED
    BY <2>1, <2>2, Fun_IsBij
<1>5. /\ IsFiniteSet(Without) /\ Cardinality(Without) = 2^k /\ 2^k \in Nat
      /\ Cardinality(All) = 2^(k + 1)
  BY <1>1, PowerCounts
<1> HIDE DEF Without, With, All, f
<1>6. IsFiniteSet(With) /\ Cardinality(With) = 2^k
  <2>1. ExistsBijection(Without, With)
    BY <1>4 DEF ExistsBijection
  <2> QED
    BY <1>5, <2>1, FS_Bijection
<1>7. Cardinality(All) = Cardinality(Without) + Cardinality(With) - Cardinality(Without \cap With)
  BY <1>2, <1>5, <1>6, FS_Union
<1>8. Cardinality(Without \cap With) = 0
  BY <1>3, FS_EmptySet
<1> QED
  BY <1>5, <1>6, <1>7, <1>8

LEMMA PowerPositive == \A k \in Nat : 2^k \in Nat /\ 2^k >= k + 1
<1> DEFINE S == {k \in Nat : 2^k >= k + 1}
<1>1. 0 \in S
  OBVIOUS
<1>2. ASSUME NEW k \in S PROVE k + 1 \in S
  <2>1. 2^(k + 1) = 2^k + 2^k /\ 2^k \in Nat /\ 2^k >= k + 1
    BY PowerDoubles, PowerCounts
  <2>2. 2^(k + 1) >= (k + 1) + 1 /\ k + 1 \in Nat
    BY <2>1
  <2> QED
    BY <2>2
<1> HIDE DEF S
<1>3. \A k \in Nat : k \in S
  <2>1. S \in SUBSET Nat
    BY DEF S
  <2> QED
    BY <1>1, <1>2, <2>1, Induction
<1> QED
  BY <1>3, PowerCounts DEF S

\* Powers are added by their exponents.
LEMMA PowerAdds ==
  ASSUME NEW k \in Nat PROVE \A m \in Nat : 2^(k + m) = 2^k * 2^m
<1> DEFINE S == {m \in Nat : 2^(k + m) = 2^k * 2^m}
<1>1. 2^k \in Nat
  BY PowerPositive
<1>2. 0 \in S
  <2>1. k + 0 = k /\ 2^0 = 1 /\ 2^k = 2^k * 1
    BY <1>1
  <2>2. 2^(k + 0) = 2^k * 2^0
    BY <2>1
  <2> QED
    BY <2>2
<1>3. ASSUME NEW m \in S PROVE m + 1 \in S
  <2>1. 2^(k + m) = 2^k * 2^m /\ m \in Nat /\ m + 1 \in Nat
    OBVIOUS
  <2>2. 2^(k + (m + 1)) = 2^(k + m) + 2^(k + m)
    <3>1. k + m \in Nat /\ k + (m + 1) = (k + m) + 1
      BY <2>1
    <3> QED
      BY <3>1, PowerDoubles
  <2>3. 2^(m + 1) = 2^m + 2^m /\ 2^m \in Nat
    BY <2>1, PowerDoubles, PowerCounts
  <2>4. \A a, b \in Nat : a * b + a * b = a * (b + b)
    OBVIOUS
  <2>5. 2^(k + (m + 1)) = 2^k * 2^(m + 1)
    <3>1. 2^k * 2^m + 2^k * 2^m = 2^k * (2^m + 2^m)
      BY <1>1, <2>3, <2>4
    <3> QED
      BY <2>1, <2>2, <2>3, <3>1, Zenon
  <2> QED
    BY <2>1, <2>5, Zenon
<1> HIDE DEF S
<1>4. \A m \in Nat : m \in S
  <2>1. S \in SUBSET Nat
    BY DEF S
  <2> QED
    BY <1>2, <1>3, <2>1, Induction
<1> QED
  BY <1>4 DEF S

LEMMA PowerGrows ==
  ASSUME NEW k \in Nat, NEW m \in Nat, k < m PROVE 2^k < 2^m
<1>1. m - k \in Nat /\ k + (m - k) = m /\ m - k >= 1
  OBVIOUS
<1>2. 2^m = 2^k * 2^(m - k)
  <2>1. 2^(k + (m - k)) = 2^k * 2^(m - k)
    BY <1>1, PowerAdds
  <2> QED
    BY <1>1, <2>1
<1>3. 2^k \in Nat /\ 2^k >= 1 /\ 2^(m - k) \in Nat /\ 2^(m - k) >= 2
  <2>1. 2^k \in Nat /\ 2^k >= k + 1 /\ 2^(m - k) \in Nat /\ 2^(m - k) >= (m - k) + 1
    BY <1>1, PowerPositive
  <2> QED
    BY <1>1, <2>1
<1>4. \A a, b \in Nat : a >= 1 /\ b >= 2 => a < a * b
  OBVIOUS
<1> QED
  BY <1>2, <1>3, <1>4

LEMMA PowerMonotone ==
  ASSUME NEW k \in Nat, NEW m \in Nat, k <= m PROVE 2^k <= 2^m
<1>1. CASE k = m
  BY <1>1, PowerPositive
<1>2. CASE k < m
  BY <1>2, PowerGrows, PowerPositive
<1> QED
  BY <1>1, <1>2

LEMMA Division ==
  ASSUME NEW n \in Nat, NEW unit \in Nat, unit >= 1
  PROVE  /\ n \div unit \in Nat /\ n % unit \in 0..unit - 1
         /\ n = unit * (n \div unit) + (n % unit)
OBVIOUS

LEMMA Scaled ==
  ASSUME NEW unit \in Nat, unit >= 1, NEW a \in Nat, NEW b \in Nat
  PROVE  /\ unit * a \in Nat /\ unit * b \in Nat
         /\ a <= b => unit * a <= unit * b
         /\ a < b => unit * a < unit * b
OBVIOUS

\* The quotient and the remainder are the only ones.
LEMMA DivisionUnique ==
  ASSUME NEW unit \in Nat, unit >= 1, NEW q \in Nat, NEW rest \in 0..unit - 1
  PROVE  (unit * q + rest) \div unit = q /\ (unit * q + rest) % unit = rest
<1> DEFINE n == unit * q + rest
           d == n \div unit
           m == n % unit
<1>1. unit * q \in Nat /\ n \in Nat
  BY Scaled
<1>2. d \in Nat /\ m \in 0..unit - 1 /\ n = unit * d + m
  BY <1>1, Division
<1>3. n = unit * q + rest
  OBVIOUS
<1> HIDE DEF n, d, m
<1>4. CASE d < q
  <2>1. unit * (d + 1) <= unit * q /\ unit * (d + 1) = unit * d + unit
    <3>1. d + 1 \in Nat /\ d + 1 <= q
      BY <1>2, <1>4
    <3>2. unit * (d + 1) = unit * d + unit
      BY <1>2
    <3> QED
      BY <3>1, <3>2, Scaled
  <2>2. unit * d \in Nat
    BY <1>2, Scaled
  <2> QED
    BY <1>1, <1>2, <1>3, <2>1, <2>2
<1>5. CASE q < d
  <2>1. unit * (q + 1) <= unit * d /\ unit * (q + 1) = unit * q + unit
    <3>1. q + 1 \in Nat /\ q + 1 <= d
      BY <1>2, <1>5
    <3>2. unit * (q + 1) = unit * q + unit
      OBVIOUS
    <3> QED
      BY <1>2, <3>1, <3>2, Scaled
  <2>2. unit * d \in Nat
    BY <1>2, Scaled
  <2> QED
    BY <1>1, <1>2, <1>3, <2>1, <2>2
<1>6. CASE d = q
  <2>1. m = rest
    BY <1>1, <1>2, <1>3, <1>6
  <2> QED
    BY <1>6, <2>1 DEF n, d, m
<1> QED
  BY <1>2, <1>4, <1>5, <1>6

LEMMA PowerFacts == ASSUME NEW k \in Nat PROVE 2^k \in Nat /\ 2^k >= 1
<1>1. 2^k \in Nat /\ 2^k >= k + 1
  BY PowerPositive
<1> QED
  BY <1>1

-----------------------------------------------------------------------------
(***************************************************************************)
(* Rounding.  Exponents are those of the distances between doubles, and    *)
(* Reach the numbers that Spacing finds one for: products of a word and a  *)
(* word, and sums of two of them, are among them.                          *)
(***************************************************************************)
Exponents == 0..(2 * WordBits + 1)

Reach == {n \in Nat : n < 2^(MantissaBits + (2 * WordBits + 1))}

LEMMA Widths ==
  /\ WordBits \in Nat /\ MantissaBits \in Nat
  /\ MantissaBits >= 1 /\ MantissaBits < WordBits
  /\ 2 * WordBits + 1 \in Exponents /\ Exponents \subseteq Nat
  /\ \A k \in Exponents : MantissaBits + k \in Nat /\ 2^(MantissaBits + k) \in Nat
<1>1. /\ WordBits \in Nat /\ MantissaBits \in Nat
      /\ MantissaBits >= 1 /\ MantissaBits < WordBits
  BY BitsAssumption
<1>2. 2 * WordBits + 1 \in Exponents /\ Exponents \subseteq Nat
  BY <1>1 DEF Exponents
<1>3. ASSUME NEW k \in Exponents
      PROVE  MantissaBits + k \in Nat /\ 2^(MantissaBits + k) \in Nat
  <2>1. MantissaBits + k \in Nat
    BY <1>1, <1>2
  <2> QED
    BY <2>1, PowerFacts
<1> QED
  BY <1>1, <1>2, <1>3

\* The distance between two neighbours is the power of two that is the least for
\* the number to fit the mantissa.
LEMMA SpacingIs ==
  ASSUME NEW n \in Reach
  PROVE  \E k \in Exponents :
           /\ Spacing(n) = 2^k /\ n < 2^(MantissaBits + k)
           /\ \A other \in Exponents : n < 2^(MantissaBits + other) => k <= other
<1> DEFINE Fits == {k \in Exponents : n < 2^(MantissaBits + k)}
<1>1. Fits \in SUBSET Nat /\ Fits # {}
  <2>1. 2 * WordBits + 1 \in Fits
    BY Widths DEF Reach
  <2> QED
    BY <2>1, Widths
<1>2. PICK k \in Fits : \A other \in Fits : k <= other
  <2> HIDE DEF Fits
  <2> QED
    BY <1>1, Least
<1>3. \A m \in Fits : (\A other \in Fits : m <= other) => m = k
  BY <1>1, <1>2
<1>4. (CHOOSE m \in Fits : \A other \in Fits : m <= other) = k
  <2> DEFINE Minimal(m) == m \in Fits /\ \A other \in Fits : m <= other
  <2>1. Minimal(k) /\ \A m : Minimal(m) => m = k
    BY <1>2, <1>3
  <2> HIDE DEF Fits
  <2>2. Minimal(CHOOSE m : Minimal(m))
    BY <2>1, Zenon
  <2> QED
    BY <2>1, <2>2, Zenon
<1>5. Spacing(n) = 2^k
  BY <1>4 DEF Spacing, Exponents
<1>6. \A other \in Exponents : n < 2^(MantissaBits + other) => k <= other
  BY <1>2
<1> QED
  BY <1>2, <1>5, <1>6

\* What is known of the double of n: k is the exponent of its unit, up counts the
\* units.
Rounded(n, k, up) ==
  /\ k \in Exponents /\ up \in Nat
  /\ ToDouble(n) = 2^k * up
  /\ \/ up = n \div 2^k
     \/ up = n \div 2^k + 1 /\ 2 * (n % 2^k) >= 2^k
  /\ n < 2^(MantissaBits + k)
  /\ k > 0 => 2^(MantissaBits + (k - 1)) <= n

LEMMA Rounding ==
  ASSUME NEW n \in Reach
  PROVE  \E k \in Exponents, up \in Nat : Rounded(n, k, up)
<1>1. PICK k \in Exponents :
        /\ Spacing(n) = 2^k /\ n < 2^(MantissaBits + k)
        /\ \A other \in Exponents : n < 2^(MantissaBits + other) => k <= other
  BY SpacingIs
<1>2. n \in Nat /\ k \in Nat /\ 2^k \in Nat /\ 2^k >= 1
  BY PowerFacts, Widths DEF Reach
<1> DEFINE unit == 2^k
           below == n \div unit
           twice == 2 * (n % unit)
           up == IF twice > unit \/ (twice = unit /\ below % 2 = 1)
                 THEN below + 1 ELSE below
<1>3. ToDouble(n) = unit * up
  BY <1>1 DEF ToDouble
<1>4. below \in Nat /\ n % unit \in 0..(unit - 1)
  <2> HIDE DEF unit
  <2> QED
    BY <1>2, Division DEF unit
<1>5. /\ up \in Nat
      /\ up = below \/ (up = below + 1 /\ twice >= unit)
  <2> HIDE DEF unit, below
  <2> QED
    BY <1>2, <1>4 DEF unit
<1>6. k > 0 => 2^(MantissaBits + (k - 1)) <= n
  <2> SUFFICES ASSUME k > 0 PROVE 2^(MantissaBits + (k - 1)) <= n
    OBVIOUS
  <2>1. k - 1 \in Exponents /\ ~(k <= k - 1)
    BY Widths DEF Exponents
  <2>2. ~(n < 2^(MantissaBits + (k - 1))) /\ 2^(MantissaBits + (k - 1)) \in Nat
    BY <1>1, <2>1, Widths
  <2> QED
    BY <1>2, <2>2
<1>7. Rounded(n, k, up)
  <2> HIDE DEF up
  <2> QED
    BY <1>1, <1>3, <1>5, <1>6 DEF Rounded
<1> QED
  BY <1>5, <1>7

\* The double of n lies on the same side of a multiple of its unit as n.
LEMMA RoundedBetween ==
  ASSUME NEW n \in Nat, NEW unit \in Nat, unit >= 1, NEW up \in Nat, NEW q \in Nat,
         \/ up = n \div unit
         \/ up = n \div unit + 1 /\ 2 * (n % unit) >= unit
  PROVE  /\ n <= unit * q => unit * up <= unit * q
         /\ unit * q <= n => unit * q <= unit * up
         /\ 2 * (unit * up) <= 2 * n + unit
<1> DEFINE d == n \div unit
           r == n % unit
<1>1. d \in Nat /\ r \in 0..(unit - 1) /\ n = unit * d + r /\ unit * d \in Nat
  BY Division, Scaled
<1>2. up = d \/ (up = d + 1 /\ 2 * r >= unit)
  OBVIOUS
<1> HIDE DEF d, r
<1>3. unit * (d + 1) = unit * d + unit
  BY <1>1
<1>4. unit * q \in Nat /\ unit * up \in Nat
  BY Scaled
<1>5. ASSUME n <= unit * q PROVE unit * up <= unit * q
  <2>1. d <= q
    <3>1. q < d => unit * q < unit * d
      BY <1>1, Scaled
    <3> QED
      BY <1>1, <1>4, <1>5, <3>1
  <2>2. d = q => r = 0
    BY <1>1, <1>5
  <2>3. up <= q
    BY <1>1, <1>2, <2>1, <2>2
  <2> QED
    BY <2>3, Scaled
<1>6. ASSUME unit * q <= n PROVE unit * q <= unit * up
  <2>1. q < d + 1
    <3>1. d + 1 <= q => unit * (d + 1) <= unit * q
      BY <1>1, Scaled
    <3> QED
      BY <1>1, <1>3, <1>4, <1>6, <3>1
  <2>2. q <= up
    BY <1>1, <1>2, <2>1
  <2> QED
    BY <2>2, Scaled
<1>7. 2 * (unit * up) <= 2 * n + unit
  <2>1. CASE up = d
    BY <1>1, <2>1
  <2>2. CASE up = d + 1 /\ 2 * r >= unit
    <3>1. unit * up = unit * d + unit
      BY <1>3, <2>2
    <3> QED
      BY <1>1, <2>2, <3>1
  <2> QED
    BY <1>2, <2>1, <2>2
<1> QED
  BY <1>5, <1>6, <1>7

\* A number of at most 2^MantissaBits, times a power of two, is met exactly: the
\* double of n lies on the same side of it as n, and its own double is itself.
LEMMA Grid ==
  ASSUME NEW n \in Reach, NEW e \in Nat, NEW c \in Nat, c <= 2^MantissaBits
  PROVE  /\ n <= c * 2^e => ToDouble(n) <= c * 2^e
         /\ c * 2^e <= n => c * 2^e <= ToDouble(n)
         /\ ToDouble(n) \in Nat
<1>1. PICK k \in Exponents, up \in Nat : Rounded(n, k, up)
  BY Rounding
<1> DEFINE unit == 2^k
           R == c * 2^e
           kept == 2^MantissaBits
<1>2. /\ n \in Nat /\ k \in Nat /\ MantissaBits \in Nat /\ MantissaBits >= 1
      /\ unit \in Nat /\ unit >= 1 /\ 2^e \in Nat /\ kept \in Nat
  BY PowerFacts, Widths DEF Reach
<1>3. /\ ToDouble(n) = unit * up
      /\ up = n \div unit \/ (up = n \div unit + 1 /\ 2 * (n % unit) >= unit)
      /\ k > 0 => 2^(MantissaBits + (k - 1)) <= n
  BY <1>1 DEF Rounded
<1>4. R \in Nat
  BY <1>2
<1>5. \/ \E q \in Nat : R = unit * q
      \/ \E q \in Nat : R <= unit * q /\ unit * q <= n
  <2>1. CASE e >= k
    <3>1. e - k \in Nat /\ k + (e - k) = e
      BY <1>2, <2>1
    <3>2. 2^e = unit * 2^(e - k) /\ 2^(e - k) \in Nat
      <4>1. 2^(k + (e - k)) = 2^k * 2^(e - k)
        BY <1>2, <3>1, PowerAdds
      <4> QED
        BY <3>1, <4>1, PowerFacts
    <3>3. \A a, b, x \in Nat : x * (a * b) = a * (x * b) /\ x * b \in Nat
      OBVIOUS
    <3>4. c * (unit * 2^(e - k)) = unit * (c * 2^(e - k)) /\ c * 2^(e - k) \in Nat
      BY <1>2, <3>2, <3>3
    <3>5. R = unit * (c * 2^(e - k))
      BY <3>2, <3>4
    <3> QED
      BY <3>4, <3>5
  <2>2. CASE e < k
    <3>1. k > 0 /\ k - 1 \in Nat /\ MantissaBits - 1 \in Nat
          /\ MantissaBits + (k - 1) = k + (MantissaBits - 1)
          /\ MantissaBits + e \in Nat /\ MantissaBits + (k - 1) \in Nat
          /\ MantissaBits + e <= MantissaBits + (k - 1)
      BY <1>2, <2>2
    <3>2. 2^(MantissaBits + (k - 1)) = unit * 2^(MantissaBits - 1)
          /\ 2^(MantissaBits - 1) \in Nat
      <4>1. 2^(k + (MantissaBits - 1)) = 2^k * 2^(MantissaBits - 1)
        BY <1>2, <3>1, PowerAdds
      <4> QED
        BY <3>1, <4>1, PowerFacts
    <3>3. R <= kept * 2^e
      <4>1. \A a, b, x \in Nat : a <= b => a * x <= b * x
        OBVIOUS
      <4> QED
        BY <1>2, <4>1
    <3>4. kept * 2^e = 2^(MantissaBits + e)
      BY <1>2, PowerAdds
    <3>5. 2^(MantissaBits + e) <= 2^(MantissaBits + (k - 1))
      BY <3>1, PowerMonotone
    <3>6. /\ 2^(MantissaBits + e) \in Nat /\ 2^(MantissaBits + (k - 1)) \in Nat
      BY <3>1, PowerFacts
    <3>7. R <= 2^(MantissaBits + (k - 1)) /\ 2^(MantissaBits + (k - 1)) <= n
      <4> HIDE DEF R, kept
      <4> QED
        BY <1>3, <1>4, <3>1, <3>3, <3>4, <3>5, <3>6
    <3> QED
      BY <3>2, <3>7
  <2> QED
    BY <1>2, <2>1, <2>2
<1> HIDE DEF unit, R, kept
<1>6. unit * up \in Nat
  BY <1>2, Scaled
<1>7. ASSUME n <= R PROVE unit * up <= R
  <2>1. PICK q \in Nat : n <= unit * q /\ unit * q <= R
    <3>1. CASE \E q \in Nat : R = unit * q
      BY <1>4, <1>7, <3>1
    <3>2. CASE \E q \in Nat : R <= unit * q /\ unit * q <= n
      <4>1. PICK q \in Nat : R <= unit * q /\ unit * q <= n
        BY <3>2
      <4>2. unit * q \in Nat
        BY <1>2, Scaled
      <4>3. n <= unit * q /\ unit * q <= R
        BY <1>2, <1>4, <1>7, <4>1, <4>2
      <4> QED
        BY <4>3
    <3> QED
      BY <1>5, <3>1, <3>2
  <2>2. unit * up <= unit * q /\ unit * q \in Nat
    BY <1>2, <1>3, <2>1, RoundedBetween, Scaled
  <2> QED
    BY <1>4, <1>6, <2>1, <2>2
<1>8. ASSUME R <= n PROVE R <= unit * up
  <2>1. PICK q \in Nat : R <= unit * q /\ unit * q <= n
    BY <1>4, <1>5, <1>8
  <2>2. unit * q <= unit * up /\ unit * q \in Nat
    BY <1>2, <1>3, <2>1, RoundedBetween, Scaled
  <2> QED
    BY <1>4, <1>6, <2>1, <2>2
<1> QED
  BY <1>3, <1>6, <1>7, <1>8 DEF R

LEMMA Exact ==
  ASSUME NEW e \in Nat, NEW c \in Nat, c <= 2^MantissaBits, c * 2^e \in Reach
  PROVE  ToDouble(c * 2^e) = c * 2^e
<1> DEFINE n == c * 2^e
<1>1. n \in Nat
  BY DEF Reach
<1>2. n <= n
  BY <1>1
<1>3. ToDouble(n) <= n /\ n <= ToDouble(n) /\ ToDouble(n) \in Nat
  BY <1>2, Grid
<1> HIDE DEF n
<1>4. ToDouble(n) = n
  BY <1>1, <1>3
<1> QED
  BY <1>4 DEF n

\* A whole number that the mantissa holds is not changed.
LEMMA ExactWhole ==
  ASSUME NEW c \in Nat, c <= 2^MantissaBits, c \in Reach PROVE ToDouble(c) = c
<1>1. 2^0 = 1 /\ c * 1 = c
  OBVIOUS
<1>2. c * 2^0 = c
  BY <1>1
<1> QED
  BY <1>2, Exact

\* A double is a double.
LEMMA Idempotent ==
  ASSUME NEW n \in Reach, ToDouble(n) \in Reach
  PROVE  ToDouble(ToDouble(n)) = ToDouble(n)
<1>1. PICK k \in Exponents, up \in Nat : Rounded(n, k, up)
  BY Rounding
<1>2. /\ k \in Nat /\ 2^k \in Nat /\ 2^k >= 1 /\ n \in Nat
      /\ 2^MantissaBits \in Nat /\ MantissaBits \in Nat
  BY PowerFacts, Widths DEF Reach
<1>3. ToDouble(n) = 2^k * up /\ n < 2^(MantissaBits + k)
      /\ (up = n \div 2^k \/ (up = n \div 2^k + 1 /\ 2 * (n % 2^k) >= 2^k))
  BY <1>1 DEF Rounded
<1> DEFINE unit == 2^k
           kept == 2^MantissaBits
<1>4. n <= unit * kept
  <2>1. 2^(k + MantissaBits) = unit * kept /\ k + MantissaBits = MantissaBits + k
    BY <1>2, PowerAdds
  <2>2. unit * kept \in Nat /\ n < unit * kept
    <3>1. n < unit * kept
      BY <1>3, <2>1
    <3> HIDE DEF unit, kept
    <3> QED
      BY <1>2, <3>1, Scaled DEF unit, kept
  <2> HIDE DEF unit, kept
  <2> QED
    BY <1>2, <2>2
<1>5. unit * up <= unit * kept
  <2> HIDE DEF unit, kept
  <2> QED
    BY <1>2, <1>3, <1>4, RoundedBetween DEF unit, kept
<1>6. up <= kept
  <2> HIDE DEF unit, kept
  <2>1. kept < up => unit * kept < unit * up
    BY <1>2, Scaled DEF unit, kept
  <2>2. unit * kept \in Nat /\ unit * up \in Nat /\ kept \in Nat
    BY <1>2, Scaled DEF unit, kept
  <2> QED
    BY <1>5, <2>1, <2>2
<1>7. ToDouble(n) = up * 2^k
  BY <1>2, <1>3
<1> QED
  BY <1>2, <1>6, <1>7, Exact

-----------------------------------------------------------------------------
(***************************************************************************)
(* The words, and the range that is derived from them.                     *)
(***************************************************************************)
LEMMA ReachUpTo ==
  ASSUME NEW n \in Nat, n <= 2^(2 * WordBits + 1) PROVE n \in Reach
<1>1. 2 * WordBits + 1 \in Nat /\ MantissaBits + (2 * WordBits + 1) \in Nat
      /\ 2 * WordBits + 1 < MantissaBits + (2 * WordBits + 1)
  BY Widths
<1>2. 2^(2 * WordBits + 1) < 2^(MantissaBits + (2 * WordBits + 1))
  BY <1>1, PowerGrows
<1>3. /\ 2^(2 * WordBits + 1) \in Nat
      /\ 2^(MantissaBits + (2 * WordBits + 1)) \in Nat
  BY <1>1, PowerFacts
<1> QED
  BY <1>2, <1>3 DEF Reach

\* The number of words, and a double below it by the distance at the top.
LEMMA TopWidths ==
  LET all == 2^WordBits
      lost == WordBits - MantissaBits
      kept == 2^MantissaBits
      half == 2^(lost - 1)
  IN /\ lost \in Nat /\ lost - 1 \in Nat /\ MantissaBits + lost = WordBits
     /\ all \in Nat /\ all >= 2 /\ kept < all
     /\ half \in Nat /\ half >= 1 /\ 2^lost = half + half
     /\ kept \in Nat /\ kept >= 2 /\ (kept - 1) % 2 = 1
     /\ all = kept * 2^lost /\ all - 2^lost = (kept - 1) * 2^lost
     /\ all = 2^(WordBits - 1) + 2^(WordBits - 1)
     /\ 2^lost <= 2^(WordBits - 1) /\ 2^(WordBits - 1) \in Nat
<1> DEFINE all == 2^WordBits
           lost == WordBits - MantissaBits
           kept == 2^MantissaBits
           half == 2^(lost - 1)
           unit == 2^lost
<1>1. /\ WordBits \in Nat /\ MantissaBits \in Nat /\ MantissaBits >= 1
      /\ lost \in Nat /\ lost >= 1 /\ MantissaBits + lost = WordBits
      /\ lost - 1 \in Nat /\ MantissaBits - 1 \in Nat /\ WordBits - 1 \in Nat
      /\ lost <= WordBits - 1 /\ MantissaBits < WordBits
  BY Widths
<1> HIDE DEF lost
<1>2. half \in Nat /\ half >= 1 /\ unit = half + half
  <2>1. half \in Nat /\ half >= 1
    BY <1>1, PowerFacts
  <2>2. (lost - 1) + 1 = lost /\ 2^((lost - 1) + 1) = half + half
    BY <1>1, PowerDoubles
  <2>3. unit = half + half
    BY <2>2
  <2> QED
    BY <2>1, <2>3
<1>3. kept \in Nat /\ kept >= 2 /\ (kept - 1) % 2 = 1
  <2>1. kept \in Nat /\ kept >= MantissaBits + 1
    BY <1>1, PowerPositive
  <2>2. /\ (MantissaBits - 1) + 1 = MantissaBits
        /\ 2^((MantissaBits - 1) + 1) = 2^(MantissaBits - 1) + 2^(MantissaBits - 1)
        /\ 2^(MantissaBits - 1) \in Nat
    BY <1>1, PowerDoubles, PowerFacts
  <2>3. PICK m \in Nat : kept = m + m
    <3>1. kept = 2^(MantissaBits - 1) + 2^(MantissaBits - 1)
      BY <2>2
    <3> QED
      BY <2>2, <3>1, Zenon
  <2> HIDE DEF kept
  <2> QED
    BY <1>1, <2>1, <2>3
<1>4. all = kept * unit /\ all \in Nat /\ kept < all
  <2>1. 2^(MantissaBits + lost) = kept * unit
    BY <1>1, PowerAdds
  <2>2. kept < all
    BY <1>1, PowerGrows
  <2> QED
    BY <1>1, <2>1, <2>2, PowerFacts
<1>5. all - unit = (kept - 1) * unit
  <2> HIDE DEF unit, kept, half, all
  <2> QED
    BY <1>2, <1>3, <1>4
<1>6. all = 2^(WordBits - 1) + 2^(WordBits - 1)
  <2>1. (WordBits - 1) + 1 = WordBits
        /\ 2^((WordBits - 1) + 1) = 2^(WordBits - 1) + 2^(WordBits - 1)
    BY <1>1, PowerDoubles
  <2> QED
    BY <2>1
<1>7. unit <= 2^(WordBits - 1) /\ 2^(WordBits - 1) \in Nat
  BY <1>1, PowerMonotone, PowerFacts
<1>8. all >= 2
  <2> HIDE DEF all, kept
  <2> QED
    BY <1>3, <1>4
<1> QED
  BY <1>1, <1>2, <1>3, <1>4, <1>5, <1>6, <1>7, <1>8 DEF lost

LEMMA WordsReach ==
  /\ Words \subseteq Reach /\ Words \subseteq Nat
  /\ \A n \in Words : n < 2^WordBits
  /\ 2^WordBits \in Reach
<1>1. WordBits \in Nat /\ 2 * WordBits + 1 \in Nat /\ WordBits <= 2 * WordBits + 1
  BY Widths
<1>2. /\ 2^WordBits <= 2^(2 * WordBits + 1) /\ 2^WordBits \in Nat
      /\ 2^(2 * WordBits + 1) \in Nat
  BY <1>1, PowerMonotone, PowerFacts
<1>3. ASSUME NEW n \in Nat, n <= 2^WordBits PROVE n \in Reach
  BY <1>2, <1>3, ReachUpTo
<1>4. \A n \in Words : n \in Nat /\ n < 2^WordBits /\ n <= 2^WordBits
  BY <1>2 DEF Words
<1> QED
  BY <1>2, <1>3, <1>4

\* The words at the top are as far apart as the mantissa's lost bits tell.
LEMMA SpacingTop ==
  ASSUME NEW n \in Words, n >= 2^WordBits - 2^(WordBits - MantissaBits)
  PROVE  Spacing(n) = 2^(WordBits - MantissaBits)
<1> DEFINE lost == WordBits - MantissaBits
<1>1. /\ lost \in Nat /\ MantissaBits + lost = WordBits
      /\ 2^WordBits \in Nat /\ n \in Nat /\ n < 2^WordBits /\ n \in Reach
      /\ 2^WordBits = 2^(WordBits - 1) + 2^(WordBits - 1)
      /\ 2^lost <= 2^(WordBits - 1) /\ 2^lost \in Nat /\ 2^(WordBits - 1) \in Nat
      /\ WordBits \in Nat /\ MantissaBits \in Nat /\ WordBits - 1 \in Nat
      /\ lost \in Exponents
  BY TopWidths, WordsReach, Widths, PowerFacts DEF Exponents
<1>2. n >= 2^(WordBits - 1)
  <2>1. n >= 2^WordBits - 2^lost
    OBVIOUS
  <2> HIDE DEF lost
  <2> QED
    BY <1>1, <2>1
<1> HIDE DEF lost
<1>3. PICK k \in Exponents :
        /\ Spacing(n) = 2^k /\ n < 2^(MantissaBits + k)
        /\ \A other \in Exponents : n < 2^(MantissaBits + other) => k <= other
  BY <1>1, SpacingIs
<1>4. k <= lost /\ k \in Nat
  BY <1>1, <1>3, Widths
<1>5. ~(k < lost)
  <2> SUFFICES ASSUME k < lost PROVE FALSE
    OBVIOUS
  <2>1. MantissaBits + k \in Nat /\ MantissaBits + k <= WordBits - 1
    BY <1>1, <1>4
  <2>2. 2^(MantissaBits + k) <= 2^(WordBits - 1) /\ 2^(MantissaBits + k) \in Nat
    BY <1>1, <2>1, PowerMonotone, PowerFacts
  <2> QED
    BY <1>1, <1>2, <1>3, <2>2
<1>6. k = lost
  BY <1>1, <1>4, <1>5
<1> QED
  BY <1>3, <1>6 DEF lost

\* The words that become the number of words are those that lie no further below
\* it than half the distance at the top; the others stay below it by that distance.
LEMMA TopWords ==
  ASSUME NEW n \in Words
  PROVE  /\ ToDouble(n) = 2^WordBits
              <=> n >= 2^WordBits - 2^(WordBits - MantissaBits - 1)
         /\ \/ ToDouble(n) = 2^WordBits
            \/ ToDouble(n) <= 2^WordBits - 2^(WordBits - MantissaBits)
         /\ ToDouble(n) \in 0..2^WordBits
<1> DEFINE lost == WordBits - MantissaBits
           unit == 2^lost
           kept == 2^MantissaBits
           half == 2^(lost - 1)
           all == 2^WordBits
<1>1. /\ half \in Nat /\ half >= 1 /\ unit = half + half /\ kept \in Nat /\ kept >= 2
      /\ (kept - 1) % 2 = 1 /\ all = kept * unit /\ all \in Nat /\ all >= 2
      /\ all - unit = (kept - 1) * unit /\ lost \in Nat /\ unit <= all
  BY TopWidths
<1>2. n \in Nat /\ n < all /\ n \in Reach /\ ToDouble(n) \in Nat
  <2>1. n \in Reach
    BY WordsReach
  <2>2. ToDouble(n) \in Nat
    BY <1>1, <2>1, Grid
  <2> QED
    BY <2>1, <2>2, WordsReach
<1>3. CASE n >= all - unit
  <2> DEFINE rest == n - (all - unit)
  <2>1. Spacing(n) = unit
    BY <1>3, SpacingTop
  <2> HIDE DEF lost, unit, kept, half, all
  <2>2. rest \in 0..unit - 1 /\ n = unit * (kept - 1) + rest /\ kept - 1 \in Nat
        /\ unit \in Nat /\ unit >= 1
    BY <1>1, <1>2, <1>3
  <2>3. n \div unit = kept - 1 /\ n % unit = rest
    <3> HIDE DEF rest
    <3>1. /\ (unit * (kept - 1) + rest) \div unit = kept - 1
          /\ (unit * (kept - 1) + rest) % unit = rest
      BY <2>2, DivisionUnique
    <3> QED
      BY <2>2, <3>1
  <2>4. ToDouble(n) = unit * (IF 2 * rest > unit \/ (2 * rest = unit /\ (kept - 1) % 2 = 1)
                              THEN (kept - 1) + 1 ELSE kept - 1)
    <3> HIDE DEF rest
    <3> QED
      BY <2>1, <2>3 DEF ToDouble
  <2>5. CASE rest >= half
    <3>1. 2 * rest > unit \/ (2 * rest = unit /\ (kept - 1) % 2 = 1)
      BY <1>1, <2>2, <2>5
    <3>2. (kept - 1) + 1 = kept /\ unit * kept = kept * unit
      BY <1>1, <2>2
    <3>3. ToDouble(n) = all
      <4> HIDE DEF rest
      <4> QED
        BY <1>1, <2>4, <3>1, <3>2
    <3>4. n >= all - half
      BY <1>1, <1>2, <2>5
    <3> QED
      BY <1>1, <3>3, <3>4 DEF all, half, lost
  <2>6. CASE rest < half
    <3>1. ~(2 * rest > unit \/ (2 * rest = unit /\ (kept - 1) % 2 = 1))
      BY <1>1, <2>2, <2>6
    <3>2. unit * (kept - 1) = (kept - 1) * unit
      BY <1>1, <2>2
    <3>3. ToDouble(n) = all - unit
      <4> HIDE DEF rest
      <4> QED
        BY <1>1, <2>4, <3>1, <3>2
    <3>4. all - unit # all /\ ~(n >= all - half) /\ all - unit \in 0..all
      BY <1>1, <1>2, <2>2, <2>6
    <3> QED
      BY <3>3, <3>4 DEF all, half, lost, unit
  <2> QED
    BY <1>1, <2>2, <2>5, <2>6
<1>4. CASE ~(n >= all - unit)
  <2>1. kept - 1 \in Nat /\ kept - 1 <= kept /\ n <= (kept - 1) * unit
    <3> HIDE DEF lost, unit, kept, half, all
    <3> QED
      BY <1>1, <1>2, <1>4
  <2>2. n <= (kept - 1) * unit => ToDouble(n) <= (kept - 1) * unit
    <3> HIDE DEF lost
    <3> QED
      BY <1>1, <1>2, <2>1, Grid
  <2> HIDE DEF lost, unit, kept, half, all
  <2>3. ToDouble(n) <= all - unit /\ ToDouble(n) # all /\ ~(n >= all - half)
        /\ ToDouble(n) \in 0..all
    BY <1>1, <1>2, <1>4, <2>1, <2>2
  <2> QED
    BY <2>3 DEF all, half, lost, unit
<1> QED
  BY <1>3, <1>4

\* UINT64_MAX rounds up to the number of words.
LEMMA OneIs == One = 2^WordBits
<1>1. 2^WordBits \in Nat /\ 2^WordBits >= 2
  BY TopWidths
<1>2. 2^WordBits - 1 \in Words
  BY <1>1 DEF Words
<1>3. /\ 2^(WordBits - MantissaBits - 1) \in Nat
      /\ 2^(WordBits - MantissaBits - 1) >= 1
  BY TopWidths
<1>4. 2^WordBits - 1 >= 2^WordBits - 2^(WordBits - MantissaBits - 1)
  BY <1>1, <1>3
<1> QED
  BY <1>2, <1>4, TopWords DEF One

\* The arguments of a small range are doubles.
LEMMA SmallRange ==
  ASSUME NEW begin \in Nat, NEW end \in Nat, begin + end + 1 <= 2^MantissaBits
  PROVE  /\ ToDouble((end + 1) % 2^WordBits) = end + 1
         /\ ToDouble(begin) = begin
         /\ end + 1 <= 2^MantissaBits
<1>1. 2^MantissaBits \in Nat /\ 2^WordBits \in Nat /\ 2^MantissaBits < 2^WordBits
  BY TopWidths
<1>2. end + 1 \in Nat /\ end + 1 < 2^WordBits /\ end + 1 <= 2^MantissaBits
      /\ begin < 2^WordBits /\ begin <= 2^MantissaBits
  BY <1>1
<1>3. (end + 1) % 2^WordBits = end + 1
  <2> DEFINE all == 2^WordBits
             E == end + 1
  <2>1. all \in Nat /\ all >= 1 /\ E \in 0..(all - 1) /\ all * 0 + E = E
    BY <1>1, <1>2
  <2> HIDE DEF all, E
  <2>2. (all * 0 + E) % all = E
    BY <2>1, DivisionUnique
  <2>3. E % all = E
    BY <2>1, <2>2
  <2> QED
    BY <2>3 DEF all, E
<1>4. end + 1 \in Words /\ begin \in Words
  BY <1>1, <1>2 DEF Words
<1>5. end + 1 \in Reach /\ begin \in Reach
  BY <1>4, WordsReach
<1> QED
  BY <1>2, <1>3, <1>5, ExactWhole

\* Products and sums within a small range are numbers that can be rounded.
LEMMA SmallReach ==
  ASSUME NEW n \in Nat, NEW c \in Nat, c <= 2^MantissaBits, n <= c * 2^WordBits
  PROVE  n \in Reach
<1> DEFINE all == 2^WordBits
           kept == 2^MantissaBits
<1>1. all \in Nat /\ kept \in Nat /\ 2^(MantissaBits + WordBits) = kept * all
  BY Widths, PowerFacts, PowerAdds
<1>2. 2^(MantissaBits + WordBits) <= 2^(2 * WordBits + 1)
      /\ 2^(2 * WordBits + 1) \in Nat
  <2>1. /\ MantissaBits + WordBits \in Nat /\ 2 * WordBits + 1 \in Nat
        /\ MantissaBits + WordBits <= 2 * WordBits + 1
    BY Widths
  <2> QED
    BY <2>1, PowerMonotone, PowerFacts
<1>3. n <= 2^(2 * WordBits + 1)
  <2> HIDE DEF all, kept
  <2>1. c <= kept /\ n <= c * all
    BY DEF all, kept
  <2>2. \A a, b, x \in Nat : a <= b => a * x <= b * x /\ a * x \in Nat /\ b * x \in Nat
    OBVIOUS
  <2>3. c * all <= kept * all /\ c * all \in Nat /\ kept * all \in Nat
    BY <1>1, <2>1, <2>2
  <2> QED
    BY <1>1, <1>2, <2>1, <2>3
<1> QED
  BY <1>3, ReachUpTo

\* input_derive_range, on doubles that hold the ends of the range, leaves it by
\* one at most, whatever the width of the words and the precision of a double
\* are, and does so for the words that the conversion rounds to the divisor.
THEOREM RangeBounds ==
  ASSUME NEW word \in Words, NEW begin \in Nat, NEW end \in Nat,
         begin + end + 1 <= 2^MantissaBits
  PROVE  /\ DeriveRange(word, begin, end) \in begin..begin + end + 1
         /\ DeriveDouble(word) = One => DeriveRange(word, begin, end) = begin + end + 1
<1> DEFINE all == 2^WordBits
           kept == 2^MantissaBits
           d == ToDouble(word)
           E == end + 1
           product == ToDouble(d * E)
           sum == ToDouble(product + all * begin)
<1>1. /\ all \in Nat /\ all >= 1 /\ kept \in Nat /\ WordBits \in Nat
      /\ E \in Nat /\ E >= 1 /\ E + begin = begin + end + 1 /\ E + begin \in Nat
      /\ d \in 0..all
  <2>1. all \in Nat /\ all >= 2 /\ kept \in Nat
    BY TopWidths
  <2> HIDE DEF all, kept
  <2> QED
    BY <2>1, TopWords, Widths DEF all
<1>2. DeriveRange(word, begin, end) = sum \div all
  BY SmallRange, OneIs DEF DeriveRange, DeriveDouble
<1>3. E <= kept /\ E + begin <= kept
  BY SmallRange, <1>1
<1> HIDE DEF d, E, all, kept
<1>4. d * E \in Nat /\ d * E <= E * all /\ (d = all => d * E = E * all)
  <2>1. \A a, b, x \in Nat : a <= b => a * x <= x * b /\ a * x \in Nat
    OBVIOUS
  <2>2. d \in Nat /\ d <= all
    BY <1>1
  <2>3. \A a, b \in Nat : a * b = b * a
    OBVIOUS
  <2> QED
    BY <1>1, <2>1, <2>2, <2>3
<1>5. d * E \in Reach
  BY <1>1, <1>3, <1>4, SmallReach DEF all, kept
<1>6. product \in Nat /\ product <= E * all
  BY <1>1, <1>3, <1>4, <1>5, Grid DEF all, kept
<1>7. d = all => product = E * all
  BY <1>1, <1>3, <1>4, <1>5, Exact DEF all, kept
<1> HIDE DEF product
<1>8. /\ E * all + all * begin = (E + begin) * all
      /\ begin * all = all * begin /\ all * begin \in Nat
  BY <1>1
<1>9. /\ product + all * begin \in Nat
      /\ product + all * begin <= (E + begin) * all
      /\ begin * all <= product + all * begin
      /\ (E + begin) * all \in Nat
  <2>1. E * all \in Nat
    BY <1>1
  <2> QED
    BY <1>1, <1>6, <1>8, <2>1
<1>10. product + all * begin \in Reach
  BY <1>1, <1>3, <1>9, SmallReach DEF all, kept
<1>11. sum \in Nat /\ sum <= (E + begin) * all
  BY <1>1, <1>3, <1>9, <1>10, Grid DEF all, kept
<1>12. begin * all <= sum
  <2>1. begin <= kept
    BY <1>1, <1>3
  <2> QED
    BY <1>1, <1>9, <1>10, <2>1, Grid DEF all, kept
<1>13. d = all => sum = (E + begin) * all
  BY <1>1, <1>3, <1>7, <1>8, <1>10, Exact DEF all, kept
<1> HIDE DEF sum
<1> DEFINE q == sum \div all
           rest == sum % all
<1>14. q \in Nat /\ rest \in 0..(all - 1) /\ sum = all * q + rest /\ all * q \in Nat
  BY <1>1, <1>11, Division, Scaled
<1> HIDE DEF q, rest
<1>15. q <= E + begin
  <2>1. E + begin + 1 <= q => all * (E + begin + 1) <= all * q
    BY <1>1, <1>14, Scaled
  <2>2. all * (E + begin + 1) = (E + begin) * all + all
    BY <1>1
  <2> QED
    BY <1>1, <1>9, <1>11, <1>14, <2>1, <2>2
<1>16. begin <= q
  <2>1. q + 1 <= begin => all * (q + 1) <= all * begin
    BY <1>1, <1>14, Scaled
  <2>2. all * (q + 1) = all * q + all
    BY <1>1, <1>14
  <2> QED
    BY <1>1, <1>8, <1>12, <1>14, <2>1, <2>2
<1>17. d = all => q = E + begin
  <2> SUFFICES ASSUME d = all PROVE q = E + begin
    OBVIOUS
  <2>1. sum = all * (E + begin) + 0 /\ 0 \in 0..(all - 1)
    BY <1>1, <1>13
  <2> QED
    BY <1>1, <2>1, DivisionUnique DEF q
<1>18. DeriveRange(word, begin, end) = q /\ q \in begin..begin + end + 1
  BY <1>1, <1>2, <1>14, <1>15, <1>16 DEF q
<1>19. DeriveDouble(word) = One => d = all
  BY OneIs DEF d, all, DeriveDouble
<1> QED
  BY <1>1, <1>17, <1>18, <1>19

\* For a range that begins with 0 no other word leaves it: the product of a
\* smaller double is rounded to less than the whole number.
LEMMA ProductBelow ==
  ASSUME NEW d \in Nat, NEW E \in Nat, E >= 1, E <= 2^MantissaBits,
         d <= 2^WordBits - 2^(WordBits - MantissaBits)
  PROVE  ToDouble(d * E) < E * 2^WordBits /\ d * E \in Reach
<1> DEFINE all == 2^WordBits
           kept == 2^MantissaBits
           unit == 2^(WordBits - MantissaBits)
           n == d * E
<1>1. /\ all \in Nat /\ kept \in Nat /\ kept >= 2 /\ unit \in Nat /\ unit >= 1
      /\ all = kept * unit
  BY TopWidths, PowerFacts
<1> HIDE DEF all, kept, unit
<1>2. d <= all - unit /\ E <= kept
  BY DEF all, kept, unit
<1>3. n \in Nat /\ n + E * unit <= E * all /\ E * unit >= 1 /\ E * unit \in Nat
      /\ E * all \in Nat /\ n <= E * all
  <2>1. d + unit \in Nat /\ d + unit <= all
    BY <1>1, <1>2
  <2>2. \A a, b, x \in Nat : a <= b => x * a <= x * b
    OBVIOUS
  <2>3. E * (d + unit) <= E * all
    BY <1>1, <2>1, <2>2
  <2>4. E * (d + unit) = n + E * unit
    BY <1>1
  <2>5. \A a, b \in Nat : a * b \in Nat /\ (a >= 1 /\ b >= 1 => a * b >= 1)
    OBVIOUS
  <2>6. n \in Nat /\ E * unit \in Nat /\ E * all \in Nat /\ E * unit >= 1
    BY <1>1, <2>5
  <2> HIDE DEF n
  <2> QED
    BY <2>3, <2>4, <2>6
<1> HIDE DEF n
<1>4. n \in Reach
  BY <1>1, <1>2, <1>3, SmallReach DEF all, kept
<1>5. PICK k \in Exponents, up \in Nat : Rounded(n, k, up)
  BY <1>4, Rounding
<1> DEFINE small == 2^k
<1>6. /\ k \in Nat /\ small \in Nat /\ small >= 1 /\ MantissaBits \in Nat
      /\ ToDouble(n) = small * up
      /\ up = n \div small \/ (up = n \div small + 1 /\ 2 * (n % small) >= small)
      /\ k > 0 => 2^(MantissaBits + (k - 1)) <= n
  BY <1>5, PowerFacts, Widths DEF Rounded
<1>7. 2 * ToDouble(n) <= 2 * n + small /\ ToDouble(n) \in Nat
  <2> HIDE DEF small
  <2>1. 2 * (small * up) <= 2 * n + small /\ small * up \in Nat
    BY <1>3, <1>6, RoundedBetween, Scaled
  <2> QED
    BY <1>6, <2>1
<1>8. CASE k = 0
  <2>1. small = 1
    BY <1>8
  <2> HIDE DEF small
  <2>2. ToDouble(n) <= n
    BY <1>3, <1>7, <2>1
  <2> QED
    BY <1>3, <1>4, <1>7, <2>2 DEF n, all
<1>9. CASE k > 0
  <2> DEFINE part == 2^(k - 1)
  <2>1. /\ k - 1 \in Nat /\ part \in Nat /\ small = part + part
        /\ 2^(MantissaBits + (k - 1)) = kept * part
    <3>1. k - 1 \in Nat /\ (k - 1) + 1 = k
      BY <1>6, <1>9
    <3>2. 2^((k - 1) + 1) = part + part
      BY <3>1, PowerDoubles
    <3>3. 2^(MantissaBits + (k - 1)) = kept * part
      BY <1>6, <3>1, PowerAdds DEF kept
    <3> QED
      BY <3>1, <3>2, <3>3, PowerFacts
  <2> HIDE DEF part, small
  <2>2. kept * part <= n
    BY <1>6, <1>9, <2>1
  <2>3. E * all = kept * (E * unit)
    <3>1. \A a, b, x \in Nat : x * (a * b) = a * (x * b)
      OBVIOUS
    <3> QED
      BY <1>1, <3>1
  <2>4. kept * part < kept * (E * unit)
    <3>1. kept * part \in Nat
      BY <1>1, <2>1
    <3> QED
      BY <1>3, <2>2, <2>3, <3>1
  <2>5. part < E * unit
    <3>1. E * unit <= part => kept * (E * unit) <= kept * part
      <4>1. \A a, b, x \in Nat : a <= b => x * a <= x * b
        OBVIOUS
      <4> QED
        BY <1>1, <1>3, <2>1, <4>1
    <3>2. kept * part \in Nat /\ kept * (E * unit) \in Nat
      BY <1>1, <1>3, <2>1, <2>3
    <3> QED
      BY <1>3, <2>1, <2>4, <3>1, <3>2
  <2>6. ToDouble(n) < E * all
    BY <1>3, <1>7, <2>1, <2>5
  <2> QED
    BY <1>4, <2>6 DEF n, all
<1> QED
  BY <1>6, <1>8, <1>9

LEMMA RangeBeyond ==
  ASSUME NEW word \in Words, NEW end \in Nat, end + 1 <= 2^MantissaBits
  PROVE  DeriveRange(word, 0, end) = end + 1 <=> DeriveDouble(word) = One
<1> DEFINE all == 2^WordBits
           kept == 2^MantissaBits
           d == ToDouble(word)
           E == end + 1
           product == ToDouble(d * E)
<1>1. /\ all \in Nat /\ all >= 1 /\ kept \in Nat /\ E \in Nat /\ E >= 1 /\ E <= kept
      /\ d \in 0..all /\ 0 + end + 1 = E /\ 0 + end + 1 <= kept
  <2>1. all \in Nat /\ all >= 2 /\ kept \in Nat
    BY TopWidths
  <2> HIDE DEF all, kept
  <2> QED
    BY <2>1, TopWords DEF all, kept
<1>2. DeriveDouble(word) = One => DeriveRange(word, 0, end) = E
  BY <1>1, RangeBounds
<1>3. ASSUME d # all PROVE DeriveRange(word, 0, end) # E
  <2>1. d <= 2^WordBits - 2^(WordBits - MantissaBits) /\ d \in Nat
    BY <1>1, <1>3, TopWords
  <2>2. product < E * all /\ d * E \in Reach
    <3> HIDE DEF d, E
    <3> QED
      BY <1>1, <2>1, ProductBelow
  <2>3. product \in Nat
    <3>1. 0 \in Nat /\ 0 <= 2^MantissaBits
      BY <1>1
    <3> QED
      BY <2>2, <3>1, Grid
  <2>4. product \in Reach
    <3> HIDE DEF product
    <3>1. product <= E * all
      BY <1>1, <2>2, <2>3
    <3> QED
      BY <1>1, <2>3, <3>1, SmallReach
  <2>5. ToDouble(product) = product
    BY <2>2, <2>4, Idempotent
  <2>6. DeriveRange(word, 0, end) = ToDouble(product + all * 0) \div all
    <3>1. ToDouble((end + 1) % 2^WordBits) = E /\ ToDouble(0) = 0
      BY <1>1, SmallRange
    <3> QED
      BY <3>1, OneIs DEF DeriveRange, DeriveDouble
  <2>7. DeriveRange(word, 0, end) = product \div all
    <3> HIDE DEF product, all
    <3>1. product + all * 0 = product
      BY <1>1, <2>3
    <3> QED
      BY <2>5, <2>6, <3>1
  <2> HIDE DEF product, all, E, d
  <2>8. ASSUME product \div all = E PROVE FALSE
    <3>1. /\ product % all \in 0..(all - 1)
          /\ product = all * (product \div all) + (product % all)
      BY <1>1, <2>3, Division
    <3>2. product = all * E + (product % all) /\ all * E = E * all
      BY <1>1, <2>8, <3>1
    <3>3. E * all \in Nat
      BY <1>1
    <3> QED
      BY <2>2, <3>1, <3>2, <3>3
  <2> QED
    BY <2>7, <2>8
<1>4. DeriveDouble(word) = One <=> d = all
  BY OneIs DEF DeriveDouble
<1> QED
  BY <1>2, <1>3, <1>4

\* The words that leave a range that begins with 0, as the cases of the fuzzer do:
\* with 64 bits and a mantissa of 53 they are the 1024 greatest.  (A range that
\* begins further up loses more words, to the rounding of the sum.)
THEOREM WordsBeyond ==
  ASSUME NEW word \in Words, NEW end \in Nat, end + 1 <= 2^MantissaBits
  PROVE  DeriveRange(word, 0, end) = end + 1 <=>
           word >= 2^WordBits - 2^(WordBits - MantissaBits - 1)
BY RangeBeyond, OneIs, TopWords DEF DeriveDouble
=============================================================================
