------------------------ MODULE OutputComparisonProofs ------------------------
(***************************************************************************)
(* Proofs about OutputComparison, for every grid of doubles, tolerance and *)
(* set of words, and outputs of any length.  Doubles come first: what is   *)
(* exact, what a difference may be rounded to, and what stays finite.      *)
(* Then the parts of an output, which are its words; and what two words    *)
(* that are compared say.                                                  *)
(***************************************************************************)
EXTENDS OutputComparison, FiniteSetTheorems, WellFoundedInduction, TLAPS

USE GridAssumption

-----------------------------------------------------------------------------
(* Doubles.                                                                *)

\* A set of natural numbers has a least one.
LEMMA LeastNatural ==
  ASSUME NEW S, S \subseteq Nat, S # {}
  PROVE  \E s \in S : \A t \in S : s <= t
<1> DEFINE R == {ss \in Nat \X Nat : ss[1] < ss[2]}
<1>0. IsWellFoundedOn(R, Nat)
  BY NatLessThanWellFounded, Zenon DEF OpToRel
<1>1. PICK s \in S : \A t \in S : ~ (<<t, s>> \in R)
  <2> HIDE DEF R
  <2> QED
    BY <1>0, WFMin
<1>2. ASSUME NEW t \in S PROVE s <= t
  <2>1. s \in Nat /\ t \in Nat /\ <<t, s>> \notin R
    BY <1>1
  <2>2. ~(t < s)
    BY <2>1
  <2> QED
    BY <2>1, <2>2
<1> QED
  BY <1>2

\* Doubles of a sum of doubles, and whatever is less, have a distance.
LEMMA SpacingFacts ==
  ASSUME NEW n \in Int, AbsoluteValue(n) <= 2 * MaxDouble
  PROVE  /\ Spacing(n) \in Spacings
         /\ AbsoluteValue(n) < Spacing(n) * Exact
         /\ \A t \in Spacings : AbsoluteValue(n) < t * Exact => Spacing(n) <= t
<1> DEFINE Leaves(s) == AbsoluteValue(n) < s * Exact
           S == {s \in Spacings : Leaves(s)}
<1>1. S \subseteq Nat
  BY SpacingsAssumption
<1>2. S # {}
  <2>1. PICK s \in Spacings : 2 * MaxDouble < s * Exact
    BY SpacingsAssumption
  <2>2. AbsoluteValue(n) \in Int /\ s * Exact \in Int
    BY <2>1, SpacingsAssumption DEF AbsoluteValue
  <2> QED
    BY <2>1, <2>2
<1>3. \E s \in Spacings : Leaves(s) /\ \A t \in Spacings : Leaves(t) => s <= t
  <2> HIDE DEF Leaves
  <2> QED
    BY <1>1, <1>2, LeastNatural
<1>4. Spacing(n) = CHOOSE s \in Spacings : Leaves(s) /\ \A t \in Spacings : Leaves(t) => s <= t
  BY DEF Spacing
<1> HIDE DEF Leaves
<1>5. /\ Spacing(n) \in Spacings
      /\ Leaves(Spacing(n))
      /\ \A t \in Spacings : Leaves(t) => Spacing(n) <= t
  BY <1>3, <1>4
<1> QED
  BY <1>5 DEF Leaves

\* A value below Exact is a double.
LEMMA DoubleIsExact ==
  ASSUME NEW n \in Int, AbsoluteValue(n) < Exact
  PROVE  Double(n) = Finite(n)
<1> DEFINE a == AbsoluteValue(n)
<1>1. a \in Nat /\ a < Exact /\ n = (IF n < 0 THEN -1 ELSE 1) * a
  BY DEF AbsoluteValue
<1>2. Spacing(n) = 1
  <2>1. AbsoluteValue(n) < 1 * Exact /\ AbsoluteValue(n) <= 2 * MaxDouble
    BY <1>1
  <2>2. Spacing(n) \in Nat \ {0} /\ 1 \in Spacings
    BY <2>1, SpacingFacts, SpacingsAssumption
  <2>3. Spacing(n) <= 1
    BY <2>1, <2>2, SpacingFacts
  <2> QED
    BY <2>2, <2>3
<1>3. Nearest(a, 1) = a
  <2>1. a \div 1 = a /\ a % 1 = 0
    BY <1>1
  <2> QED
    BY <1>1, <2>1 DEF Nearest
<1> QED
  BY <1>1, <1>2, <1>3 DEF Double

\* A difference that is not exact is not below the tolerance, also when rounded.
LEMMA DifferenceStaysLarge ==
  ASSUME NEW n \in Int, Exact <= AbsoluteValue(n), AbsoluteValue(n) < 2 * Exact
  PROVE  ~AbsLess(Double(n), kDoublePrecision)
<1> DEFINE a == AbsoluteValue(n)
           s == Spacing(n)
           m == Nearest(a, s)
<1>1. a \in Nat /\ Exact <= a /\ a < 2 * Exact
  BY DEF AbsoluteValue
<1>2. s \in Spacings /\ s \in Nat \ {0} /\ a < s * Exact
  <2>1. AbsoluteValue(n) <= 2 * MaxDouble
    BY <1>1
  <2> QED
    BY <2>1, SpacingFacts, SpacingsAssumption
<1>3. s # 1
  BY <1>1, <1>2
<1>4. PICK t \in Spacings : s = 2 * t
  BY <1>2, <1>3, SpacingsAssumption
<1>5. t \in Nat \ {0} /\ ~(a < t * Exact)
  <2>1. t \in Nat \ {0} /\ ~(s <= t)
    BY <1>2, <1>4, SpacingsAssumption
  <2>2. AbsoluteValue(n) <= 2 * MaxDouble
    BY <1>1
  <2> QED
    BY <2>1, <2>2, SpacingFacts
<1>6. t = 1
  <2> SUFFICES ASSUME t >= 2 PROVE FALSE
    BY <1>5
  <2>1. t * Exact >= 2 * Exact
    BY <1>5
  <2> QED
    BY <1>1, <1>5, <2>1
<1>7. m \in Nat /\ m >= kDoublePrecision
  <2> HIDE DEF a
  <2>1. s = 2
    BY <1>4, <1>6
  <2>2. a \div 2 \in Nat /\ 2 * (a \div 2) >= a - 1
    BY <1>1
  <2>3. m \in Nat /\ m >= 2 * (a \div 2)
    BY <2>1, <2>2 DEF Nearest
  <2> QED
    BY <1>1, <2>2, <2>3
<1>8. CASE m > MaxDouble
  BY <1>8 DEF Double, Infinity, AbsLess
<1>9. CASE ~(m > MaxDouble)
  <2> DEFINE v == (IF n < 0 THEN -1 ELSE 1) * m
  <2>1. Double(n) = Finite(v)
    BY <1>9 DEF Double
  <2>2. AbsoluteValue(v) = m
    <3> HIDE DEF m
    <3> QED
      BY <1>7 DEF AbsoluteValue
  <2> QED
    BY <1>7, <2>1, <2>2 DEF Finite, AbsLess
<1> QED
  BY <1>8, <1>9

LEMMA MultipleIsDivided ==
  ASSUME NEW d \in Nat \ {0}, NEW k \in Int
  PROVE  (d * k) % d = 0
<1> DEFINE n == d * k
           q == n \div d
           r == n % d
<1>1. n = d * q + r /\ q \in Int /\ r \in 0..(d - 1)
  OBVIOUS
<1>2. n = d * k
  OBVIOUS
<1> HIDE DEF n, q, r
<1>3. r = d * (k - q)
  <2>1. d * (k - q) = d * k - d * q /\ d * q \in Int /\ d * k \in Int
    BY <1>1
  <2> QED
    BY <1>1, <1>2, <2>1
<1>4. ASSUME k - q >= 1 PROVE FALSE
  <2>1. d * (k - q) >= d
    BY <1>1, <1>4
  <2> QED
    BY <1>1, <1>3, <2>1
<1>5. ASSUME k - q <= -1 PROVE FALSE
  <2>1. d * (k - q) < 0
    BY <1>1, <1>5
  <2> QED
    BY <1>1, <1>3, <2>1
<1>6. k = q
  BY <1>1, <1>4, <1>5
<1>7. r = 0
  BY <1>1, <1>3, <1>6
<1> QED
  BY <1>7 DEF r, n

LEMMA DividesTransitive ==
  ASSUME NEW d \in Nat \ {0}, NEW e \in Nat \ {0}, NEW n \in Nat,
         e % d = 0, n % e = 0
  PROVE  n % d = 0
<1> DEFINE p == e \div d
           q == n \div e
<1>1. p \in Nat /\ e = d * p
  OBVIOUS
<1>2. q \in Nat /\ n = e * q
  OBVIOUS
<1> HIDE DEF p, q
<1>3. n = d * (p * q) /\ p * q \in Nat
  BY <1>1, <1>2
<1> QED
  BY <1>3, MultipleIsDivided

\* A value is not rounded beyond a multiple of the distance.
LEMMA NearestIsBounded ==
  ASSUME NEW a \in Nat, NEW s \in Nat \ {0}, NEW b \in Nat, a <= b, b % s = 0
  PROVE  Nearest(a, s) \in Nat /\ Nearest(a, s) <= b
<1> DEFINE q == a \div s
           r == a % s
           c == b \div s
<1>1. q \in Nat /\ r \in 0..(s - 1) /\ a = s * q + r
  OBVIOUS
<1>2. c \in Nat /\ b = s * c
  OBVIOUS
<1>3. Nearest(a, s) = s * (IF 2 * r > s \/ (2 * r = s /\ q % 2 = 1) THEN q + 1 ELSE q)
  BY DEF Nearest
<1> HIDE DEF q, r, c
<1>4. q < c \/ (q = c /\ r = 0)
  <2>1. ASSUME q >= c + 1 PROVE FALSE
    <3>1. s * q >= s * (c + 1) /\ s * (c + 1) = s * c + s
      BY <1>1, <1>2, <2>1
    <3> QED
      BY <1>1, <1>2, <3>1
  <2> QED
    BY <1>1, <1>2, <2>1
<1>5. CASE q < c
  <2>1. s * (q + 1) <= s * c /\ s * q <= s * c
    BY <1>1, <1>2, <1>5
  <2> QED
    BY <1>1, <1>2, <1>3, <2>1
<1>6. CASE q = c /\ r = 0
  BY <1>1, <1>2, <1>3, <1>6
<1> QED
  BY <1>4, <1>5, <1>6

\* No value up to the largest double is rounded beyond it.
LEMMA DoubleIsFinite ==
  ASSUME NEW n \in Int, AbsoluteValue(n) <= MaxDouble
  PROVE  \E m \in Int : Double(n) = Finite(m)
<1> DEFINE a == AbsoluteValue(n)
           s == Spacing(n)
           m == Nearest(a, s)
<1>1. a \in Nat /\ a <= MaxDouble /\ a <= 2 * MaxDouble
  BY DEF AbsoluteValue
<1>2. /\ s \in Spacings /\ s \in Nat \ {0}
      /\ \A t \in Spacings : a < t * Exact => s <= t
  BY <1>1, SpacingFacts, SpacingsAssumption
<1>3. MaxDouble % s = 0
  <2> DEFINE S == Spacing(MaxDouble)
  <2>1. /\ MaxDouble \in Int /\ AbsoluteValue(MaxDouble) = MaxDouble
        /\ AbsoluteValue(MaxDouble) <= 2 * MaxDouble
    BY DEF AbsoluteValue
  <2>2. S \in Spacings /\ S \in Nat \ {0} /\ MaxDouble < S * Exact
    BY <2>1, SpacingFacts, SpacingsAssumption
  <2>3. s <= S
    BY <1>1, <1>2, <2>2
  <2>4. S % s = 0 /\ MaxDouble % S = 0
    BY <1>2, <2>2, <2>3, SpacingsAssumption, MaxDoubleAssumption
  <2> HIDE DEF S, s
  <2> QED
    BY <1>2, <2>2, <2>4, DividesTransitive
<1>4. m \in Nat /\ m <= MaxDouble
  <2> HIDE DEF a, s
  <2> QED
    BY <1>1, <1>2, <1>3, NearestIsBounded
<1>5. Double(n) = Finite((IF n < 0 THEN -1 ELSE 1) * m)
  BY <1>4 DEF Double
<1> QED
  BY <1>4, <1>5

-----------------------------------------------------------------------------
(* The parts of an output.                                                 *)

\* What a word of Words is, also in lower case.
IsPart(v) ==
  /\ v.form \in {"letters", "special", "integer", "decimal"}
  /\ v.value \in Int
  /\ v.form = "integer" => v.value % One = 0

Lower(w) == [w EXCEPT !.text = AsciiStrToLower(@)]

LEMMA LowerIsPart ==
  ASSUME NEW w \in Words
  PROVE  IsPart(Lower(w)) /\ Lower(w).form = w.form /\ Lower(w).value = w.value
<1>1. w \in Word /\ (w.form = "integer" => w.value % One = 0)
  BY WordsAssumption
<1>2. Lower(w).form = w.form /\ Lower(w).value = w.value
  BY <1>1 DEF Word, Lower
<1>3. w.form \in {"letters", "special", "integer", "decimal"} /\ w.value \in Int
  <2>1. CASE w \in [form : {"letters", "special"}, text : STRING, value : {0}]
    BY <2>1
  <2>2. CASE w \in [form : {"integer", "decimal"}, text : {""}, value : Int]
    BY <2>2
  <2> QED
    BY <1>1, <2>1, <2>2 DEF Word
<1> QED
  BY <1>1, <1>2, <1>3 DEF IsPart

\* The places of a finite set of numbers are counted from 1 without a gap.
LEMMA PlaceExists ==
  ASSUME NEW k \in Nat, NEW A \in SUBSET (1..k), NEW n \in 1..Cardinality(A)
  PROVE  \E i \in A : Cardinality({j \in A : j <= i}) = n
<1> DEFINE Rank(i) == Cardinality({j \in A : j <= i})
           N == 1..Cardinality(A)
           f == [i \in A |-> Rank(i)]
<1>1. IsFiniteSet(A) /\ Cardinality(A) \in Nat
  BY FS_Interval, FS_Subset, FS_CardinalityType, 1 \in Int, k \in Int
<1>2. IsFiniteSet(N) /\ Cardinality(N) = Cardinality(A)
  BY <1>1, FS_Interval, 1 \in Int
<1>3. ASSUME NEW i \in A PROVE Rank(i) \in N
  <2> DEFINE B == {j \in A : j <= i}
  <2>1. B \subseteq A /\ B # {}
    BY <1>3
  <2>2. IsFiniteSet(B) /\ Cardinality(B) \in Nat /\ Cardinality(B) <= Cardinality(A)
    BY <1>1, <2>1, FS_Subset, FS_CardinalityType
  <2>3. Cardinality(B) # 0
    BY <2>1, <2>2, FS_EmptySet
  <2> QED
    BY <1>1, <2>2, <2>3
<1>4. ASSUME NEW i \in A, NEW h \in A, i < h PROVE Rank(i) < Rank(h)
  <2> DEFINE B == {j \in A : j <= i}
             C == {j \in A : j <= h}
  <2>1. B \subseteq C /\ C \subseteq A /\ h \in C /\ h \notin B
    <3>1. i \in Int /\ h \in Int /\ A \subseteq Int
      OBVIOUS
    <3>2. h \in C /\ h \notin B
      BY <1>4, <3>1
    <3>3. ASSUME NEW j \in A, j <= i PROVE j <= h
      BY <1>4, <3>1, <3>3
    <3> QED
      BY <3>2, <3>3
  <2>2. IsFiniteSet(C)
    BY <1>1, <2>1, FS_Subset
  <2>3. IsFiniteSet(B) /\ Cardinality(B) \in Nat /\ Cardinality(C) \in Nat
    BY <2>1, <2>2, FS_Subset, FS_CardinalityType
  <2> HIDE DEF B, C
  <2>4. Cardinality(B) <= Cardinality(C) /\ (Cardinality(B) = Cardinality(C) => B = C)
    BY <2>1, <2>2, FS_Subset
  <2>5. Cardinality(B) < Cardinality(C)
    BY <2>1, <2>3, <2>4
  <2> QED
    BY <2>5 DEF B, C
<1> HIDE DEF Rank
<1>5. f \in Injection(A, N)
  <2>1. f \in [A -> N]
    BY <1>3
  <2>2. ASSUME NEW i \in A, NEW h \in A, f[i] = f[h] PROVE i = h
    <3>1. Rank(i) = Rank(h) /\ Rank(i) \in Nat /\ i \in Int /\ h \in Int
      BY <1>3, <2>2
    <3> QED
      BY <1>4, <3>1
  <2> QED
    BY <2>1, <2>2 DEF Injection, IsInjective
<1>6. f \in Surjection(A, N)
  BY <1>1, <1>2, <1>5, FS_Injection
<1>7. \E i \in A : Rank(i) = n
  BY <1>6 DEF Surjection
<1> QED
  BY <1>7 DEF Rank

\* Each part is one of the words of the output, in lower case.
LEMMA PartsOfOutput ==
  ASSUME NEW s \in Outputs
  PROVE  LET parts == SplitAndLowercase(s)
         IN /\ Len(parts) \in Nat
            /\ parts = [i \in 1..Len(parts) |-> parts[i]]
            /\ \A i \in 1..Len(parts) :
                 \E j \in DOMAIN s : s[j] \in Words /\ parts[i] = Lower(s[j])
<1> DEFINE At == {i \in DOMAIN s : s[i] # Space}
           Place(n) == CHOOSE i \in At : Cardinality({j \in At : j <= i}) = n
           K == Cardinality(At)
           parts == [n \in 1..K |-> Lower(s[Place(n)])]
<1>1. SplitAndLowercase(s) = parts
  BY DEF SplitAndLowercase, Lower
<1>2. PICK k \in Nat : s \in [1..k -> Words \cup {Space}]
  BY MaxLengthAssumption DEF Outputs
<1>3. At \in SUBSET (1..k)
  BY <1>2
<1>4. K \in Nat
  BY <1>3, FS_Interval, FS_Subset, FS_CardinalityType, 1 \in Int, k \in Int
<1>5. ASSUME NEW n \in 1..K PROVE Place(n) \in At
  <2>1. \E i \in At : Cardinality({j \in At : j <= i}) = n
    <3> HIDE DEF At
    <3> QED
      BY <1>3, PlaceExists
  <2> QED
    BY <2>1
<1>6. ASSUME NEW n \in 1..K
      PROVE  Place(n) \in DOMAIN s /\ s[Place(n)] \in Words /\ parts[n] = Lower(s[Place(n)])
  BY <1>2, <1>5
<1>7. Len(parts) = K
  <2> HIDE DEF K, Place
  <2> QED
    BY <1>4
<1> HIDE DEF K, Place, At
<1> QED
  BY <1>1, <1>4, <1>6, <1>7

-----------------------------------------------------------------------------
(* Two words that are compared.                                            *)

LEMMA MultiplesApart ==
  ASSUME NEW p \in Int, NEW q \in Int, p >= q + 1
  PROVE  One * p - One * q >= One
<1>1. One * p >= One * (q + 1)
  OBVIOUS
<1>2. One * (q + 1) = One * q + One
  OBVIOUS
<1> QED
  BY <1>1, <1>2

\* Integers that differ by less than one are equal.
LEMMA WholesDiffer ==
  ASSUME NEW a \in Int, NEW b \in Int, a % One = 0, b % One = 0,
         AbsoluteValue(a - b) < One
  PROVE  a = b
<1> DEFINE p == a \div One
           q == b \div One
<1>1. p \in Int /\ a = One * p
  OBVIOUS
<1>2. q \in Int /\ b = One * q
  OBVIOUS
<1>3. a - b < One /\ b - a < One
  BY DEF AbsoluteValue
<1> HIDE DEF p, q
<1>4. ~(p >= q + 1) /\ ~(q >= p + 1)
  BY <1>1, <1>2, <1>3, MultiplesApart
<1>5. p = q
  BY <1>1, <1>2, <1>4
<1> QED
  BY <1>1, <1>2, <1>5

\* A number is compared as a number whenever the other word is one as well.
LEMMA NumbersMeet ==
  ASSUME NEW a, NEW b, IsNumber(a), IsNumber(b)
  PROVE  ValuesMatch(a, b) <=>
           AbsLess(Minus(Double(a.value), Double(b.value)), kDoublePrecision)
BY DEF IsNumber, ValuesMatch, IsString, SimpleAtod, AsDouble

\* Letters match letters only, and the same ones.
LEMMA LettersMeet ==
  ASSUME NEW a, NEW b, a.form = "letters" \/ b.form = "letters"
  PROVE  ValuesMatch(a, b) <=> a = b
BY DEF ValuesMatch, IsString, SimpleAtoi, SimpleAtod

LEMMA SmallValuesMatch ==
  ASSUME NEW a, NEW b, IsPart(a), IsPart(b), a.form # "special", b.form # "special",
         AbsoluteValue(a.value) < Exact, AbsoluteValue(b.value) < Exact
  PROVE  ValuesMatch(a, b) <=> Agree(a, b)
<1>1. CASE ~IsNumber(a) \/ ~IsNumber(b)
  BY <1>1, LettersMeet DEF IsPart, IsNumber, Agree
<1>2. CASE IsNumber(a) /\ IsNumber(b)
  <2> DEFINE d == a.value - b.value
  <2>1. d \in Int /\ AbsoluteValue(d) < 2 * Exact /\ AbsoluteValue(d) \in Nat
    BY DEF IsPart, AbsoluteValue
  <2>2. Minus(Double(a.value), Double(b.value)) = Double(d)
    BY DoubleIsExact DEF IsPart, Minus, Finite
  <2> HIDE DEF d
  <2>3. AbsLess(Double(d), kDoublePrecision) <=> AbsoluteValue(d) < kDoublePrecision
    <3>1. CASE AbsoluteValue(d) < Exact
      BY <2>1, <3>1, DoubleIsExact DEF Finite, AbsLess
    <3>2. CASE Exact <= AbsoluteValue(d)
      <4>1. ~(AbsoluteValue(d) < kDoublePrecision)
        BY <2>1, <3>2
      <4> QED
        BY <2>1, <3>2, <4>1, DifferenceStaysLarge
    <3> QED
      BY <2>1, <3>1, <3>2
  <2>4. ASSUME AbsoluteValue(d) < kDoublePrecision, a.form = "integer", b.form = "integer"
        PROVE  a.value = b.value
    <3>1. AbsoluteValue(a.value - b.value) < One
      BY <2>1, <2>4 DEF d
    <3> QED
      BY <2>4, <3>1, WholesDiffer DEF IsPart
  <2>5. Agree(a, b) <=> AbsoluteValue(d) < kDoublePrecision
    BY <1>2, <2>4 DEF Agree, d
  <2> QED
    BY <1>2, <2>2, <2>3, <2>5, NumbersMeet
<1> QED
  BY <1>1, <1>2

\* The same value in two forms, or the same letters.
LEMMA SameValuesMatch ==
  ASSUME NEW a, NEW b, IsPart(a), IsPart(b),
         IF IsNumber(a) /\ IsNumber(b)
           THEN a.value = b.value /\ AbsoluteValue(a.value) <= MaxDouble
           ELSE a = b /\ a.form # "special"
  PROVE  ValuesMatch(a, b)
<1>1. CASE IsNumber(a) /\ IsNumber(b)
  <2>1. PICK m \in Int : Double(a.value) = Finite(m)
    BY <1>1, DoubleIsFinite DEF IsPart
  <2>2. Minus(Double(a.value), Double(b.value)) = Double(0)
    BY <1>1, <2>1 DEF Minus, Finite
  <2>3. AbsoluteValue(0) = 0 /\ 0 < Exact
    BY DEF AbsoluteValue
  <2>4. AbsLess(Double(0), kDoublePrecision)
    BY <2>3, DoubleIsExact DEF Finite, AbsLess
  <2> QED
    BY <1>1, <2>2, <2>4, NumbersMeet
<1>2. CASE ~(IsNumber(a) /\ IsNumber(b))
  BY <1>2, LettersMeet DEF IsPart, IsNumber
<1> QED
  BY <1>1, <1>2

-----------------------------------------------------------------------------
(* The theorems.                                                           *)

\* match tells what OutputsMatch says of the two outputs.
ComparisonIInv ==
  /\ output \in Outputs /\ expected \in Outputs
  /\ match \in {"unknown", IF OutputsMatch(output, expected) THEN "yes" ELSE "no"}

\* OutputsMatch compares the parts at the same places of the outputs, and has no other
\* way to a match: equal parts agree.
LEMMA MatchIsByPairs ==
  ASSUME ComparisonIInv, match # "unknown",
         \A p \in Pairs(output, expected) : p[1] = p[2] => ValuesMatch(p[1], p[2])
  PROVE  match = "yes" <=>
           /\ Paired(output, expected)
           /\ \A p \in Pairs(output, expected) : ValuesMatch(p[1], p[2])
<1> DEFINE o == SplitAndLowercase(output)
           e == SplitAndLowercase(expected)
<1>1. match = "yes" <=> OutputsMatch(output, expected)
  BY DEF ComparisonIInv
<1>2. Len(o) \in Nat /\ Len(e) \in Nat
  BY PartsOfOutput DEF ComparisonIInv
<1>3. Pairs(output, expected) = {<<o[i], e[i]>> : i \in 1..Len(o)}
  BY DEF Pairs
<1>4. OutputsMatch(output, expected) <=>
        \/ o = e
        \/ Len(o) = Len(e) /\ \A i \in 1..Len(o) : ValuesMatch(o[i], e[i])
  BY DEF OutputsMatch
<1>5. Paired(output, expected) <=> Len(o) = Len(e)
  BY DEF Paired
<1> HIDE DEF o, e
<1> DEFINE pair(i) == <<o[i], e[i]>>
<1>6. \A i \in 1..Len(o) : /\ pair(i) \in Pairs(output, expected)
                           /\ pair(i)[1] = o[i] /\ pair(i)[2] = e[i]
  BY <1>3
<1>7. \A p \in Pairs(output, expected) : \E i \in 1..Len(o) : p = pair(i)
  BY <1>3
<1> HIDE DEF pair
<1>8. (\A p \in Pairs(output, expected) : ValuesMatch(p[1], p[2])) <=>
        \A i \in 1..Len(o) : ValuesMatch(o[i], e[i])
  BY <1>6, <1>7
<1>9. o = e => \A i \in 1..Len(o) : ValuesMatch(o[i], e[i])
  BY <1>6
<1> QED
  BY <1>1, <1>4, <1>5, <1>8, <1>9


\* Both words of a pair are parts; the first is of output, the second of expected.
LEMMA PairIsOfOutputs ==
  ASSUME ComparisonIInv, Paired(output, expected), NEW p \in Pairs(output, expected)
  PROVE  /\ IsPart(p[1]) /\ IsPart(p[2])
         /\ \E j \in DOMAIN output : p[1].form = output[j].form /\ p[1].value = output[j].value
         /\ \E j \in DOMAIN expected : p[2].form = expected[j].form /\ p[2].value = expected[j].value
<1> DEFINE o == SplitAndLowercase(output)
           e == SplitAndLowercase(expected)
<1>1. PICK i \in 1..Len(o) : p = <<o[i], e[i]>>
  BY DEF Pairs
<1>2. i \in 1..Len(e)
  BY DEF Paired
<1>3. PICK j \in DOMAIN output : output[j] \in Words /\ o[i] = Lower(output[j])
  BY PartsOfOutput DEF ComparisonIInv
<1>4. PICK k \in DOMAIN expected : expected[k] \in Words /\ e[i] = Lower(expected[k])
  BY <1>2, PartsOfOutput DEF ComparisonIInv
<1> HIDE DEF o, e
<1>5. p[1] = Lower(output[j]) /\ p[2] = Lower(expected[k])
  BY <1>1, <1>3, <1>4
<1> QED
  BY <1>3, <1>4, <1>5, LowerIsPart

\* Once the outputs are compared, match stays what OutputsMatch says of them.
LEMMA ComparisonInvariant == Spec => []ComparisonIInv
<1>1. Init => ComparisonIInv
  BY DEF Init, ComparisonIInv
<1>2. ComparisonIInv /\ [Next]_vars => ComparisonIInv'
  BY DEF ComparisonIInv, Next, Compare, vars
<1> QED
  BY <1>1, <1>2, PTL DEF Spec

\* On numbers that a double holds exactly the comparison is exact
\* (tester_sandboxer.cc lines 146-165 and 256-264).
THEOREM ExactWithinMantissaHolds == Spec => []ExactWithinMantissa
<1>1. ASSUME ComparisonIInv, match # "unknown",
             \A s \in {output, expected} : \A i \in DOMAIN s :
               s[i].form # "special" /\ AbsoluteValue(s[i].value) < Exact
      PROVE  match = "yes" <=>
               Paired(output, expected) /\ \A p \in Pairs(output, expected) : Agree(p[1], p[2])
  <2>1. CASE Paired(output, expected)
    <3>1. ASSUME NEW p \in Pairs(output, expected)
          PROVE  ValuesMatch(p[1], p[2]) <=> Agree(p[1], p[2])
      <4>1. /\ IsPart(p[1]) /\ p[1].form # "special" /\ AbsoluteValue(p[1].value) < Exact
            /\ IsPart(p[2]) /\ p[2].form # "special" /\ AbsoluteValue(p[2].value) < Exact
        BY <1>1, <2>1, PairIsOfOutputs
      <4> QED
        BY <4>1, SmallValuesMatch
    <3>2. ASSUME NEW p \in Pairs(output, expected), p[1] = p[2]
          PROVE  ValuesMatch(p[1], p[2])
      <4>1. IsPart(p[1]) /\ AbsoluteValue(p[1].value - p[2].value) = 0
        BY <1>1, <2>1, <3>2, PairIsOfOutputs DEF IsPart, AbsoluteValue
      <4> QED
        BY <3>1, <3>2, <4>1 DEF Agree
    <3> QED
      BY <1>1, <2>1, <3>1, <3>2, MatchIsByPairs
  <2>2. CASE ~Paired(output, expected)
    BY <1>1, <2>2 DEF ComparisonIInv, OutputsMatch, Paired
  <2> QED
    BY <2>1, <2>2
<1>2. ComparisonIInv => ExactWithinMantissa
  BY <1>1 DEF ExactWithinMantissa
<1> QED
  BY <1>2, ComparisonInvariant, PTL

\* No correct output is rejected, up to the largest double (tester_sandboxer.cc
\* lines 150-162).
THEOREM SameValueMatchesHolds == Spec => []SameValueMatches
<1> DEFINE Same(a, b) ==
             IF IsNumber(a) /\ IsNumber(b)
               THEN a.value = b.value /\ AbsoluteValue(a.value) <= MaxDouble
               ELSE a = b /\ a.form # "special"
<1>1. ASSUME ComparisonIInv, match # "unknown", Paired(output, expected),
             \A p \in Pairs(output, expected) : Same(p[1], p[2])
      PROVE  match = "yes"
  <2>1. ASSUME NEW p \in Pairs(output, expected) PROVE ValuesMatch(p[1], p[2])
    BY <1>1, PairIsOfOutputs, SameValuesMatch
  <2> QED
    BY <1>1, <2>1, MatchIsByPairs
<1>2. ComparisonIInv => SameValueMatches
  BY <1>1 DEF SameValueMatches
<1> QED
  BY <1>2, ComparisonInvariant, PTL
=============================================================================
