-------------------------- MODULE OutputComparison --------------------------
(***************************************************************************)
(* OutputsMatch (execution/tester_sandboxer.cc), the comparison of a       *)
(* program's output with the expected one that Test uses when the caller   *)
(* gives no other: word by word, numbers up to kDoublePrecision.           *)
(*                                                                         *)
(* A word is known by its form and by its letters or its value: a value is *)
(* written in one way without and one way with a decimal point.  It counts *)
(* the steps of the grid that doubles have around zero, so that one is One *)
(* steps and integers are the multiples of One.  Below Exact steps every   *)
(* value is a double; beyond, neighbouring doubles are further apart, and  *)
(* a value is rounded to the nearest one.                                  *)
(***************************************************************************)
EXTENDS Integers, FiniteSets, Sequences

CONSTANTS
  Words,             (* the words that outputs are made of                 *)
  MaxLength,         (* bound on the length of an output                   *)
  One,               (* the steps of the grid in one                       *)
  kDoublePrecision,  (* the tolerance, in steps                            *)
  MaxInt,            (* the largest int, in steps                          *)
  Exact,             (* 2^53 steps: a double has as many bits              *)
  Spacings,          (* 1, 2, 4, ...: how far doubles are apart, in steps  *)
  MaxDouble          (* the largest finite double, in steps                *)

ASSUME GridAssumption ==
  /\ {One, kDoublePrecision, MaxInt, Exact, MaxDouble} \subseteq Nat
  /\ 0 < kDoublePrecision /\ kDoublePrecision < One
  /\ One <= MaxInt /\ MaxInt < Exact /\ Exact <= MaxDouble

ASSUME MaxLengthAssumption == MaxLength \in Nat

\* Powers of two, up to the one that is needed for sums of doubles.
ASSUME SpacingsAssumption ==
  /\ Spacings \subseteq Nat \ {0} /\ 1 \in Spacings
  /\ \A s \in Spacings \ {1} : \E t \in Spacings : s = 2 * t
  /\ \A s, t \in Spacings : t <= s => s % t = 0
  /\ \E s \in Spacings : 2 * MaxDouble < s * Exact

\* The forms of a word: letters, the special numbers of strtod, and numbers
\* without and with a decimal point.
Word == [form : {"letters", "special"}, text : STRING, value : {0}]
          \cup [form : {"integer", "decimal"}, text : {""}, value : Int]

ASSUME WordsAssumption ==
  \A w \in Words : w \in Word /\ (w.form = "integer" => w.value % One = 0)

Space == [form |-> "space", text |-> "", value |-> 0]

VARIABLES output, expected, match

vars == <<output, expected, match>>

\* Words stand apart; a Space is one more character of space between them.
Outputs == UNION {[1..n -> Words \cup {Space}] : n \in 0..MaxLength}

Init ==
  /\ output \in Outputs
  /\ expected \in Outputs
  /\ match = "unknown"

-----------------------------------------------------------------------------
(* Words.                                                                  *)

\* The texts with capital letters are "YES" and "NaN", which stand for all such words:
\* every other text of Words is in lower case already.
AsciiStrToLower(text) ==
  CASE text = "YES" -> "yes" [] text = "NaN" -> "nan" [] OTHER -> text

\* The n-th part is the word with n words up to it, in lower case.
SplitAndLowercase(s) ==
  LET At == {i \in DOMAIN s : s[i] # Space}
      Place(n) == CHOOSE i \in At : Cardinality({j \in At : j <= i}) = n
  IN [n \in 1..Cardinality(At) |-> [s[Place(n)] EXCEPT !.text = AsciiStrToLower(@)]]

-----------------------------------------------------------------------------
(* Doubles.                                                                *)

AbsoluteValue(n) == IF n < 0 THEN -n ELSE n

Finite(n) == [class |-> "finite", value |-> n]
Infinity(sign) == [class |-> "inf", value |-> sign]
NaN == [class |-> "nan", value |-> 0]

\* The distance of doubles at n: the least that leaves n as many bits as Exact has.
Spacing(n) ==
  LET Leaves(s) == AbsoluteValue(n) < s * Exact
  IN CHOOSE s \in Spacings : Leaves(s) /\ \A t \in Spacings : Leaves(t) => s <= t

\* The largest double is one.
ASSUME MaxDoubleAssumption == MaxDouble % Spacing(MaxDouble) = 0

\* The multiple of s nearest to n >= 0, the even one of two.
Nearest(n, s) ==
  LET q == n \div s
      r == n % s
  IN s * (IF 2 * r > s \/ (2 * r = s /\ q % 2 = 1) THEN q + 1 ELSE q)

Double(n) ==
  LET sign == IF n < 0 THEN -1 ELSE 1
      m == Nearest(AbsoluteValue(n), Spacing(n))
  IN IF m > MaxDouble THEN Infinity(sign) ELSE Finite(sign * m)

Minus(x, y) ==
  IF x.class = "finite" /\ y.class = "finite" THEN Double(x.value - y.value)
  ELSE IF x.class = "nan" \/ y.class = "nan" \/ x = y THEN NaN
  ELSE IF x.class = "inf" THEN x ELSE Infinity(-y.value)

\* std::abs(x) < n, which no NaN satisfies.
AbsLess(x, n) == x.class = "finite" /\ AbsoluteValue(x.value) < n

\* std::abs(x) <= n
AbsAtMost(x, n) == x.class = "finite" /\ AbsoluteValue(x.value) <= n

\* An integer that fits an int.
SimpleAtoi(w) == w.form = "integer" /\ w.value \in (-MaxInt - One)..MaxInt

\* Whether w is a number, and the double it is read as.
SimpleAtod(w) == w.form \in {"integer", "decimal", "special"}

AsDouble(w) ==
  IF w.form # "special" THEN Double(w.value)
  ELSE CASE w.text = "nan" -> NaN
         [] w.text = "inf" -> Infinity(1)
         [] w.text = "-inf" -> Infinity(-1)

-----------------------------------------------------------------------------
(* The comparison.                                                         *)

IsString(w) == ~SimpleAtoi(w) /\ ~SimpleAtod(w)

\* As ValuesMatch, with a tolerance that includes its bound.
ValuesMatchClosed(a, b) ==
  IF IsString(a) \/ IsString(b) THEN a = b
  ELSE IF SimpleAtod(a) \/ SimpleAtod(b)
    THEN AbsAtMost(Minus(AsDouble(a), AsDouble(b)), kDoublePrecision)
    ELSE a.value = b.value

\* As ValuesMatch, when an int and a number that is none are compared as text.
ValuesMatchSameForm(a, b) ==
  IF IsString(a) \/ IsString(b) \/ SimpleAtoi(a) # SimpleAtoi(b) THEN a = b
  ELSE IF SimpleAtod(a) \/ SimpleAtod(b)
    THEN AbsLess(Minus(AsDouble(a), AsDouble(b)), kDoublePrecision)
    ELSE a.value = b.value

ValuesMatch(a, b) ==
  IF IsString(a) \/ IsString(b) THEN a = b
  ELSE IF SimpleAtod(a) \/ SimpleAtod(b)
    THEN AbsLess(Minus(AsDouble(a), AsDouble(b)), kDoublePrecision)
    ELSE a.value = b.value

\* Every pair of words is compared, the later ones after a mismatch too.
OutputsMatch(o, e) ==
  LET output_parts == SplitAndLowercase(o)
      expected_parts == SplitAndLowercase(e)
  IN \/ output_parts = expected_parts
     \/ /\ Len(output_parts) = Len(expected_parts)
        /\ \A i \in 1..Len(output_parts) : ValuesMatch(output_parts[i], expected_parts[i])

Compare ==
  /\ match = "unknown"
  /\ match' = IF OutputsMatch(output, expected) THEN "yes" ELSE "no"
  /\ UNCHANGED <<output, expected>>

Next == Compare

Spec == Init /\ [][Next]_vars

-----------------------------------------------------------------------------
(* Properties.                                                             *)

IsNumber(w) == w.form \in {"integer", "decimal"}

\* The exact comparison that ValuesMatch stands for: integers that are equal,
\* numbers that differ by less than the tolerance, words that are the same.
Agree(a, b) ==
  IF IsNumber(a) /\ IsNumber(b)
    THEN /\ AbsoluteValue(a.value - b.value) < kDoublePrecision
         /\ a.form = "integer" /\ b.form = "integer" => a.value = b.value
    ELSE a = b

\* Pairs of outputs of as many words.
Paired(o, e) == Len(SplitAndLowercase(o)) = Len(SplitAndLowercase(e))

\* The words at each place of a pair of outputs.
Pairs(o, e) ==
  LET output_parts == SplitAndLowercase(o)
      expected_parts == SplitAndLowercase(e)
  IN {<<output_parts[i], expected_parts[i]>> : i \in 1..Len(output_parts)}

\* On numbers that a double holds exactly OutputsMatch is the exact comparison,
\* whichever of its branches is taken, on both sides of the largest int and of the
\* tolerance (tester_sandboxer.cc lines 146-165 and 256-264).
ExactWithinMantissa ==
  LET Small(w) == w.form # "special" /\ AbsoluteValue(w.value) < Exact
  IN match # "unknown" /\ (\A s \in {output, expected} : \A i \in DOMAIN s : Small(s[i])) =>
       (match = "yes" <=>
          Paired(output, expected) /\ \A p \in Pairs(output, expected) : Agree(p[1], p[2]))

\* Numbers of the same value match however they are written, also where a
\* double has to round them: no correct output is rejected, up to the largest
\* double (tester_sandboxer.cc lines 150-162).
SameValueMatches ==
  LET Same(a, b) ==
        IF IsNumber(a) /\ IsNumber(b)
          THEN a.value = b.value /\ AbsoluteValue(a.value) <= MaxDouble
          ELSE a = b /\ a.form # "special"
  IN match # "unknown" /\ Paired(output, expected)
       /\ (\A p \in Pairs(output, expected) : Same(p[1], p[2])) => match = "yes"

\* "Both integers - require equality" (tester_sandboxer.cc line 163): outputs that
\* match have the same integers.
IntegersRequireEquality ==
  match = "yes" =>
    \A p \in Pairs(output, expected) :
      p[1].form = "integer" /\ p[2].form = "integer" => p[1].value = p[2].value
=============================================================================
