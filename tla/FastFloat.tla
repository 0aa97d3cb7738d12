------------------------------ MODULE FastFloat ------------------------------
(***************************************************************************)
(* fast_float::from_chars, with which the CSV and PostgreSQL readers turn  *)
(* the text of a double field into its value (deserialize<double>).  The   *)
(* algorithm is kept: the decimal is cut into digits and an exponent, a    *)
(* short one is computed with one rounded operation of the hardware        *)
(* (Clinger), others with a truncated product by a table of powers of five *)
(* (Eisel and Lemire), and those with more digits than fit a word fall     *)
(* back on exact integers where the truncated digits matter.               *)
(*                                                                         *)
(* What is a constant of the type double in the code is a constant of the  *)
(* module, so that words, significands and exponents can be small.  Text   *)
(* is a sequence of character codes, a float its bits.  bigint is a        *)
(* natural number here; that its limbs compute the same is checked in      *)
(* BigInt.  Its capacity, 4000 bits, is taken to be sufficient.            *)
(***************************************************************************)
EXTENDS Integers, Sequences, FiniteSets, SequencesExt, FiniteSetsExt

CONSTANTS WordBits,        \* of uint64_t
          MantissaBits,    \* mantissa_explicit_bits
          MinExponent,     \* minimum_exponent
          InfinitePower,   \* infinite_power
          SmallestPower, LargestPower,      \* smallest_, largest_power_of_ten
          MinRoundToEven, MaxRoundToEven,   \* min_, max_exponent_round_to_even
          FastPower,       \* max_exponent_fast_path
          WordDigits,      \* decimal digits that always fit a word
          MaxDigits,       \* max_digits
          ExponentCap      \* where parsing the exponent stops growing it

Word == 2^WordBits
Hidden == 2^MantissaBits
Infinity == InfinitePower * Hidden
NotANumber == Infinity + Hidden \div 2

BitLength(n) == CHOOSE b \in 0..30 : (b = 0 \/ 2^(b - 1) <= n) /\ n < 2^b
DecimalLength(n) == CHOOSE d \in 0..9 : (d = 0 \/ 10^(d - 1) <= n) /\ n < 10^d

-----------------------------------------------------------------------------
(* Binary floating point: bits, values, and the rounding of IEEE 754. *)

\* to_extended: the integer m and the power e of a float m * 2^e.
ToExtended(bits) ==
  IF bits \div Hidden = 0
  THEN [m |-> bits, e |-> MinExponent + 1 - MantissaBits]
  ELSE [m |-> (bits % Hidden) + Hidden, e |-> bits \div Hidden + MinExponent - MantissaBits]

FloorLog2(num, den) ==
  LET b == BitLength(num) - BitLength(den)
      reaches == IF b >= 0 THEN num >= den * 2^b ELSE num * 2^(-b) >= den
  IN IF reaches THEN b ELSE b - 1

\* The float nearest to num / den * 2^s, ties to even.
Nearest(num, den, s) ==
  LET p == Max({1, FloorLog2(num, den) + s - MinExponent})
      unit == p + MinExponent - MantissaBits
      a == num * 2^Max({s - unit, 0})
      b == den * 2^Max({unit - s, 0})
      m == a \div b
      up == 2 * (a % b) > b \/ (2 * (a % b) = b /\ m % 2 = 1)
  IN IF num = 0 THEN 0
     ELSE Min({Infinity, (p - 1) * Hidden + m + IF up THEN 1 ELSE 0})

\* The two operations of the fast path, and the conversion of an integer.
FromInteger(n) == Nearest(n, 1, 0)
Times(x, y) == Nearest(ToExtended(x).m * ToExtended(y).m, 1, ToExtended(x).e + ToExtended(y).e)
Over(x, y) == Nearest(ToExtended(x).m, ToExtended(y).m, ToExtended(x).e - ToExtended(y).e)

-----------------------------------------------------------------------------
(* compute_float. *)

\* power_of_five_128: 5^q as two words, rounded towards one.
PowerOfFive(q) ==
  IF q >= 0
  THEN LET shift == 2 * WordBits - BitLength(5^q)
       IN IF shift >= 0 THEN 5^q * 2^shift ELSE 5^q \div 2^(-shift)
  ELSE 2^(2 * WordBits + BitLength(5^(-q)) - 1) \div 5^(-q) + 1

FullMultiplication(a, b) == [high |-> (a * b) \div Word, low |-> (a * b) % Word]

\* The second word of the power counts only where it could carry into the bits
\* that are kept.
ProductApproximation(q, w) ==
  LET first == FullMultiplication(w, PowerOfFive(q) \div Word)
      second == FullMultiplication(w, PowerOfFive(q) % Word)
      unused == 2^(WordBits - MantissaBits - 3)
      low == (first.low + second.high) % Word
  IN IF first.high % unused # unused - 1 THEN first
     ELSE [high |-> (first.high + IF second.high > low THEN 1 ELSE 0) % Word, low |-> low]

\* detail::power: the binary exponent of 10^q.
Power(q) == ((152170 + 65536) * q) \div 65536 + WordBits - 1

Shifted(w) == w * 2^(WordBits - BitLength(w))

RoundUp(m) == (m + (m % 2)) \div 2

Adjusted(m, p) == [mantissa |-> m, power2 |-> p]

Subnormal(m, p) ==
  LET r == RoundUp(m \div 2^(1 - p))
  IN IF 1 - p >= WordBits THEN Adjusted(0, 0)
     ELSE Adjusted(r, IF r < Hidden THEN 0 ELSE 1)

\* The end of compute_float and of round: a carry out of the significand, then
\* infinity.
Normal(m, p) ==
  LET carry == m >= 2 * Hidden
      power == p + IF carry THEN 1 ELSE 0
  IN IF power >= InfinitePower THEN Adjusted(0, InfinitePower)
     ELSE Adjusted(IF carry THEN 0 ELSE m % Hidden, power)

\* Mutant of HalfwayEven: the exponents that can be halfway are not told apart.
HalfwayEvenNever(product, shift, q) == FALSE

\* Whether w * 10^q is halfway between two floats, the lower one even.
HalfwayEven(product, shift, q) ==
  /\ product.low <= 1
  /\ q \in MinRoundToEven..MaxRoundToEven
  /\ (product.high \div 2^shift) % 4 = 1
  /\ product.high % 2^shift = 0

\* w * 10^q for w # 0 and a power in the table.
ScaledProduct(q, w) ==
  LET product == ProductApproximation(q, Shifted(w))
      upper == product.high \div 2^(WordBits - 1)
      shift == upper + WordBits - MantissaBits - 3
      m == product.high \div 2^shift
      p == Power(q) + upper - (WordBits - BitLength(w)) - MinExponent
  IN IF p <= 0 THEN Subnormal(m, p)
     ELSE Normal(RoundUp(IF HalfwayEven(product, shift, q) THEN m - 1 ELSE m), p)

ComputeFloat(q, w) ==
  CASE w = 0 \/ q < SmallestPower -> Adjusted(0, 0)
    [] w # 0 /\ q > LargestPower -> Adjusted(0, InfinitePower)
    [] OTHER -> ScaledProduct(q, w)

\* to_float: the significand's hidden bit coincides with the exponent's last.
ToFloat(am) == am.power2 * Hidden + (am.mantissa % Hidden)

\* compute_error: the product before rounding, with the power that round wants.
ComputeError(q, w) ==
  LET product == ProductApproximation(q, Shifted(w))
      hilz == 1 - product.high \div 2^(WordBits - 1)
  IN Adjusted(product.high * 2^hilz,
              Power(q) + MantissaBits - MinExponent - hilz
              - (WordBits - BitLength(w)) - (WordBits - 2))

-----------------------------------------------------------------------------
(* parse_number_string. *)

Minus == 45
Plus == 43
Point == 46
SmallE == 101
Parenthesis == 41

IsInteger(c) == c \in 48..57

\* The digits of a text from a position on, and the number they are in a word.
DigitsFrom(text, i) ==
  LET n == CHOOSE n \in 0..Len(text) :
             /\ \A k \in i..(i + n - 1) : k \in DOMAIN text /\ IsInteger(text[k])
             /\ i + n \in DOMAIN text => ~IsInteger(text[i + n])
  IN [k \in 1..n |-> text[i + k - 1] - 48]

NumberOf(digits) == FoldLeft(LAMBDA n, d : 10 * n + d, 0, digits)

LeadingZeros(digits) ==
  CHOOSE n \in 0..Len(digits) :
    (\A k \in 1..n : digits[k] = 0) /\ (n < Len(digits) => digits[n + 1] # 0)

\* The exponent at position i: an e, perhaps a sign, and digits; if there are no
\* digits the e is not part of the number.
ParseExponent(text, i) ==
  LET signed == i + 1 \in DOMAIN text /\ text[i + 1] \in {Minus, Plus}
      digits == DigitsFrom(text, IF signed THEN i + 2 ELSE i + 1)
      size == FoldLeft(LAMBDA n, d : IF n < ExponentCap THEN 10 * n + d ELSE n, 0, digits)
  IN IF i \in DOMAIN text /\ text[i] \in {SmallE, SmallE - 32} /\ digits # <<>>
     THEN [value |-> IF signed /\ text[i + 1] = Minus THEN -size ELSE size,
           next |-> i + 1 + Len(digits) + IF signed THEN 1 ELSE 0]
     ELSE [value |-> 0, next |-> i]

\* How many digits go into the word: all, or up to the WordDigits-th significant one.
Kept(digits) == Min({Len(digits), LeadingZeros(digits) + WordDigits})

\* For a text that is not empty.  digits holds the spans integer and fraction.
ParseNumberString(text) ==
  LET negative == text[1] = Minus
      integer == DigitsFrom(text, IF negative THEN 2 ELSE 1)
      point == 1 + Len(integer) + IF negative THEN 1 ELSE 0
      hasPoint == point \in DOMAIN text /\ text[point] = Point
      fraction == IF hasPoint THEN DigitsFrom(text, point + 1) ELSE <<>>
      exponent == ParseExponent(text, point + Len(fraction) + IF hasPoint THEN 1 ELSE 0)
      digits == integer \o fraction
      kept == Kept(digits)
  IN [valid |-> digits # <<>>, negative |-> negative, lastmatch |-> exponent.next,
      mantissa |-> NumberOf(SubSeq(digits, 1, kept)),
      exponent |-> Len(integer) - kept + exponent.value,
      tooManyDigits |-> kept < Len(digits), digits |-> digits]

-----------------------------------------------------------------------------
(* digit_comp. *)

ScientificExponent(num) == num.exponent + DecimalLength(num.mantissa) - 1

\* Mutant of ParseMantissa: digits beyond the last that fits are forgotten.
ParseMantissaTruncated(digits) ==
  LET significant == SubSeq(digits, LeadingZeros(digits) + 1, Len(digits))
  IN SubSeq(significant, 1, Min({Len(significant), MaxDigits}))

\* The significant digits; if there are more than MaxDigits, a 1 stands for the rest.
ParseMantissa(digits) ==
  LET significant == SubSeq(digits, LeadingZeros(digits) + 1, Len(digits))
      rest == SubSeq(significant, MaxDigits + 1, Len(significant))
  IN IF Len(significant) <= MaxDigits THEN significant
     ELSE SubSeq(significant, 1, MaxDigits) \o IF LeadingZeros(rest) < Len(rest) THEN <<1>> ELSE <<>>

\* round: the shift that leaves a significand, smaller numbers being subnormal.
IsSubnormal(am) == -am.power2 >= WordBits - MantissaBits - 1

RoundShift(am) ==
  IF IsSubnormal(am) THEN Min({1 - am.power2, WordBits}) ELSE WordBits - MantissaBits - 1

\* round_nearest_tie_even: the significand before rounding, the bits that are cut
\* off, and half of their unit, from which the callers say whether to round up.
CutOff(am) ==
  [m |-> am.mantissa \div 2^RoundShift(am), low |-> am.mantissa % 2^RoundShift(am),
   half |-> 2^(RoundShift(am) - 1)]

Round(am, up) ==
  LET r == CutOff(am).m + IF up THEN 1 ELSE 0
  IN IF IsSubnormal(am) THEN Adjusted(r, IF r < Hidden THEN 0 ELSE 1)
     ELSE Normal(r, am.power2 + RoundShift(am))

\* hi64 and bit_length of the big integer decide.
PositiveDigitComp(digits, exponent) ==
  LET n == NumberOf(digits) * 10^exponent
      cut == BitLength(n) - WordBits
      truncated == cut > 0 /\ n % 2^Max({cut, 0}) # 0
      high == IF cut > 0 THEN n \div 2^cut ELSE n * 2^(-cut)
      am == Adjusted(high, cut + MantissaBits - MinExponent)
      off == CutOff(am)
  IN Round(am, off.low > off.half \/ (off.low = off.half /\ (truncated \/ off.m % 2 = 1)))

\* The digits are compared with the number halfway between two floats.
NegativeDigitComp(digits, am, exponent) ==
  LET below == ToExtended(ToFloat(Round(am, FALSE)))
      pow2 == below.e - 1 - exponent
      theor == (2 * below.m + 1) * 5^(-exponent) * 2^Max({pow2, 0})
      real == NumberOf(digits) * 2^Max({-pow2, 0})
  IN Round(am, real > theor \/ (real = theor /\ CutOff(am).m % 2 = 1))

DigitComp(num, am) ==
  LET digits == ParseMantissa(num.digits)
      exponent == ScientificExponent(num) + 1 - Len(digits)
  IN IF exponent >= 0 THEN PositiveDigitComp(digits, exponent)
     ELSE NegativeDigitComp(digits, am, exponent)

-----------------------------------------------------------------------------
(* from_chars and deserialize<double>. *)

Float(negative, bits) == [negative |-> negative, bits |-> bits]
Result(ec, ptr, value) == [ec |-> ec, ptr |-> ptr, value |-> value]
Unset == "unset"

SameLetters(text, i, word) ==
  \A k \in 1..Len(word) : i + k - 1 \in DOMAIN text /\ text[i + k - 1] \in {word[k], word[k] - 32}

Nan == <<110, 97, 110>>
Inf == <<105, 110, 102>>
Infinite == Inf \o <<105, 110, 105, 116, 121>>

\* The end of "nan(...)", if the parenthesis holds letters, digits and _ only.
NanEnd(text, i) ==
  LET inside == {k \in i..Len(text) :
                   /\ text[i] = Parenthesis - 1 /\ text[k] = Parenthesis
                   /\ \A j \in (i + 1)..(k - 1) :
                        text[j] \in (48..57) \cup (65..90) \cup (97..122) \cup {95}}
  IN IF inside = {} THEN i ELSE Min(inside) + 1

\* Mutant of ParseInfnan: the sign is not skipped.
ParseInfnanUnsigned(text) ==
  CASE SameLetters(text, 1, Nan) -> Result("ok", NanEnd(text, 4), Float(FALSE, NotANumber))
    [] SameLetters(text, 1, Inf) -> Result("ok", 4, Float(FALSE, Infinity))
    [] OTHER -> Result("invalid_argument", 1, Unset)

ParseInfnan(text) ==
  LET negative == text[1] = Minus
      i == IF negative THEN 2 ELSE 1
  IN CASE SameLetters(text, i, Nan) -> Result("ok", NanEnd(text, i + 3), Float(negative, NotANumber))
       [] SameLetters(text, i, Inf) ->
            Result("ok", i + IF SameLetters(text, i, Infinite) THEN 8 ELSE 3, Float(negative, Infinity))
       [] OTHER -> Result("invalid_argument", 1, Unset)

\* max_mantissa_fast_path: up to here integers are floats.
MaxMantissaFast == 2 * Hidden

\* Clinger's fast path.
FastPath(pns) ==
  IF pns.exponent < 0
  THEN Over(FromInteger(pns.mantissa), FromInteger(10^(-pns.exponent)))
  ELSE Times(FromInteger(pns.mantissa), FromInteger(10^pns.exponent))

\* compute_float, and where the digits left out decide, digit_comp.
SlowPath(pns) ==
  IF pns.tooManyDigits
     /\ ComputeFloat(pns.exponent, pns.mantissa) # ComputeFloat(pns.exponent, pns.mantissa + 1)
  THEN DigitComp(pns, ComputeError(pns.exponent, pns.mantissa))
  ELSE ComputeFloat(pns.exponent, pns.mantissa)

UsesFastPath(pns) ==
  /\ pns.exponent \in (-FastPower)..FastPower
  /\ ~pns.tooManyDigits /\ pns.mantissa <= MaxMantissaFast

\* The result of the slow path, and whether it has left the range of floats.
FromMantissa(pns, am) ==
  LET outOfRange == (pns.mantissa # 0 /\ ToFloat(am) = 0) \/ am.power2 = InfinitePower
  IN Result(IF outOfRange THEN "result_out_of_range" ELSE "ok",
            pns.lastmatch, Float(pns.negative, ToFloat(am)))

FromCharsAdvanced(text, pns) ==
  CASE ~pns.valid -> ParseInfnan(text)
    [] pns.valid /\ UsesFastPath(pns) ->
         Result("ok", pns.lastmatch, Float(pns.negative, FastPath(pns)))
    [] OTHER -> FromMantissa(pns, SlowPath(pns))

FromChars(text) ==
  IF text = <<>> THEN Result("invalid_argument", 1, Unset)
  ELSE FromCharsAdvanced(text, ParseNumberString(text))

Floats == [negative : BOOLEAN, bits : 0..(Infinity + Hidden - 1)]

\* The error code is not looked at; what from_chars does not set is whatever the
\* stack held.
Stored(result) == IF result.ec = "invalid_argument" THEN Floats ELSE {result.value}

Deserialize(text) == Stored(FromChars(text))

-----------------------------------------------------------------------------
(* What the results are compared with. *)

\* The float nearest to n * 10^q.  Outside the powers of the table the size of n
\* alone shows that it is infinite or zero.
Rounded(n, q) ==
  LET magnitude == DecimalLength(n) + q
  IN CASE n = 0 -> 0
       [] n # 0 /\ magnitude > LargestPower + 1 -> Infinity
       [] n # 0 /\ magnitude < WordDigits + SmallestPower -> 0
       [] OTHER -> Nearest(n * 5^Max({q, 0}), 5^Max({-q, 0}), q)

\* A number: digits with at most one point, and perhaps an exponent.
IsFixed(u) ==
  /\ \E k \in DOMAIN u : IsInteger(u[k])
  /\ \A j, k \in DOMAIN u : ~IsInteger(u[j]) /\ ~IsInteger(u[k]) => j = k /\ u[k] = Point

IsExponent(u) ==
  /\ Len(u) > 1 /\ u[1] \in {SmallE, SmallE - 32}
  /\ LET v == IF u[2] \in {Minus, Plus} THEN SubSeq(u, 3, Len(u)) ELSE Tail(u)
     IN v # <<>> /\ \A k \in DOMAIN v : IsInteger(v[k])

Unsigned(text) == IF text # <<>> /\ text[1] = Minus THEN Tail(text) ELSE text

\* Where the fixed part of a number ends, for each way to read it from the start.
FixedParts(u) == {k \in DOMAIN u : IsFixed(SubSeq(u, 1, k))}
Exponents(u, k) == {j \in k..Len(u) : j > k /\ IsExponent(SubSeq(u, k + 1, j))}

IsNumber(text) == FixedParts(Unsigned(text)) # {}

\* The longest number at the start of a text: its float, and where it ends.
ValueOf(text) ==
  LET u == Unsigned(text)
      k == Max(FixedParts(u))
      j == Max({k} \cup Exponents(u, k))
      fixed == SubSeq(u, 1, k)
      digits == [i \in 1..Len(SelectSeq(fixed, IsInteger)) |-> SelectSeq(fixed, IsInteger)[i] - 48]
      places == Cardinality({i \in DOMAIN fixed : IsInteger(fixed[i])
                                                 /\ \E h \in 1..i : fixed[h] = Point})
      size == NumberOf(SelectSeq([i \in 1..(j - k) |-> u[k + i] - 48], LAMBDA d : d \in 0..9))
      power == IF Minus \in {u[i] : i \in (k + 1)..j} THEN -size ELSE size
  IN [value |-> Float(u # text, Rounded(NumberOf(digits), power - places)),
      ptr |-> j + 1 + (Len(text) - Len(u))]
=============================================================================
