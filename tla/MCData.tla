------------------------------- MODULE MCData --------------------------------
(***************************************************************************)
(* The data of a transfer: one buffer on its way (BufferPath, with the     *)
(* constants of the cfg), the text of double fields, as FastFloat reads it *)
(* in two small formats with the big integers of BigInt, and the report    *)
(* that Metrics makes.  The case chosen at the start, which, says what is  *)
(* looked at.                                                              *)
(*                                                                         *)
(* The schemas fill a buffer of 18 bytes exactly (STRING(2) with INT or    *)
(* INT with STRING(2), three tuples) or do not: INT, CHAR with STRING(4),  *)
(* DOUBLE with INT (one tuple, so that an Arrow batch is never full), one  *)
(* with a wrong size.  A string may end in the field behind it, or one or  *)
(* two tuples further on.                                                  *)
(***************************************************************************)
EXTENDS BufferPath

VARIABLES which, text, decimal, now, pts, state, queueSizes

Integer == [tpe |-> "I", size |-> 4]
String(n) == [tpe |-> "S", size |-> n]

MCSchemas ==
  {<<Integer>>, <<String(2), Integer>>, <<Integer, String(2)>>,
   <<[tpe |-> "C", size |-> 1], String(4)>>, <<[tpe |-> "D", size |-> 8], Integer>>,
   <<[tpe |-> "I", size |-> 3], Integer>>}

\* A format with six-bit floats: the constants are to it what those of double are
\* to 64 bits.
Tiny == INSTANCE FastFloat WITH
  WordBits <- 8, MantissaBits <- 2, MinExponent <- -3, InfinitePower <- 13,
  SmallestPower <- -3, LargestPower <- 2, MinRoundToEven <- -2, MaxRoundToEven <- 1,
  FastPower <- 1, WordDigits <- 2, MaxDigits <- 6, ExponentCap <- 10

\* One more bit in the word and in the significand.
Small == INSTANCE FastFloat WITH
  WordBits <- 9, MantissaBits <- 3, MinExponent <- -3, InfinitePower <- 13,
  SmallestPower <- -4, LargestPower <- 2, MinRoundToEven <- -2, MaxRoundToEven <- 2,
  FastPower <- 1, WordDigits <- 2, MaxDigits <- 7, ExponentCap <- 10

\* Integers of up to 20 bits: 5^2 fits a limb, 5^3 does not.
Big == INSTANCE BigInt WITH LimbBits <- 5, Limbs <- 4, SmallStep <- 2, LargeStep <- 3

\* Two compressors, with one push for each pop.
Alike == INSTANCE Metrics WITH
  Components <- [comp |-> 2], Style <- [comp |-> "plain"], Delays <- {1, 2}, StartTime <- 5,
  MaxEvents <- 8, SampleSizes <- {0, 1}, MaxSamples <- 2

\* A sender, which records the pop of its sentinel, and a deserializer.
Mixed == INSTANCE Metrics WITH
  Components <- [send |-> 1, deser |-> 1], Style <- [send |-> "sentinel", deser |-> "recut"],
  Delays <- {1, 2}, StartTime <- 5, MaxEvents <- 6, SampleSizes <- {0}, MaxSamples <- 0

-----------------------------------------------------------------------------
MaxLength == 5

\* 0 1 5 9 - + . e
Alphabet == {48, 49, 53, 57, Tiny!Minus, Tiny!Plus, Tiny!Point, Tiny!SmallE}

\* What follows inf and nan: y ( 1 ) .
Endings == {121, 40, 49, 41, Tiny!Point}

Codes(n) == [i \in 1..Tiny!DecimalLength(n) |->
             48 + ((n \div 10^(Tiny!DecimalLength(n) - i)) % 10)]

\* Decimals halfway between two floats, and just beside, with more digits than
\* digit_comp keeps.
Halfways ==
  LET Half(b) == Tiny!ToExtended(b)
      Digits(b) == (2 * Half(b).m + 1) * IF Half(b).e <= 0 THEN 5^(1 - Half(b).e) ELSE 2^(Half(b).e - 1)
      Places(b) == IF Half(b).e <= 0 THEN 1 - Half(b).e ELSE 0
  IN {Codes(Digits(b) + below) \o end \o <<Tiny!SmallE, Tiny!Minus, 48 + Places(b) + Len(end)>> :
         b \in 0..(Tiny!Infinity - 1), below \in {0, -1},
         end \in {<<>>, <<48>>, <<49>>, <<48, 48>>, <<48, 49>>, <<57, 57>>, <<48, 48, 49>>}}

Words == {Tiny!Nan, <<78, 97, 78>>, <<Tiny!Minus>> \o Tiny!Inf, SubSeq(Tiny!Infinite, 1, 7)}

\* Integers at and around the borders of limbs, and others in between.
Magnitudes == {n \in 1..(2^20 - 1) : n < 140 \/ n % 1024 \in {0, 1, 31, 992, 1023} \/ n % 997 = 0}

\* Nothing is read and nothing reported.
Idle == Alike!Init /\ text = <<>> /\ decimal = <<0, 0>>

\* A buffer that stays empty.
Resting == /\ Init
           /\ env = [source |-> "csv", iformat |-> 1, clientFormat |-> 1, schema |-> <<Integer>>,
                     method |-> "nocomp", clientBytes |-> BufferBytes]

MCInit ==
  \/ which = "buffer" /\ Init /\ Idle
  \/ which \in {"text", "alike"} /\ Resting /\ Idle
  \/ which = "mixed" /\ Resting /\ Mixed!Init /\ text = <<>> /\ decimal = <<0, 0>>
  \/ which \in {"halfway", "word"} /\ Resting /\ Alike!Init /\ decimal = <<0, 0>>
     /\ text \in IF which = "word" THEN Words ELSE Halfways
  \/ which = "decimal" /\ Resting /\ Alike!Init /\ text = <<>> /\ decimal \in (0..511) \X (-5..3)
  \/ which = "integer" /\ Resting /\ Alike!Init /\ text = <<>> /\ decimal \in Magnitudes \X {0}

\* The text of a field grows by a character.
Type ==
  /\ \/ which = "text" /\ Len(text) < MaxLength /\ \E c \in Alphabet : text' = Append(text, c)
     \/ which = "word" /\ Len(text) < 9 /\ \E c \in Endings : text' = Append(text, c)
  /\ UNCHANGED <<vars, decimal, now, pts, state, queueSizes>>

MCNext ==
  /\ UNCHANGED which
  /\ \/ which = "buffer" /\ Next /\ UNCHANGED <<text, decimal, now, pts, state, queueSizes>>
     \/ Type
     \/ which = "alike" /\ Alike!Next /\ UNCHANGED <<vars, text, decimal>>
     \/ which = "mixed" /\ Mixed!Next /\ UNCHANGED <<vars, text, decimal>>

MCSpec == MCInit /\ [][MCNext]_<<vars, which, text, decimal, now, pts, state, queueSizes>>

-----------------------------------------------------------------------------
\* The product with the truncated power of five is precise enough: compute_float
\* returns the nearest float, ties to even, of every word times a power of ten.
ProductSuffices ==
  which = "decimal" =>
    /\ decimal[1] < Tiny!Word =>
         Tiny!ToFloat(Tiny!ComputeFloat(decimal[2], decimal[1])) = Tiny!Rounded(decimal[1], decimal[2])
    /\ Small!ToFloat(Small!ComputeFloat(decimal[2], decimal[1])) = Small!Rounded(decimal[1], decimal[2])

\* The big integers of digit_comp are exact: what pow5, pow2, pow10, add_native and
\* large_mul do limb by limb is multiplication, shift and addition of numbers, or
\* fails because the result does not fit; bit_length, hi64 and compare see the number.
BigIntExact ==
  which = "integer" =>
    LET n == decimal[1]
        vec == Big!Vector(n)
        cut == Big!BitLength(vec) - 5
    IN /\ \A e \in 0..4 : Big!Exact(Big!Pow5(vec, e), n * 5^e)
       /\ \A e \in 0..10 : Big!Exact(Big!Shl(vec, e), n * 2^e)
       /\ Big!Exact(Big!Pow10(vec, 3), n * 1000)
       /\ \A d \in {0, 9, 31} : Big!Exact(Big!AddNative(vec, 10, d), n * 10 + d)
       /\ \A y \in {31, 32, 993, 1023, 1024} : Big!Exact(Big!LargeMul(vec, Big!Vector(y)), n * y)
       /\ Big!BitLength(vec) = Tiny!BitLength(n)
       /\ Big!Hi64(vec) = IF cut > 0 THEN [bits |-> n \div 2^cut, truncated |-> n % 2^cut # 0]
                          ELSE [bits |-> n * 2^(-cut), truncated |-> FALSE]
       /\ \A m \in {1, n - 1, n, n + 1, n + 31, n \div 2, 1024} :
            m \in 0..(2^20 - 1) =>
              Big!Compare(vec, Big!Vector(m)) = IF n > m THEN 1 ELSE IF n = m THEN 0 ELSE -1

\* from_chars takes the longest number its field starts with (an e without digits
\* and a second point end it), and deserialize<double> stores the float nearest to
\* it, whichever of the three paths of from_chars computes it, also when the
\* number lies next to a halfway point by digits that do not fit a word.
FieldsRoundToNearest ==
  Tiny!IsNumber(text) =>
    /\ Tiny!Deserialize(text) = {Tiny!ValueOf(text).value}
    /\ Tiny!FromChars(text).ptr = Tiny!ValueOf(text).ptr

\* deserialize<double> stores what was on its stack only for a field that starts
\* neither with a number nor with inf or nan (an empty field, say).
GarbageOnlyFromOthers ==
  Tiny!Deserialize(text) = Tiny!Floats <=>
    /\ ~Tiny!IsNumber(text)
    /\ \A w \in {Tiny!Nan, Tiny!Inf} : ~Tiny!SameLetters(Tiny!Unsigned(text), 1, w)

\* The times of a report add up (calculate_metrics).
ReportAddsUp == (which = "alike" => Alike!TimesAddUp) /\ (which = "mixed" => Mixed!TimesAddUp)
=============================================================================
