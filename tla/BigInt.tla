------------------------------- MODULE BigInt --------------------------------
(***************************************************************************)
(* The big integers that fast_float falls back on when the digits of a     *)
(* decimal do not fit a word (digit_comp): bigint and its stackvec, a      *)
(* sequence of limbs, the least significant first, of bounded length.      *)
(* Operations carry from limb to limb and fail when the result would not   *)
(* fit.  The limb of a 64-bit machine is as wide as a word.                *)
(***************************************************************************)
EXTENDS Integers, Sequences, SequencesExt

CONSTANTS LimbBits,    \* limb_bits
          Limbs,       \* bigint_limbs
          SmallStep,   \* small_step: 5^SmallStep fits a limb
          LargeStep    \* large_step: 5^LargeStep needs several limbs

Limb == 2^LimbBits

\* What a vector stands for.
Value(vec) == FoldRight(LAMBDA x, n : n * Limb + x, vec, 0)

\* What an operation leaves: FASTFLOAT_TRY returns at the first one that fails.
Ok(vec) == [ok |-> TRUE, vec |-> vec]
Failed(vec) == [ok |-> FALSE, vec |-> vec]
Try(result, Op(_)) == IF result.ok THEN Op(result.vec) ELSE result
Repeat(n, result, Op(_)) ==
  FoldLeft(LAMBDA r, i : Try(r, Op), result, [i \in 1..n |-> i])

-----------------------------------------------------------------------------
(* stackvec. *)

TryPush(vec, x) == IF Len(vec) < Limbs THEN Ok(Append(vec, x)) ELSE Failed(vec)

\* Called with lengths that are not smaller only.
TryResize(vec, n) ==
  IF n > Limbs THEN Failed(vec)
  ELSE Ok([i \in 1..n |-> IF i <= Len(vec) THEN vec[i] ELSE 0])

\* Whether a limb is not zero, from the index-th on, counted from the top.
Nonzero(vec, index) == \E i \in 1..(Len(vec) - index) : vec[i] # 0

\* The most significant limb is not zero.
Normalize(vec) ==
  SubSeq(vec, 1, CHOOSE n \in 0..Len(vec) :
                   (n > 0 => vec[n] # 0) /\ \A i \in (n + 1)..Len(vec) : vec[i] = 0)

-----------------------------------------------------------------------------
(* Arithmetic of limbs and of vectors. *)

ScalarAdd(x, y) == [z |-> (x + y) % Limb, overflow |-> (x + y) % Limb < x]

ScalarMul(x, y, carry) == [z |-> (x * y + carry) % Limb, carry |-> (x * y + carry) \div Limb]

PushCarry(a) == IF a.carry = 0 THEN Ok(a.vec) ELSE TryPush(a.vec, a.carry)

SmallAddFrom(vec, y, start) ==
  LET Add(a, i) == LET s == ScalarAdd(a.vec[i], a.carry)
                   IN [vec |-> [a.vec EXCEPT ![i] = s.z], carry |-> IF s.overflow THEN 1 ELSE 0]
  IN PushCarry(FoldLeft(LAMBDA a, i : IF a.carry = 0 THEN a ELSE Add(a, i),
                        [vec |-> vec, carry |-> y], [k \in 1..(Len(vec) - start) |-> start + k]))

SmallMul(vec, y) ==
  LET Mul(a, x) == LET s == ScalarMul(x, y, a.carry)
                   IN [vec |-> Append(a.vec, s.z), carry |-> s.carry]
  IN PushCarry(FoldLeft(Mul, [vec |-> <<>>, carry |-> 0], vec))

\* Mutant of LargeAddFrom: the carry out of the last limb of y is dropped.
LargeAddFromDropping(x, y, start) ==
  LET AddAt(a, k) ==
        LET s == ScalarAdd(a.vec[start + k], y[k])
            t == ScalarAdd(s.z, IF a.carry THEN 1 ELSE 0)
        IN [vec |-> [a.vec EXCEPT ![start + k] = t.z], carry |-> s.overflow \/ t.overflow]
      Add(vec) == Ok(FoldLeft(AddAt, [vec |-> vec, carry |-> FALSE], [k \in DOMAIN y |-> k]).vec)
  IN Try(IF Len(y) + start > Len(x) THEN TryResize(x, Len(y) + start) ELSE Ok(x), Add)

\* Two additions per limb, of which at most one overflows.
LargeAddFrom(x, y, start) ==
  LET AddAt(a, k) ==
        LET s == ScalarAdd(a.vec[start + k], y[k])
            t == ScalarAdd(s.z, IF a.carry THEN 1 ELSE 0)
        IN [vec |-> [a.vec EXCEPT ![start + k] = t.z], carry |-> s.overflow \/ t.overflow]
      Add(vec) ==
        LET a == FoldLeft(AddAt, [vec |-> vec, carry |-> FALSE], [k \in DOMAIN y |-> k])
        IN IF a.carry THEN SmallAddFrom(a.vec, 1, Len(y) + start) ELSE Ok(a.vec)
  IN Try(IF Len(y) + start > Len(x) THEN TryResize(x, Len(y) + start) ELSE Ok(x), Add)

\* Grade-school multiplication, skipping the limbs of y that are zero.
LongMul(x, y) ==
  LET AddPartial(r, index) ==
        Try(r, LAMBDA sum :
          IF y[index] = 0 THEN Ok(sum)
          ELSE Try(SmallMul(x, y[index]), LAMBDA zi : LargeAddFrom(sum, zi, index - 1)))
      product == IF y = <<>> THEN Ok(x)
                 ELSE FoldLeft(AddPartial, SmallMul(x, y[1]), [k \in 1..(Len(y) - 1) |-> k + 1])
  IN Try(product, LAMBDA vec : Ok(Normalize(vec)))

LargeMul(x, y) == IF Len(y) = 1 THEN SmallMul(x, y[1]) ELSE LongMul(x, y)

-----------------------------------------------------------------------------
(* bigint. *)

\* bigint(value), for a value that fits a limb.
New(n) == Normalize(<<n>>)

\* 5^LargeStep, in the limbs of the table.
LargePowerOfFive ==
  LET n == 5^LargeStep
  IN Normalize([i \in 1..Limbs |-> (n \div Limb^(i - 1)) % Limb])

\* pow5: in large steps, in small ones, and with what remains.
Pow5(vec, exp) ==
  LET rest == exp % LargeStep
      large == Repeat(exp \div LargeStep, Ok(vec), LAMBDA v : LargeMul(v, LargePowerOfFive))
      small == Repeat(rest \div SmallStep, large, LAMBDA v : SmallMul(v, 5^SmallStep))
  IN IF rest % SmallStep = 0 THEN small
     ELSE Try(small, LAMBDA v : SmallMul(v, 5^(rest % SmallStep)))

\* For 0 < n < LimbBits.
ShlBits(vec, n) ==
  LET High(i) == IF i = 0 THEN 0 ELSE vec[i] \div 2^(LimbBits - n)
  IN PushCarry([vec |-> [i \in DOMAIN vec |-> ((vec[i] * 2^n) % Limb) + High(i - 1)],
                carry |-> High(Len(vec))])

ShlLimbs(vec, n) ==
  CASE n + Len(vec) > Limbs -> Failed(vec)
    [] n + Len(vec) <= Limbs /\ vec = <<>> -> Ok(vec)
    [] OTHER -> Ok([i \in 1..n |-> 0] \o vec)

\* pow2.
Shl(vec, n) ==
  LET bits == IF n % LimbBits = 0 THEN Ok(vec) ELSE ShlBits(vec, n % LimbBits)
  IN IF n \div LimbBits = 0 THEN bits ELSE Try(bits, LAMBDA v : ShlLimbs(v, n \div LimbBits))

Pow10(vec, exp) == Try(Pow5(vec, exp), LAMBDA v : Shl(v, exp))

\* add_native: the digits so far, times a power of ten, plus the next digits.
AddNative(vec, power, n) == Try(SmallMul(vec, power), LAMBDA v : SmallAddFrom(v, n, 0))

LeadingZeroes(x) == CHOOSE n \in 0..LimbBits : x * 2^n < Limb /\ (n = LimbBits \/ x * 2^(n + 1) >= Limb)

\* ctlz and bit_length.
BitLength(vec) == IF vec = <<>> THEN 0 ELSE LimbBits * Len(vec) - LeadingZeroes(Last(vec))

\* The most significant bits, and whether others follow that are not all zero.
Hi64(vec) ==
  LET n == Len(vec)
      shl == LeadingZeroes(vec[n])
      next == IF n = 1 THEN 0 ELSE vec[n - 1]
  IN IF n = 0 THEN [bits |-> 0, truncated |-> FALSE]
     ELSE [bits |-> vec[n] * 2^shl + next \div 2^(LimbBits - shl),
           truncated |-> (next * 2^shl) % Limb # 0 \/ Nonzero(vec, 2)]

\* 1, 0 or -1: the longer vector, then the first limb from the top that differs.
Compare(x, y) ==
  LET differing == {i \in DOMAIN x : x[i] # y[i]}
      top == CHOOSE i \in differing : \A j \in differing : j <= i
  IN CASE Len(x) # Len(y) -> IF Len(x) > Len(y) THEN 1 ELSE -1
       [] Len(x) = Len(y) /\ differing = {} -> 0
       [] OTHER -> IF x[top] > y[top] THEN 1 ELSE -1

-----------------------------------------------------------------------------
Vector(n) == Normalize([i \in 1..Limbs |-> (n \div Limb^(i - 1)) % Limb])

\* An operation on naturals, done on limbs: it has the exact result, or fails
\* because that does not fit.
Exact(result, n) ==
  IF n < Limb^Limbs THEN result = Ok(Vector(n)) ELSE ~result.ok
=============================================================================
