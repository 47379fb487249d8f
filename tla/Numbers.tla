------------------------------- MODULE Numbers -------------------------------
(* Two registers that run through all integers of two words, each by the     *)
(* operation of the code that adds one to it: whatever a program computes is *)
(* computed from two such integers. The operations are compared with         *)
(* arithmetic on numbers.                                                    *)
EXTENDS Floats, Random, FiniteSets, FiniteSetsExt

CONSTANTS
    DoubleFraction, DoubleBits,  \* of a double: 52 and 64
    SingleFraction, SingleBits   \* of a float: 23 and 32

Double == [fraction |-> DoubleFraction, bits |-> DoubleBits]
Single == [fraction |-> SingleFraction, bits |-> SingleBits]

\* A number of the format fits a word, and the bits that it is rounded by are below its fraction.
IsFormat(format) ==
    /\ format.bits \in 2..WordBits /\ format.fraction \in 0..(format.bits - 1)
    /\ format.fraction + format.bits < 2 * WordBits

\* Half a word that counts in the rounding of a double is below its first bit.
ASSUME FormatsAssumption == IsFormat(Double) /\ IsFormat(Single) /\ WordBits \div 2 < DoubleBits

VARIABLES x, y

vars == <<x, y>>

Next1 == gp_uint128_add(x, gp_uint128(0, 1))
Next2 == gp_uint128_add(y, gp_uint128(0, 1))

Init == x = Zero /\ y = Zero

CountX == x' = Next1 /\ y' = y
CountY == x = Zero /\ y' = Next2 /\ x' = x

Next == CountX \/ CountY

Spec == Init /\ [][Next]_vars

(***************************************************************************)
(* What the integers stand for                                             *)
(***************************************************************************)
Size == Base * Base

Value(a) == Hi(a) * Base + Lo(a)
SignedValue(a) == IF 2 * Value(a) >= Size THEN Value(a) - Size ELSE Value(a)

Stored(v) == <<(v % Size) \div Base, v % Base>>

Abs(v) == IF v < 0 THEN -v ELSE v
SignOf(v) == IF v < 0 THEN -1 ELSE 1

\* Quotients of C are truncated.
Quotient(v, w) == SignOf(v) * SignOf(w) * (Abs(v) \div Abs(w))

(***************************************************************************)
(* Properties                                                              *)
(***************************************************************************)
\* Sums, differences, products, shifts and comparisons of integers in two words are those of the
\* numbers, modulo the range of the type: carries, borrows, the products of halves of words and the
\* bits that cross from word to word are never lost, for every count of a shift below the width of
\* the type (src/include/gpc/int128.h and src/src/int128.c, gp_uint128_long_mul64).
ArithmeticAgrees ==
    LET v == Value(x)  w == Value(y)  sv == SignedValue(x)  sw == SignedValue(y)
    IN  /\ gp_uint128_add(x, y) = Stored(v + w)
        /\ gp_uint128_sub(x, y) = Stored(v - w)
        /\ gp_uint128_negate(x) = Stored(-v)
        /\ gp_uint128_mul(x, y) = Stored(v * w)
        /\ gp_uint128_long_mul64(Lo(x), Lo(y)) = Stored(Lo(x) * Lo(y))
        /\ gp_int128_mul64(Lo(x), Lo(y)) = Stored(Signed(Lo(x)) * Signed(Lo(y)))
        /\ gp_uint128_i64(Lo(x)) = Stored(Signed(Lo(x)))
        /\ gp_uint128_not(x) = Stored(-1 - v)
        /\ gp_uint128_add(gp_uint128_or(x, y), gp_uint128_and(x, y)) = Stored(v + w)
        /\ gp_uint128_sub(gp_uint128_or(x, y), gp_uint128_and(x, y)) = gp_uint128_xor(x, y)
        /\ gp_uint128_equal(x, y) = (v = w)
        /\ gp_uint128_not_equal(x, y) = (v # w)
        /\ gp_uint128_greater_than(x, y) = (v > w)
        /\ gp_uint128_less_than(x, y) = (v < w)
        /\ gp_uint128_greater_than_equal(x, y) = (v >= w)
        /\ gp_uint128_less_than_equal(x, y) = (v <= w)
        /\ gp_int128_greater_than(x, y) = (sv > sw)
        /\ gp_int128_less_than(x, y) = (sv < sw)
        /\ gp_int128_greater_than_equal(x, y) = (sv >= sw)
        /\ gp_int128_less_than_equal(x, y) = (sv <= sw)
        /\ \A n \in 0..(2 * WordBits - 1) :
            /\ gp_uint128_shift_left(x, n) = Stored(v * PowerOfTwo[n])
            /\ gp_uint128_shift_right(x, n) = Stored(v \div PowerOfTwo[n])
            /\ gp_int128_shift_right(x, n) = Stored(sv \div PowerOfTwo[n])

\* Division finds the quotient and remainder of the numbers in each of its cases, of signed
\* integers as C truncates them; the quotient of the least integer by -1 has no value
\* (src/src/int128.c, gp_uint128_divmod, gp_int128_idiv and gp_int128_imod).
DivisionAgrees ==
    LET v == Value(x)  w == Value(y)  sv == SignedValue(x)  sw == SignedValue(y)
    IN  y # Zero =>
        /\ gp_uint128_divmod(x, y) = Results(Stored(v \div w), Stored(v % w))
        /\ ~(2 * v = Size /\ sw = -1) =>
           /\ gp_int128_idiv(x, y) = Stored(Quotient(sv, sw))
           /\ gp_int128_imod(x, y) = Stored(sv - sw * Quotient(sv, sw))

\* f is as near to v as any number of the format; the code rounds up what is halfway.
Nearest(format, f, v) ==
    LET unit == PowerOfTwo[f.exponent - format.fraction]
    IN  2 * Abs(FractionBits(format, f) * unit - v) <= unit

\* A conversion to floating point is as near as any number of the format, and a conversion to an
\* integer loses only what is below one, whatever the exponent up to that of the largest unsigned
\* integer, modulo the range of the type. Integers of one word are left out of the first, and floating
\* point numbers below 2 of the signed ones: those from 1 are converted to 0.
ConversionsAgree ==
    LET v == Value(x)
    IN  /\ Hi(x) # 0 =>
            /\ Nearest(Double, gp_f64_convert_uint128(Double, x), v)
            /\ Nearest(Single, gp_f32_convert_uint128(Single, x), v)
        /\ Abs(SignedValue(x)) >= Base =>
            LET f == gp_f64_convert_int128(Double, x)
                s == gp_f32_convert_int128(Single, x)
            IN  /\ f.sign = Negative(x) /\ Nearest(Double, f, Abs(SignedValue(x)))
                /\ s.sign = Negative(x) /\ Nearest(Single, s, Abs(SignedValue(x)))
        /\ \A format \in {Double, Single}, e \in (-1)..(2 * WordBits - 1) :
            LET f == Float(FALSE, e, v % PowerOfTwo[format.fraction])
                scaled == FractionBits(format, f) * PowerOfTwo[e + 1]
            IN  /\ gp_uint128_convert(format, f) = Stored(scaled \div PowerOfTwo[format.fraction + 1])
                /\ e > 0 =>
                    /\ gp_int128_convert(format, f) = Stored(scaled \div PowerOfTwo[format.fraction + 1])
                    /\ gp_int128_convert(format, Negated(f)) = Stored(-(scaled \div PowerOfTwo[format.fraction + 1]))

\* What a number of draws from a stream come to, halved so that the recursion is not deep
Draws(Draw(_), rng, n) ==
    LET stream[p \in [rng : Rngs, n : Nat]] ==
            IF p.n = 1
            THEN LET drawn == Draw(p.rng) IN [draws |-> <<drawn.value>>, rng |-> drawn.rng]
            ELSE LET first  == stream[[p EXCEPT !.n = @ \div 2]]
                     second == stream[[rng |-> first.rng, n |-> p.n - p.n \div 2]]
                 IN  [draws |-> first.draws \o second.draws, rng |-> second.rng]
    IN  stream[[rng |-> rng, n |-> n]].draws

HowOften(draws, value) == Cardinality({i \in DOMAIN draws : draws[i] = value})

\* What the code promises of its random numbers: every stream meets every word equally often in its
\* period, however it is seeded, a bound or a range divides them equally for every bound that a word
\* holds, and the flips of a coin use every bit of a word once. The draws under a bound are a whole
\* number of periods only for powers of two: of the others, the words that are kept are counted
\* (src/src/utils.c, gp_random, gp_random_bound and gp_random_range).
DrawsAreFair ==
    LET seeded == gp_random_state_seed(Value(x), Value(y))
        period == Draws(gp_random, seeded, StateSize)
    IN  x = Zero =>
        /\ \A w \in Words : HowOften(period, w) = Base
        /\ LET flips == Draws(Flip, seeded, WordBits)
           IN  gp_random(seeded).value = MapThenSumSet(LAMBDA i : flips[i] * PowerOfTwo[i - 1], 1..WordBits)
        /\ LET bound == Lo(y)
               kept == {w \in Words : w >= Threshold(bound)}
           IN  bound # 0 => \A r \in 0..(bound - 1) :
                   Cardinality({w \in kept : w % bound = r}) * bound = Cardinality(kept)
        /\ \A min, max \in (-(Base \div 2))..((Base \div 2) - 1) : min < max =>
                gp_random_range(seeded, min, max).value \in min..(max - 1)

=============================================================================
