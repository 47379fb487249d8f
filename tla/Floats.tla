-------------------------------- MODULE Floats --------------------------------
(* Conversions between integers of two words and floating point numbers of   *)
(* src/src/int128.c, made from the bits of the number. A format is           *)
(* [fraction |-> bits of the fraction, bits |-> bits of the whole number]; a *)
(* number is [sign, exponent, fraction], its exponent without the bias.      *)
EXTENDS Int128

Float(sign, exponent, fraction) == [sign |-> sign, exponent |-> exponent, fraction |-> fraction]

\* The fraction and its implicit 1
FractionBits(format, f) == f.fraction + PowerOfTwo[format.fraction]

\* The assertions of the code stop what is not a number, an infinity and what is too large.
Magnitude(format, f) ==
    IF f.exponent > format.fraction
    THEN gp_uint128_shift_left(gp_uint128(0, FractionBits(format, f)), f.exponent - format.fraction)
    ELSE gp_uint128(0, Right(FractionBits(format, f), format.fraction - f.exponent))

\* gp_uint128_convert_f64() and gp_uint128_convert_f32()
gp_uint128_convert(format, f) == IF f.exponent < 0 THEN Zero ELSE Magnitude(format, f)

\* gp_int128_convert_f64() and gp_int128_convert_f32()
gp_int128_convert(format, f) ==
    IF f.exponent <= 0 THEN Zero
    ELSE IF f.sign THEN gp_uint128_negate(Magnitude(format, f))
    ELSE Magnitude(format, f)

\* The slip loses the mantissa's overflow.
Rounded_NoCarry(format, a, b, n) ==
    LET m == a + Right(b - (Right(b, format.bits - 1) & One(a = 0)), format.bits - 1)
    IN  Float(FALSE, 2 * WordBits - 1 - n, m % PowerOfTwo[format.fraction])

\* One is added to the significant bits by the insignificant ones below them when these are half or
\* more; the mantissa may overflow into the exponent.
Rounded(format, a, b, n) ==
    LET m == a + Right(b - (Right(b, format.bits - 1) & One(a = 0)), format.bits - 1)
    IN  Float(FALSE, 2 * WordBits - 2 - n + (m \div PowerOfTwo[format.fraction]), m % PowerOfTwo[format.fraction])

\* The bits of y that are significant, and those next to them
Significant(format, y) == Lo(gp_uint128_shift_right(y, 2 * WordBits - 1 - format.fraction))
NextBits(format, y) == Lo(gp_uint128_shift_right(y, 2 * WordBits - 1 - format.fraction - format.bits)) % PowerOfTwo[format.bits]

\* An integer with a high word; one without is converted by the compiler.
gp_f64_convert_uint128(format, x) ==
    LET n == gp_leading_zeros_u64(Hi(x))
        y == gp_uint128_shift_left(x, n)
    IN  Rounded(format, Significant(format, y), NextBits(format, y) | (Lo(y) % Half), n)

gp_f32_convert_uint128(format, x) ==
    LET n == gp_leading_zeros_u64(Hi(x))
        y == gp_uint128_shift_left(x, n)
    IN  Rounded(format, Significant(format, y), NextBits(format, y) | One(Lo(y) # 0), n)

\* The conversions of a negative integer
Negated(f) == [f EXCEPT !.sign = ~f.sign]

gp_f64_convert_int128(format, x) ==
    IF ~Negative(x) THEN gp_f64_convert_uint128(format, x)
    ELSE Negated(gp_f64_convert_uint128(format, gp_uint128_negate(x)))

gp_f32_convert_int128(format, x) ==
    IF ~Negative(x) THEN gp_f32_convert_uint128(format, x)
    ELSE Negated(gp_f32_convert_uint128(format, gp_uint128_negate(x)))

=============================================================================
