-------------------------------- MODULE Int128 --------------------------------
(* The integers of two words of src/include/gpc/int128.h and src/src/int128.c *)
(* as they are computed where the compiler has no such type. An integer is    *)
(* <<high word, low word>>; signed and unsigned ones have the same words.     *)
EXTENDS Alignment, Sequences

CONSTANT WordBits  \* bits of a word: 64, fewer in the runs

\* How many values an unsigned has: C promises so many. It counts the bits of two words.
UnsignedSize == 65536

ASSUME WordBitsAssumption ==
    WordBits \in Nat \ {0} /\ WordBits % 2 = 0 /\ 2 * WordBits < UnsignedSize

Base == PowerOfTwo[WordBits]
Half == PowerOfTwo[WordBits \div 2]
Words == 0..(Base - 1)

(***************************************************************************)
(* The operators of C on the bits of a word. What numbers have in common   *)
(* is counted twice in their sum.                                          *)
(***************************************************************************)
Common[p \in Nat \X Nat] ==
    IF p[1] = 0 THEN 0
    ELSE 2 * Common[<<p[1] \div 2, p[2] \div 2>>] + (p[1] % 2) * (p[2] % 2)

v & w == Common[<<v, w>>]
v | w == v + w - (v & w)
v ^^ w == v + w - 2 * (v & w)

\* What is stored in two words wraps.
gp_uint128(hi, lo) == <<hi % Base, lo % Base>>

Zero == gp_uint128(0, 0)

Hi(x) == x[1]
Lo(x) == x[2]

\* An int64_t with the bits of w
Signed(w) == IF 2 * w >= Base THEN w - Base ELSE w

\* gp_int128_hi(x) < 0
Negative(x) == Signed(Hi(x)) < 0

\* Shifts of one word: the processor takes the count modulo the width of the word.
Left(w, n) == (w * PowerOfTwo[n % WordBits]) % Base
Right(w, n) == w \div PowerOfTwo[n % WordBits]
SignedRight(w, n) == Signed(w) \div PowerOfTwo[n % WordBits]

\* A word extended to two
gp_uint128_i64(w) == gp_uint128(IF Signed(w) < 0 THEN Base - 1 ELSE 0, w)

(***************************************************************************)
(* Bit operations and shifts                                               *)
(***************************************************************************)
gp_uint128_not(a) == gp_uint128(Base - 1 - Hi(a), Base - 1 - Lo(a))
gp_uint128_and(a, b) == gp_uint128(Hi(a) & Hi(b), Lo(a) & Lo(b))
gp_uint128_or(a, b) == gp_uint128(Hi(a) | Hi(b), Lo(a) | Lo(b))
gp_uint128_xor(a, b) == gp_uint128(Hi(a) ^^ Hi(b), Lo(a) ^^ Lo(b))

gp_uint128_shift_left(a, n) ==
    IF n = 0 THEN a
    ELSE IF n >= WordBits THEN gp_uint128(Left(Lo(a), n - WordBits), 0)
    ELSE gp_uint128(Left(Hi(a), n) | Right(Lo(a), WordBits - n), Left(Lo(a), n))

gp_uint128_shift_right(a, n) ==
    IF n = 0 THEN a
    ELSE IF n >= WordBits THEN gp_uint128(0, Right(Hi(a), n - WordBits))
    ELSE gp_uint128(Right(Hi(a), n), Right(Lo(a), n) | Left(Hi(a), WordBits - n))

gp_int128_shift_right(a, n) ==
    IF n = 0 THEN a
    ELSE IF n >= WordBits
    THEN gp_uint128(SignedRight(Hi(a), WordBits - 1), SignedRight(Hi(a), n - WordBits))
    ELSE gp_uint128(SignedRight(Hi(a), n), Right(Lo(a), n) | Left(Hi(a), WordBits - n))

(***************************************************************************)
(* Sums and products                                                       *)
(***************************************************************************)
One(condition) == IF condition THEN 1 ELSE 0

gp_uint128_add(a, b) ==
    gp_uint128(Hi(a) + Hi(b) + One(Lo(b) > Base - 1 - Lo(a)), Lo(a) + Lo(b))

gp_uint128_sub(a, b) ==
    gp_uint128(Hi(a) - Hi(b) - One(Lo(b) > Lo(a)), Lo(a) - Lo(b))

\* The slip forgets the carry out of the low word.
gp_uint128_negate_NoCarry(a) == gp_uint128(Base - 1 - Hi(a), Base - Lo(a))

gp_uint128_negate(a) == gp_uint128(Base - 1 - Hi(a) + One(Lo(a) = 0), Base - Lo(a))

\* Two words multiplied by halves of words
gp_uint128_long_mul64(a, b) ==
    IF (a | b) < Half THEN gp_uint128(0, a * b)
    ELSE LET ah == a \div Half  al == a % Half
             bh == b \div Half  bl == b % Half
             albl == al * bl    albh == al * bh
             ahbl == ah * bl    ahbh == ah * bh
             c == ((ahbl % Half) + (albh % Half) + (albl \div Half)) \div Half
         IN  gp_uint128(ahbh + (ahbl \div Half) + (albh \div Half) + c,
                        ahbl * Half + albh * Half + albl)

gp_uint128_mul(a, b) ==
    LET y == gp_uint128_long_mul64(Lo(a), Lo(b))
    IN  gp_uint128(Hi(y) + Hi(a) * Lo(b) + Lo(a) * Hi(b), Lo(y))

\* Two words as signed ones
gp_int128_mul64(a, b) == gp_uint128_mul(gp_uint128_i64(a), gp_uint128_i64(b))

(***************************************************************************)
(* Division                                                                *)
(***************************************************************************)
\* __builtin_clzll and __builtin_ctzll, and what is computed without them, of a word that is not zero
gp_leading_zeros_u64(w) ==
    CHOOSE n \in 0..(WordBits - 1) :
        PowerOfTwo[WordBits - 1 - n] <= w /\ w < PowerOfTwo[WordBits - n]
gp_trailing_zeros_u64(w) ==
    CHOOSE n \in 0..(WordBits - 1) : w % PowerOfTwo[n] = 0 /\ w % PowerOfTwo[n + 1] # 0

PowerOf2(w) == (w & (w - 1)) = 0

Results(q, r) == [quotient |-> q, remainder |-> r]

\* sr is unsigned: a divisor with more bits makes it large
Unsigned(n) == IF n < 0 THEN n + UnsignedSize ELSE n

\* What is left to divide and the quotient so far, the remainder so far, the divisor, the number of
\* turns left and the bit of the last turn
Turns == [q : Words \X Words, r : Words \X Words, d : Words \X Words, sr : Nat, carry : {0, 1}]

\* A turn brings down one bit of q to r, and subtracts d from r if it fits there.
OneTurn(t) ==
    LET up(w, below) == Left(w, 1) | Right(below, WordBits - 1)
        r1 == gp_uint128(up(Hi(t.r), Lo(t.r)), up(Lo(t.r), Hi(t.q)))
        q1 == gp_uint128(up(Hi(t.q), Lo(t.q)), Left(Lo(t.q), 1) | t.carry)
        s == gp_int128_shift_right(
                 gp_uint128_sub(gp_uint128_sub(t.d, r1), gp_uint128(0, 1)), 2 * WordBits - 1)
    IN  [t EXCEPT !.q = q1, !.r = gp_uint128_sub(r1, gp_uint128_and(t.d, s)),
                  !.sr = @ - 1, !.carry = Lo(s) & 1]

ShiftSubtract[t \in Turns] ==
    IF t.sr = 0
    THEN Results(gp_uint128_or(gp_uint128_shift_left(t.q, 1), gp_uint128(0, t.carry)), t.r)
    ELSE ShiftSubtract[OneTurn(t)]

\* The low word of n shifted to the top, and the rest of n
Shifted(n, sr) ==
    IF sr = WordBits
    THEN Results(gp_uint128(Lo(n), 0), gp_uint128(0, Hi(n)))
    ELSE IF sr < WordBits
    THEN Results(gp_uint128(Left(Lo(n), WordBits - sr), 0),
                 gp_uint128(Right(Hi(n), sr), Left(Hi(n), WordBits - sr) | Right(Lo(n), sr)))
    ELSE Results(gp_uint128(Left(Hi(n), 2 * WordBits - sr) | Right(Lo(n), sr - WordBits),
                            Left(Lo(n), 2 * WordBits - sr)),
                 gp_uint128(0, Right(Hi(n), sr - WordBits)))

Divide(n, d, sr) ==
    LET start == Shifted(n, sr)
    IN  ShiftSubtract[[q |-> start.quotient, r |-> start.remainder, d |-> d, sr |-> sr, carry |-> 0]]

\* The divisor has no low word.
ByHigh(n, d) ==
    LET sr == Unsigned(gp_leading_zeros_u64(Hi(d)) - gp_leading_zeros_u64(Hi(n)))
    IN  IF Lo(n) = 0
        THEN Results(gp_uint128(0, Hi(n) \div Hi(d)), gp_uint128(Hi(n) % Hi(d), 0))
        ELSE IF PowerOf2(Hi(d))
        THEN Results(gp_uint128(0, Right(Hi(n), gp_trailing_zeros_u64(Hi(d)))),
                     gp_uint128(Hi(n) & (Hi(d) - 1), Lo(n)))
        ELSE IF sr > WordBits - 2 THEN Results(Zero, n)
        ELSE Divide(n, d, sr + 1)

\* The divisor has no high word.
ByLow(n, d) ==
    LET sr == gp_trailing_zeros_u64(Lo(d))
    IN  IF ~PowerOf2(Lo(d))
        THEN Divide(n, d, 1 + WordBits + gp_leading_zeros_u64(Lo(d)) - gp_leading_zeros_u64(Hi(n)))
        ELSE IF Lo(d) = 1 THEN Results(n, Zero)
        ELSE Results(gp_uint128(Right(Hi(n), sr), Left(Hi(n), WordBits - sr) | Right(Lo(n), sr)),
                     gp_uint128(0, Lo(n) & (Lo(d) - 1)))

\* The slip takes a divisor of as many bits for a longer one.
ByBoth_Longer(n, d) ==
    LET sr == Unsigned(gp_leading_zeros_u64(Hi(d)) - gp_leading_zeros_u64(Hi(n)))
    IN  IF sr > WordBits - 1 \/ sr = 0 THEN Results(Zero, n) ELSE Divide(n, d, sr + 1)

\* The divisor has both.
ByBoth(n, d) ==
    LET sr == Unsigned(gp_leading_zeros_u64(Hi(d)) - gp_leading_zeros_u64(Hi(n)))
    IN  IF sr > WordBits - 1 THEN Results(Zero, n) ELSE Divide(n, d, sr + 1)

\* gp_db_assert() stops a division by zero.
gp_uint128_divmod(n, d) ==
    IF Hi(n) = 0 /\ Hi(d) = 0 THEN Results(gp_uint128(0, Lo(n) \div Lo(d)), gp_uint128(0, Lo(n) % Lo(d)))
    ELSE IF Hi(n) = 0 THEN Results(Zero, gp_uint128(0, Lo(n)))
    ELSE IF Lo(d) = 0 THEN ByHigh(n, d)
    ELSE IF Hi(d) = 0 THEN ByLow(n, d)
    ELSE ByBoth(n, d)

\* -1 if negative, which negates what is exclusive or'd with it and then subtracted from
Sign(a) == gp_int128_shift_right(a, 2 * WordBits - 1)
WithSign(a, s) == gp_uint128_sub(gp_uint128_xor(a, s), s)

gp_int128_idiv(a, b) ==
    WithSign(gp_uint128_divmod(WithSign(a, Sign(a)), WithSign(b, Sign(b))).quotient,
             gp_uint128_xor(Sign(a), Sign(b)))

gp_int128_imod(a, b) ==
    WithSign(gp_uint128_divmod(WithSign(a, Sign(a)), WithSign(b, Sign(b))).remainder, Sign(a))

(***************************************************************************)
(* Comparisons                                                             *)
(***************************************************************************)
gp_uint128_equal(a, b) == Lo(a) = Lo(b) /\ Hi(a) = Hi(b)
gp_uint128_not_equal(a, b) == Lo(a) # Lo(b) \/ Hi(a) # Hi(b)

gp_uint128_greater_than(a, b) == IF Hi(a) = Hi(b) THEN Lo(a) > Lo(b) ELSE Hi(a) > Hi(b)
gp_uint128_less_than(a, b) == IF Hi(a) = Hi(b) THEN Lo(a) < Lo(b) ELSE Hi(a) < Hi(b)
gp_uint128_greater_than_equal(a, b) == IF Hi(a) = Hi(b) THEN Lo(a) >= Lo(b) ELSE Hi(a) >= Hi(b)
gp_uint128_less_than_equal(a, b) == IF Hi(a) = Hi(b) THEN Lo(a) <= Lo(b) ELSE Hi(a) <= Hi(b)

\* The high words have a sign, the low ones never.
gp_int128_greater_than(a, b) == IF Hi(a) = Hi(b) THEN Lo(a) > Lo(b) ELSE Signed(Hi(a)) > Signed(Hi(b))
gp_int128_less_than(a, b) == IF Hi(a) = Hi(b) THEN Lo(a) < Lo(b) ELSE Signed(Hi(a)) < Signed(Hi(b))
gp_int128_greater_than_equal(a, b) == IF Hi(a) = Hi(b) THEN Lo(a) >= Lo(b) ELSE Signed(Hi(a)) >= Signed(Hi(b))
gp_int128_less_than_equal(a, b) == IF Hi(a) = Hi(b) THEN Lo(a) <= Lo(b) ELSE Signed(Hi(a)) <= Signed(Hi(b))
=============================================================================
