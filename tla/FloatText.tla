------------------------------ MODULE FloatText ------------------------------
(* Decimal texts of floating point numbers as src/src/conversions.c makes     *)
(* them. A number m * 2^e is cut into blocks of decimal digits, counted from  *)
(* the point, upwards from 0 before it and downwards from -1 after it. As     *)
(* many blocks are made as precision asks for, the last one is cut to its     *)
(* digits and rounded, and a carry goes up to the first one.                  *)
EXTENDS FormatString, PfString

CONSTANTS
    BlockDigits,     \* digits of a block, 9
    MantissaBits,    \* PF_DOUBLE_MANTISSA_BITS, 52
    MinExponent,     \* of the numbers next to zero, 1 - PF_DOUBLE_BIAS - PF_DOUBLE_MANTISSA_BITS, -1074
    IndexStep,       \* exponents for which the tables of powers have one row, 16
    LeastExponent    \* of the numbers that %g writes without an exponent, -4

\* One more than the largest block
Top == 10^BlockDigits

\* Blocks that are zero for all numbers of a row of the tables, which leaves them out
MinBlock(index) ==
    LET zeros == {n \in 0..((IndexStep * index) \div (3 * BlockDigits)) :
                     n > 0 => (2^(MantissaBits + 1) - 1) * Top^n < 2^(IndexStep * index)}
    IN  CHOOSE n \in zeros : \A k \in zeros : k <= n

\* What a row leaves out never rounds up to the last block it leaves out: the code would add it to
\* the integer part. The tables of src/src/d2fixed_full_table.h are so, if by little.
ASSUME RowsAssumption ==
    \A index \in 0..((-MinExponent) \div IndexStep) : MinBlock(index) > 0 =>
        2 * (2^(MantissaBits + 1) - 1) * Top^MinBlock(index) < 2^(IndexStep * index)

(***************************************************************************)
(* Digits                                                                  *)
(***************************************************************************)
\* decimalLength9()
DecimalLength(d) == CHOOSE n \in 1..9 : d < 10^n /\ (n > 1 => d >= 10^(n - 1))

\* pf_append_c_digits() and, for a whole block, pf_append_nine_digits(): digits above are left out.
LastDigits(d, n) == [k \in 1..n |-> DigitsBelow16[((d \div 10^(n - k)) % 10) + 1]]

\* pf_append_utoa()
EveryDigit(d) == LastDigits(d, DecimalLength(d))

\* pf_append_d_digits(): n digits with a point after the first
WithPoint(d, n) == <<Head(EveryDigit(d)), ".">> \o SubSeq(EveryDigit(d), 2, n)

BlocksText(blocks) == FlattenSeq([k \in DOMAIN blocks |-> LastDigits(blocks[k], BlockDigits)])

(***************************************************************************)
(* Blocks                                                                  *)
(***************************************************************************)
\* What is left of the fraction after n blocks of it, in units of 2^e
FractionAfter(v, n) ==
    FoldLeft(LAMBDA left, k : (left * Top) % 2^(-v.e), v.m % 2^(-v.e), [k \in 1..n |-> k])

\* pf_mulShift_mod1e9(): the product with a power from the tables, shifted, modulo a block
BlockAt(v, i) ==
    IF i < 0 THEN (FractionAfter(v, -i - 1) * Top) \div 2^(-v.e)
    ELSE ((IF v.e < 0 THEN v.m \div 2^(-v.e) ELSE v.m * 2^v.e) \div Top^i) % Top

Log10Pow2(e) == DecimalLength(2^e) - 1
pf_indexForExponent(e) == (e + IndexStep - 1) \div IndexStep
pf_lengthForIndex(index) ==
    (Log10Pow2(IndexStep * index) + 1 + DecimalLength(2^(MantissaBits + 1) - 1) + BlockDigits - 1) \div BlockDigits

\* The block a number's integer part begins with at most
FirstIndex(v) == pf_lengthForIndex(IF v.e < 0 THEN 0 ELSE pf_indexForExponent(v.e)) - 1

\* How many blocks of fraction a row has, those it leaves out counted
EndBlock(index) == (IndexStep * index + IndexStep - 1 + BlockDigits - 1) \div BlockDigits

\* The blocks of the integer part from the first that is not zero
WholeBlocks(v) ==
    LET blocks == [k \in 1..(FirstIndex(v) + 1) |-> BlockAt(v, FirstIndex(v) + 1 - k)]
        first == SelectInSeq(blocks, LAMBDA d : d # 0)
    IN  IF v.e < -MantissaBits \/ first = 0 THEN <<>> ELSE SubSeq(blocks, first, Len(blocks))

\* The blocks of the fraction that precision asks for, the zeros left out before and after them, and
\* whether the last of them is to be cut
FractionBlocks(v, precision) ==
    LET index == (-v.e) \div IndexStep
        wanted == precision \div BlockDigits + 1
        first == MinBlock(index)
        end == EndBlock(index)
    IN  IF v.e >= 0 THEN [blocks |-> <<>>, leading |-> 0, trailing |-> 0, cut |-> FALSE]
        ELSE [blocks |-> [k \in 1..(Smaller(wanted, end) - first) |-> BlockAt(v, -first - k)],
              leading |-> IF wanted <= first THEN precision ELSE BlockDigits * first,
              trailing |-> IF wanted > end THEN precision - BlockDigits * end ELSE 0,
              cut |-> wanted <= end]

(***************************************************************************)
(* Rounding                                                                *)
(***************************************************************************)
\* multipleOfPowerOf2(): nothing is left of m below a number of bits.
NoBitsBelow(m, bits) == bits <= 0 \/ m % 2^bits = 0

\* Ties go to the even digit.
RoundsUp(last, next, exact) == last > 5 \/ (last = 5 /\ (next % 2 = 1 \/ ~exact))

\* The slip leaves the blocks between the last one and the first as they are.
Incremented_OneCarry(blocks, magnitude) ==
    LET n == Len(blocks)
        carry == blocks[n] + 1 = magnitude
    IN  [k \in 1..n |-> IF k = n THEN (IF carry THEN 0 ELSE blocks[n] + 1)
                        ELSE IF k = n - 1 /\ carry THEN blocks[k] + 1 ELSE blocks[k]]

\* One more in the last block, which has room below magnitude: a carry stops at the first block that
\* has room for it, and at the first one of all.
StopOf(blocks, magnitude) ==
    LET n == Len(blocks)
        stops == {k \in 1..(n - 1) : k = 1 \/ blocks[k] + 1 # Top}
    IN  IF blocks[n] + 1 # magnitude THEN n ELSE CHOOSE k \in stops : \A j \in stops : j <= k

Incremented(blocks, magnitude) ==
    LET stop == StopOf(blocks, magnitude)
    IN  [k \in DOMAIN blocks |-> IF k < stop THEN blocks[k] ELSE IF k = stop THEN blocks[k] + 1 ELSE 0]

(***************************************************************************)
(* Parts of both texts                                                     *)
(***************************************************************************)
IsG(fmt) == fmt.conversion \in {"g", "G"}

SignText(fmt, v) ==
    IF v.negative THEN <<"-">> ELSE IF "+" \in fmt.flags THEN <<"+">>
    ELSE IF " " \in fmt.flags THEN <<" ">> ELSE <<>>

\* pf_copy_special_str_printf()
SpecialText(v, uppercase) ==
    IF v.kind = "nan" THEN (IF uppercase THEN <<"N", "A", "N">> ELSE <<"n", "a", "n">>)
    ELSE (IF uppercase THEN <<"I", "N", "F">> ELSE <<"i", "n", "f">>)

\* Zero blocks at the end and zeros at the end of the last one left are dropped, and their digits.
Trimmed(blocks, digits) ==
    LET n == SelectLastInSeq(blocks, LAMBDA d : d # 0)
        zeros == CHOOSE z \in 0..BlockDigits : blocks[n] % 10^z = 0 /\ blocks[n] % 10^(z + 1) # 0
    IN  IF n = 0 THEN [blocks |-> <<>>, digits |-> BlockDigits]
        ELSE [blocks |-> [SubSeq(blocks, 1, n) EXCEPT ![n] = @ \div 10^zeros],
              digits |-> (IF n = Len(blocks) THEN digits ELSE BlockDigits) - zeros]

=============================================================================
