------------------------------- MODULE StrFromD -------------------------------
(* pf_strfromd() of src/src/conversions.c: the text of a number for %f, %e    *)
(* and %g, which chooses between both once the exponent of the rounded number *)
(* is known.                                                                  *)
EXTENDS FloatText

(***************************************************************************)
(* pf_d2fixed_buffered_n()                                                 *)
(***************************************************************************)
\* %g counts the digits of the integer part, which its precision includes.
FractionDigits(fmt, whole, precision) ==
    LET digits == DecimalLength(Head(whole)) + BlockDigits * (Len(whole) - 1)
    IN  IF ~IsG(fmt) \/ whole = <<>> THEN precision
        ELSE IF digits >= precision THEN 0 ELSE precision - digits

\* The zeros before the first digit of a fraction, which are no part of the precision of %g: blocks
\* up to the last one are counted whole.
ZerosBefore(fraction) ==
    LET blocks == fraction.blocks
        zeros == CHOOSE n \in 0..Len(blocks) :
                     /\ n < Len(blocks) \/ blocks = <<>>
                     /\ \A k \in 1..n : blocks[k] = 0
                     /\ n + 1 < Len(blocks) => blocks[n + 1] # 0
    IN  fraction.leading + BlockDigits * zeros + BlockDigits
            - DecimalLength(IF blocks = <<>> THEN 0 ELSE blocks[zeros + 1])

\* The last block of the fraction cut to the digits that precision leaves it, and rounded. Where the
\* first digit of %g moves up into a place that was zero, the last digit is left out.
RoundedFixed(fmt, v, whole, fraction, precision) ==
    LET blocks == whole \o fraction.blocks
        n == Len(blocks)
        digits == precision % BlockDigits
        dropped == BlockDigits - digits
        kept == [blocks EXCEPT ![n] = @ \div 10^dropped]
        next == IF dropped < BlockDigits THEN kept[n] ELSE blocks[n - 1]
        up == RoundsUp((blocks[n] \div 10^(dropped - 1)) % 10, next, NoBitsBelow(v.m, -v.e - precision - 1))
        rounded == IF up THEN Incremented(kept, 10^digits) ELSE kept
        moved == up /\ IsG(fmt) /\ whole = <<0>>
        longer == moved /\ rounded[1] = 0 /\ DecimalLength(rounded[2]) > DecimalLength(kept[2])
    IN  IF ~fraction.cut \/ fraction.blocks = <<>>
        THEN [blocks |-> blocks, digits |-> IF fraction.cut THEN digits ELSE BlockDigits]
        ELSE [blocks |-> IF longer THEN [rounded EXCEPT ![2] = @ \div 10] ELSE rounded,
              digits |-> IF longer \/ (moved /\ rounded[1] = 1) THEN digits - 1 ELSE digits]

FractionText(fraction, blocks, digits) ==
    Repeated("0", fraction.leading) \o BlocksText(SubSeq(blocks, 1, Len(blocks) - 1))
        \o LastDigits(blocks[Len(blocks)], digits)

FixedDigits(fmt, v) ==
    LET significant == WholeBlocks(v)
        whole == IF significant = <<>> THEN <<0>> ELSE significant
        asked == FractionDigits(fmt, significant, IF fmt.precision = None THEN 6 ELSE fmt.precision)
        precision == IF IsG(fmt) /\ significant = <<>> THEN asked + ZerosBefore(FractionBlocks(v, asked)) ELSE asked
        fraction == FractionBlocks(v, precision)
        rounded == RoundedFixed(fmt, v, whole, fraction, precision)
        after == SubSeq(rounded.blocks, Len(whole) + 1, Len(rounded.blocks))
        left == Trimmed(after, rounded.digits)
        hash == "#" \in fmt.flags
    IN  EveryDigit(rounded.blocks[1]) \o BlocksText(SubSeq(rounded.blocks, 2, Len(whole)))
        \o IF IsG(fmt) /\ ~hash
           THEN (IF left.blocks = <<>> THEN <<>> ELSE <<".">> \o FractionText(fraction, left.blocks, left.digits))
           ELSE (IF precision > 0 \/ hash THEN <<".">> ELSE <<>>)
                \o IF after = <<>> THEN Repeated("0", precision)
                   ELSE FractionText(fraction, after, rounded.digits) \o Repeated("0", fraction.trailing)

FixedZero(fmt) ==
    LET precision == IF fmt.precision = None THEN 6 ELSE fmt.precision
    IN  <<"0">> \o (IF precision > 0 \/ "#" \in fmt.flags THEN <<".">> ELSE <<>>) \o Repeated("0", precision)

pf_d2fixed(fmt, v) ==
    SignText(fmt, v) \o
    IF v.kind # "number" THEN SpecialText(v, fmt.conversion \in {"F", "G"})
    ELSE IF v.m = 0 THEN FixedZero(fmt)
    ELSE FixedDigits(fmt, v)

(***************************************************************************)
(* pf_d2exp_buffered_n()                                                   *)
(***************************************************************************)
\* Blocks are stored as long as precision asks for all their digits; of the next one, it asks for
\* some. The first one is the first that is not zero, and gives the exponent.
RECURSIVE Gathered(_, _, _, _)
Gathered(v, precision, i, g) ==
    LET d == BlockAt(v, i)
        n == IF g.stored = 0 THEN DecimalLength(d) ELSE BlockDigits
        exponent == IF g.stored = 0 THEN i * BlockDigits + n - 1 ELSE g.exponent
        first == IF g.stored = 0 THEN n ELSE g.first
    IN  IF g.available > 0 \/ (i < 0 /\ v.e >= 0) THEN g
        ELSE IF g.stored = 0 /\ d = 0 THEN Gathered(v, precision, i - 1, g)
        ELSE Gathered(v, precision, i - 1,
                 IF g.stored + n > precision
                 THEN [g EXCEPT !.available = n, !.digits = d, !.exponent = exponent, !.first = first]
                 ELSE [g EXCEPT !.blocks = Append(@, d), !.stored = @ + n, !.exponent = exponent, !.first = first])

Gather(v, precision) ==
    Gathered(v, precision, IF v.e < -MantissaBits THEN -MinBlock((-v.e) \div IndexStep) - 1 ELSE FirstIndex(v),
             [blocks |-> <<>>, stored |-> 0, available |-> 0, digits |-> 0, exponent |-> 0, first |-> 0])

\* multipleOfPowerOf2() and multipleOfPowerOf5(): nothing is left below the digit at hand.
NothingBelow(v, places) ==
    NoBitsBelow(v.m, -v.e - places) /\ (places < 0 => v.m % 5^(-places) = 0)

\* A carry out of the first block makes it the next power of ten.
RoundedExponent(v, g, precision) ==
    LET wanted == precision - g.stored
        dropped == IF g.available > wanted THEN g.available - wanted ELSE 0
        last == IF dropped = 0 THEN 0 ELSE (g.digits \div 10^(dropped - 1)) % 10
        kept == Append(g.blocks, g.digits \div 10^dropped)
        n == Len(kept)
        next == IF dropped < BlockDigits THEN kept[n] ELSE kept[n - 1]
        up == RoundsUp(last, next, NothingBelow(v, precision - g.exponent))
        magnitude == 10^(BlockDigits - dropped)
        rounded == IF n = 1 THEN <<kept[1] + 1>> ELSE Incremented(kept, magnitude)
        full == IF n = 1 THEN magnitude \div 10^(BlockDigits - g.first) ELSE 10^g.first
        carried == rounded[1] = full /\ rounded[1] # kept[1]
    IN  IF ~up THEN [blocks |-> kept, exponent |-> g.exponent]
        ELSE [blocks |-> IF carried /\ n > 1 THEN [rounded EXCEPT ![1] = @ \div 10] ELSE rounded,
              exponent |-> IF carried THEN g.exponent + 1 ELSE g.exponent]

\* The blocks between the first and the last, and the last
RestText(blocks, digits) ==
    BlocksText(SubSeq(blocks, 2, Len(blocks) - 1)) \o LastDigits(blocks[Len(blocks)], digits)

SignificandText(fmt, g, blocks, precision) ==
    LET wanted == precision - g.stored
        left == Trimmed(blocks, wanted)
        hash == "#" \in fmt.flags
    IN  IF precision = 1
        THEN EveryDigit(IF blocks[1] = 10 THEN 1 ELSE blocks[1]) \o (IF hash THEN <<".">> ELSE <<>>)
        ELSE IF ~IsG(fmt) \/ hash
        THEN (IF g.stored = 0 THEN WithPoint(blocks[1], wanted)
              ELSE WithPoint(blocks[1], g.first) \o RestText(blocks, wanted))
        ELSE IF Len(left.blocks) > 1 THEN WithPoint(left.blocks[1], g.first) \o RestText(left.blocks, left.digits)
        ELSE IF left.blocks[1] >= 10 THEN WithPoint(left.blocks[1], DecimalLength(left.blocks[1]))
        ELSE EveryDigit(left.blocks[1])

ExponentText(fmt, exponent) ==
    LET x == IF exponent < 0 THEN -exponent ELSE exponent
    IN  <<IF fmt.conversion \in {"E", "G"} THEN "E" ELSE "e", IF exponent < 0 THEN "-" ELSE "+">>
            \o LastDigits(x, IF x >= 100 THEN 3 ELSE 2)

ExponentZero(fmt, precision) ==
    LET hash == "#" \in fmt.flags
    IN  <<"0">>
        \o (IF ~(IsG(fmt) /\ ~hash) /\ (precision > 0 \/ hash) THEN <<".">> \o Repeated("0", precision) ELSE <<>>)
        \o (IF IsG(fmt) THEN <<>> ELSE ExponentText(fmt, 0))

pf_d2exp(fmt, v) ==
    LET asked == IF fmt.precision = None THEN 6 ELSE fmt.precision
        precision == IF IsG(fmt) /\ asked > 0 THEN asked ELSE asked + 1
        g == Gather(v, precision)
        rounded == RoundedExponent(v, g, precision)
    IN  IF v.kind # "number" THEN SignText(fmt, v) \o SpecialText(v, fmt.conversion \in {"E", "G"})
        ELSE IF v.m = 0 THEN SignText(fmt, v) \o ExponentZero(fmt, precision - 1)
        ELSE IF IsG(fmt) /\ rounded.exponent >= LeastExponent /\ rounded.exponent < precision
        THEN pf_d2fixed(fmt, v)
        ELSE SignText(fmt, v) \o SignificandText(fmt, g, rounded.blocks, precision)
                 \o ExponentText(fmt, rounded.exponent)

pf_strfromd(fmt, v) == IF fmt.conversion \in {"f", "F"} THEN pf_d2fixed(fmt, v) ELSE pf_d2exp(fmt, v)

=============================================================================
