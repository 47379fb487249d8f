------------------------------ MODULE Formatting ------------------------------
(* pf_vsnprintf() and pf_vfprintf() of src/src/printf.c: a text is formatted  *)
(* to a buffer that may be too small, one directive at a time. The length of  *)
(* the text is counted as if it had fitted; a stream is written to from a     *)
(* buffer of fixed size, and from one that is large enough if that overflows. *)
(* Strings of the library are sequences of codepoints' bytes; floating point  *)
(* numbers are m * 2^e, infinities or not numbers.                            *)
EXTENDS StrFromD

CONSTANTS
    Bits,      \* how many bits an integer of each length modifier has
    BufSize,   \* the buffer of pf_vfprintf()
    Calls      \* [format, args, capacity, stream] of the calls

ASSUME CallsAssumption == \A call \in Calls : call.stream => call.capacity = BufSize

VARIABLES
    call,     \* what was called
    format,   \* what is left of the format string
    args,     \* and of the arguments
    out,      \* the text so far
    stage,    \* "converting", "ended", "retrying" or "returned"
    written,  \* what the stream received
    text      \* what the directives so far promise

vars == <<call, format, args, out, stage, written, text>>

Unknown == "?"

Empty(capacity) == PFString([i \in 1..capacity |-> Unknown], 0)

Init ==
    /\ call \in Calls
    /\ format = call.format /\ args = call.args
    /\ out = Empty(call.capacity)
    /\ stage = "converting" /\ written = <<>> /\ text = <<>>

Has(fmt, flag) == flag \in fmt.flags

FloatConversions == {"f", "F", "e", "E", "g", "G"}

(***************************************************************************)
(* Conversions                                                             *)
(***************************************************************************)
\* What a conversion writes, how many bytes it says it wrote, and what padding minds
Conversion(s, count, sign, hex) ==
    [out |-> s, count |-> count, has_sign |-> sign, has_0x |-> hex, is_nan_or_inf |-> FALSE]

Since(s, start) == s.length - start.length

\* An argument is cast to its own type again, which cuts what promotion extended.
CastUnsigned(v, bits) == v % 2^bits
CastSigned(v, bits) ==
    IF 2 * (v % 2^bits) >= 2^bits THEN (v % 2^bits) - 2^bits ELSE v % 2^bits

Is128(fmt) == fmt.modifier = "O"
BitsOf(fmt) == Bits[IF fmt.conversion = "p" THEN "z" ELSE fmt.modifier]

\* Digits are moved to make room for the zeros that precision asks for.
pf_write_leading_zeroes(s, count, fmt) ==
    LET diff == IF fmt.precision <= count THEN 0 ELSE fmt.precision - count
        moved == SubSeq(s.data, s.length + 1, s.length + pf_limit(s, count))
    IN  IF fmt.precision = None THEN PFString(s.data, s.length + count)
        ELSE PFString(Put(Put(s.data, s.length + diff, moved), s.length, Repeated("0", pf_limit(s, diff))),
                      s.length + count + diff)

\* The digits in the buffer, and the length that they would have had
WithDigits(s, digits, count, fmt) ==
    pf_write_leading_zeroes(PFString(pf_str_reverse_copy(s, digits), s.length), count, fmt)

\* An integer of 128 bits is negated whatever its sign.
SignedDigits(fmt, arg) ==
    IF Is128(fmt) THEN LowToHigh128(gp_uint128_negate(arg))
    ELSE LET i == CastSigned(arg, BitsOf(fmt))
         IN  LowToHigh(IF i < 0 THEN -i ELSE i, 10, DigitsBelow16)

pf_write_i(start, fmt, arg) ==
    LET negative == IF Is128(fmt) THEN Negative(arg) ELSE CastSigned(arg, BitsOf(fmt)) < 0
        sign == IF negative THEN <<"-">> ELSE IF Has(fmt, "+") THEN <<"+">>
                ELSE IF Has(fmt, " ") THEN <<" ">> ELSE <<>>
        digits == SignedDigits(fmt, arg)
        s == WithDigits(pf_concat(start, sign), digits, Len(digits), fmt)
    IN  Conversion(s, Since(s, start), sign # <<>>, FALSE)

IsZero(fmt, arg) == IF Is128(fmt) THEN ~gp_uint128_not_equal(arg, Zero) ELSE CastUnsigned(arg, BitsOf(fmt)) = 0

UnsignedDigits(fmt, arg, base, bits, chars) ==
    IF ~Is128(fmt) THEN LowToHigh(CastUnsigned(arg, BitsOf(fmt)), base, chars)
    ELSE IF base = 10 THEN LowToHigh128(arg)
    ELSE LowBits(arg, bits, chars)

pf_write_u(start, fmt, arg) ==
    LET digits == UnsignedDigits(fmt, arg, 10, 0, DigitsBelow16)
        s == WithDigits(start, digits, Len(digits), fmt)
    IN  Conversion(s, Since(s, start), FALSE, FALSE)

\* The 0 of the # flag counts as a digit of the precision.
pf_write_o(start, fmt, arg) ==
    LET zero == IF Has(fmt, "#") /\ ~IsZero(fmt, arg) THEN <<"0">> ELSE <<>>
        digits == UnsignedDigits(fmt, arg, 8, 3, DigitsBelow16)
        s == WithDigits(pf_concat(start, zero), digits, Len(zero) + Len(digits), fmt)
        counted == PFString(s.data, s.length - Len(zero))
    IN  Conversion(counted, Since(counted, start), FALSE, FALSE)

\* pf_write_x() and pf_write_X()
WriteHex(start, fmt, arg, prefix, chars) ==
    LET hash == Has(fmt, "#") /\ ~IsZero(fmt, arg)
        digits == UnsignedDigits(fmt, arg, 16, 4, chars)
        s == WithDigits(IF hash THEN pf_concat(start, prefix) ELSE start, digits, Len(digits), fmt)
    IN  Conversion(s, Since(s, start), FALSE, hash)

pf_write_p(start, fmt, arg) ==
    LET s == IF IsZero(fmt, arg) THEN pf_concat(start, <<"(", "n", "i", "l", ")">>)
             ELSE WriteHex(start, [fmt EXCEPT !.flags = {"#"}], arg, <<"0", "x">>, DigitsBelow16).out
    IN  Conversion(s, Since(s, start), FALSE, FALSE)

\* pf_c_string_padding() and pf_utf8_string_padding(): the field is padded to as many characters.
StringPadding(start, fmt, chars, count) ==
    LET diff == IF fmt.width > count THEN fmt.width - count ELSE 0
    IN  IF Has(fmt, "-") THEN pf_pad(pf_concat(start, chars), " ", diff)
        ELSE pf_concat(pf_pad(start, " ", diff), chars)

\* A string of C is read up to its NUL, or as far as precision allows.
pf_write_s(start, fmt, arg) ==
    LET length == IF fmt.precision = None THEN Len(arg) ELSE Smaller(Len(arg), fmt.precision)
        s == StringPadding(start, fmt, Take(arg, length), length)
    IN  Conversion(s, Since(s, start), FALSE, FALSE)

\* How many bytes and codepoints are written: codepoints are counted until length is passed.
Cut(arg, length) ==
    LET whole == {i \in 0..Len(arg) : Len(FlattenSeq(Take(arg, i))) <= length}
        count == CHOOSE i \in whole : \A j \in whole : j <= i
    IN  [bytes |-> Len(FlattenSeq(Take(arg, count))), count |-> count]

\* A string of the library is a sequence of codepoints, which are not cut.
pf_write_S(start, fmt, arg) ==
    LET bytes == FlattenSeq(arg)
        length == IF fmt.precision = None THEN Len(bytes) ELSE Smaller(Len(bytes), fmt.precision)
        s == StringPadding(start, fmt, Take(bytes, Cut(arg, length).bytes), Cut(arg, length).count)
    IN  Conversion(s, Since(s, start), FALSE, FALSE)

\* A byte, or the bytes of a wide character
WriteChar(start, fmt, arg) ==
    Conversion(pf_concat(start, arg), Len(arg), FALSE, FALSE)

\* The text of a floating point number, ended with a NUL where it has room
pf_write_f(start, fmt, v) ==
    LET digits == pf_strfromd(fmt, v)
        s == pf_concat(start, digits)
        ended == IF pf_capacity_left(s) > 0 THEN PFString(Put(s.data, s.length, <<NUL>>), s.length) ELSE s
    IN  [Conversion(ended, Len(digits), v.negative \/ Has(fmt, "+") \/ Has(fmt, " "), FALSE)
            EXCEPT !.is_nan_or_inf = v.kind # "number"]

\* What is short of the field is padded: with zeros after a sign or 0x, or else with spaces.
pf_add_padding(c, fmt) ==
    LET start == c.out.length - c.count
        diff == fmt.width - c.count
        precise == fmt.conversion \in {"d", "i", "o", "u", "x", "X"} /\ fmt.precision # None
        zeros == Has(fmt, "0") /\ ~precise /\ ~c.is_nan_or_inf
        offset == (IF c.has_sign THEN 1 ELSE 0) + (IF c.has_0x THEN 2 ELSE 0)
    IN  IF Has(fmt, "-") THEN pf_pad(c.out, " ", diff)
        ELSE IF zeros THEN pf_insert_pad(c.out, start + offset, "0", diff)
        ELSE pf_insert_pad(c.out, start, " ", diff)

Padded(c, fmt) == IF c.count < fmt.width THEN pf_add_padding(c, fmt) ELSE c.out

(***************************************************************************)
(* What ANSI C promises of %f, %e and %g, with the rounding that IEEE 754  *)
(* makes of it: the digits of the number itself, half going to even        *)
(***************************************************************************)
\* Quotient and remainder of the number and 10^-n
RECURSIVE Quotient(_, _)
Quotient(v, n) ==
    IF n > 0
    THEN LET q == Quotient(v, n - 1)
         IN  [q EXCEPT !.quotient = 10 * @ + (10 * q.rest) \div q.unit, !.rest = (10 * @) % q.unit]
    ELSE LET unit == 10^(-n) * (IF v.e < 0 THEN 2^(-v.e) ELSE 1)
             m == IF v.e < 0 THEN v.m ELSE v.m * 2^v.e
         IN  [quotient |-> m \div unit, rest |-> m % unit, unit |-> unit]

Nearest(v, n) ==
    LET q == Quotient(v, n)
    IN  IF 2 * q.rest > q.unit \/ (2 * q.rest = q.unit /\ q.quotient % 2 = 1) THEN q.quotient + 1 ELSE q.quotient

\* The power of ten of the number's first digit
ExponentOf(v) ==
    IF Quotient(v, 0).quotient > 0
    THEN CHOOSE x \in 0..9 : Quotient(v, -x).quotient \in 1..9
    ELSE -(CHOOSE n \in 1..9 : Quotient(v, n).quotient \in 1..9)

PaddedDigits(d, n) ==
    LET length == CHOOSE k \in 1..9 : d < 10^k /\ (k > 1 => d >= 10^(k - 1))
    IN  Repeated("0", n - length) \o [k \in 1..length |-> DigitsBelow16[((d \div 10^(length - k)) % 10) + 1]]

Pointed(digits, n, hash) ==
    SubSeq(digits, 1, Len(digits) - n) \o (IF n > 0 \/ hash THEN <<".">> ELSE <<>>)
        \o SubSeq(digits, Len(digits) - n + 1, Len(digits))

FixedPromise(v, n, hash) == Pointed(PaddedDigits(Nearest(v, n), n + 1), n, hash)

\* The digits of the number rounded to one before the point and n after it, and its exponent then
Significand(v, n) ==
    LET x == IF v.m = 0 THEN 0 ELSE ExponentOf(v)
        d == Nearest(v, n - x)
    IN  IF d = 10^(n + 1) THEN [digits |-> 10^n, exponent |-> x + 1] ELSE [digits |-> d, exponent |-> x]

ExponentPromise(v, n, hash) == Pointed(PaddedDigits(Significand(v, n).digits, n + 1), n, hash)

ExponentSuffix(conversion, x) ==
    <<conversion, IF x < 0 THEN "-" ELSE "+">> \o PaddedDigits(IF x < 0 THEN -x ELSE x, 2)

WithoutZeros(s) ==
    LET kept == SelectLastInSeq(s, LAMBDA c : c # "0")
    IN  IF \E i \in DOMAIN s : s[i] = "." THEN SubSeq(s, 1, IF s[kept] = "." THEN kept - 1 ELSE kept) ELSE s

\* %g has precision significant digits, and an exponent if it is small, or too large for them.
GeneralPromise(v, precision, hash, e) ==
    LET p == IF precision = 0 THEN 1 ELSE precision
        x == Significand(v, p - 1).exponent
        s == IF x < LeastExponent \/ x >= p THEN ExponentPromise(v, p - 1, hash) ELSE FixedPromise(v, p - 1 - x, hash)
    IN  (IF hash THEN s ELSE WithoutZeros(s))
            \o IF x < LeastExponent \/ x >= p THEN ExponentSuffix(e, x) ELSE <<>>

FloatPromise(fmt, v) ==
    LET p == IF fmt.precision = None THEN 6 ELSE fmt.precision
        hash == "#" \in fmt.flags
    IN  CASE v.kind = "inf" -> IF fmt.conversion \in {"F", "E", "G"} THEN <<"I", "N", "F">> ELSE <<"i", "n", "f">>
          [] v.kind = "nan" -> IF fmt.conversion \in {"F", "E", "G"} THEN <<"N", "A", "N">> ELSE <<"n", "a", "n">>
          [] OTHER ->
             CASE fmt.conversion \in {"f", "F"} -> FixedPromise(v, p, hash)
               [] fmt.conversion \in {"e", "E"} ->
                      ExponentPromise(v, p, hash) \o ExponentSuffix(fmt.conversion, Significand(v, p).exponent)
               [] OTHER -> GeneralPromise(v, p, hash, IF fmt.conversion = "G" THEN "E" ELSE "e")

(***************************************************************************)
(* What ANSI C promises of a directive                                     *)
(***************************************************************************)
NumberOf(fmt, arg, signed) ==
    LET v == IF Is128(fmt) THEN Hi(arg) * Base + Lo(arg) ELSE arg
        bits == IF Is128(fmt) THEN 2 * WordBits ELSE BitsOf(fmt)
    IN  IF signed THEN CastSigned(v, bits) ELSE CastUnsigned(v, bits)

DigitsOf(v, base, chars) ==
    LET n == CHOOSE n \in 1..9 : v < base^n /\ (n > 1 => v >= base^(n - 1))
    IN  [k \in 1..n |-> chars[((v \div base^(n - k)) % base) + 1]]

Field(fmt, prefix, body, count) ==
    LET missing == IF fmt.width > count THEN fmt.width - count ELSE 0
    IN  IF Has(fmt, "-") THEN prefix \o body \o Repeated(" ", missing)
        ELSE IF Has(fmt, "0") /\ fmt.precision = None THEN prefix \o Repeated("0", missing) \o body
        ELSE Repeated(" ", missing) \o prefix \o body

PromisedNumber(fmt, v, base, chars, sign, mark) ==
    LET magnitude == IF v < 0 THEN -v ELSE v
        digits == DigitsOf(magnitude, base, chars)
        octal == base = 8 /\ mark # <<>> /\ v # 0
        wanted == IF octal /\ fmt.precision <= Len(digits) THEN Len(digits) + 1 ELSE fmt.precision
        body == Repeated("0", IF wanted > Len(digits) THEN wanted - Len(digits) ELSE 0) \o digits
        prefix == sign \o (IF base = 16 /\ v # 0 THEN mark ELSE <<>>)
    IN  Field(fmt, prefix, body, Len(prefix) + Len(body))

PromisedString(fmt, codepoints) ==
    LET fits(n) == fmt.precision = None \/ Len(FlattenSeq(Take(codepoints, n))) <= fmt.precision
        n == CHOOSE n \in 0..Len(codepoints) : fits(n) /\ (n < Len(codepoints) => ~fits(n + 1))
    IN  Field([fmt EXCEPT !.flags = @ \ {"0"}], <<>>, FlattenSeq(Take(codepoints, n)), n)

PromisedReal(fmt, v) ==
    LET sign == IF v.negative THEN <<"-">> ELSE IF Has(fmt, "+") THEN <<"+">>
                ELSE IF Has(fmt, " ") THEN <<" ">> ELSE <<>>
        body == FloatPromise(fmt, v)
        padding == IF v.kind = "number" THEN fmt.flags ELSE fmt.flags \ {"0"}
    IN  Field([fmt EXCEPT !.flags = padding, !.precision = None], sign, body, Len(sign) + Len(body))

Mark(fmt, prefix) == IF Has(fmt, "#") THEN prefix ELSE <<>>

Promised(fmt, arg) ==
    LET signed == NumberOf(fmt, arg, TRUE)
        unsigned == NumberOf(fmt, arg, FALSE)
        sign == IF signed < 0 THEN <<"-">> ELSE IF Has(fmt, "+") THEN <<"+">>
                ELSE IF Has(fmt, " ") THEN <<" ">> ELSE <<>>
    IN  CASE fmt.conversion \in {"d", "i"} -> PromisedNumber(fmt, signed, 10, DigitsBelow16, sign, <<>>)
          [] fmt.conversion = "u" -> PromisedNumber(fmt, unsigned, 10, DigitsBelow16, <<>>, <<>>)
          [] fmt.conversion = "o" -> PromisedNumber(fmt, unsigned, 8, DigitsBelow16, <<>>, Mark(fmt, <<"0">>))
          [] fmt.conversion = "x" -> PromisedNumber(fmt, unsigned, 16, DigitsBelow16, <<>>, Mark(fmt, <<"0", "x">>))
          [] fmt.conversion = "X" -> PromisedNumber(fmt, unsigned, 16, Capitals, <<>>, Mark(fmt, <<"0", "X">>))
          [] fmt.conversion = "p" -> IF unsigned = 0 THEN Field(fmt, <<>>, <<"(", "n", "i", "l", ")">>, 5)
                                     ELSE PromisedNumber(fmt, unsigned, 16, DigitsBelow16, <<>>, <<"0", "x">>)
          [] fmt.conversion \in FloatConversions -> PromisedReal(fmt, arg)
          [] fmt.conversion = "c" -> Field(fmt, <<>>, arg, Len(arg))
          [] fmt.conversion = "s" -> PromisedString(fmt, [i \in DOMAIN arg |-> <<arg[i]>>])
          [] fmt.conversion = "S" -> PromisedString(fmt, arg)

(***************************************************************************)
(* The loop of pf_vsnprintf_consuming_no_null_termination()                *)
(***************************************************************************)
Scan == pf_scan_format_string(format, args)

\* One turn: what is before the directive is copied, and the argument is converted and padded.
Turn(conversions, Write(_, _, _)) ==
    /\ stage = "converting" /\ HasDirective(format)
    /\ Scan.fmt.conversion \in conversions
    /\ out' = Padded(Write(pf_concat(out, Scan.before), Scan.fmt, Head(Scan.args)), Scan.fmt)
    /\ format' = Scan.rest /\ args' = Tail(Scan.args)
    /\ text' = text \o Scan.before \o Promised(Scan.fmt, Head(Scan.args))
    /\ UNCHANGED <<call, stage, written>>

ConvertChar == Turn({"c"}, WriteChar)
ConvertCString == Turn({"s"}, pf_write_s)
ConvertString == Turn({"S"}, pf_write_S)
ConvertSigned == Turn({"d", "i"}, pf_write_i)
ConvertUnsigned == Turn({"u"}, pf_write_u)
ConvertOctal == Turn({"o"}, pf_write_o)
ConvertHex == Turn({"x"}, LAMBDA s, fmt, arg : WriteHex(s, fmt, arg, <<"0", "x">>, DigitsBelow16))
ConvertCapitalHex == Turn({"X"}, LAMBDA s, fmt, arg : WriteHex(s, fmt, arg, <<"0", "X">>, Capitals))
ConvertPointer == Turn({"p"}, pf_write_p)
ConvertFloat == Turn(FloatConversions, pf_write_f)

\* %% takes no argument.
ConvertPercent ==
    /\ stage = "converting" /\ HasDirective(format) /\ Scan.fmt.conversion = "%"
    /\ out' = pf_push_char(pf_concat(out, Scan.before), "%")
    /\ format' = Scan.rest
    /\ text' = text \o Scan.before \o <<"%">>
    /\ UNCHANGED <<call, args, stage, written>>

\* What is left of the format is copied, and pf_vsnprintf() ends the text where it is cut.
End ==
    /\ stage = "converting" /\ ~HasDirective(format)
    /\ LET s == pf_concat(out, format)
       IN  out' = IF Capacity(s) = 0 THEN s
                  ELSE PFString(Put(s.data, Smaller(s.length, Capacity(s) - 1), <<NUL>>), s.length)
    /\ stage' = "ended" /\ format' = <<>> /\ text' = text \o format
    /\ UNCHANGED <<call, args, written>>

\* pf_vfprintf() starts again from a copy of the arguments in an allocation for all of the text.
Retry ==
    /\ stage = "ended" /\ call.stream /\ Capacity(out) = BufSize /\ out.length >= BufSize
    /\ out' = Empty(out.length + 1)
    /\ format' = call.format /\ args' = call.args /\ text' = <<>>
    /\ stage' = "converting"
    /\ UNCHANGED <<call, written>>

WriteStream ==
    /\ stage = "ended" /\ call.stream /\ out.length < Capacity(out)
    /\ written' = Take(out.data, out.length)
    /\ stage' = "returned"
    /\ UNCHANGED <<call, format, args, out, text>>

Next ==
    \/ ConvertChar \/ ConvertCString \/ ConvertString
    \/ ConvertSigned \/ ConvertUnsigned \/ ConvertOctal \/ ConvertHex \/ ConvertCapitalHex
    \/ ConvertPointer \/ ConvertFloat \/ ConvertPercent
    \/ End \/ Retry \/ WriteStream

Spec == Init /\ [][Next]_vars

(***************************************************************************)
(* Properties                                                              *)
(***************************************************************************)
\* After every directive the buffer holds as much of the text that ANSI C promises as has room in
\* it, counted in full, also when directives before were cut; when the text ends, a NUL ends what
\* is in the buffer, and a stream receives all of it even if it overflows the buffer of the first
\* try (src/src/printf.c, pf_vsnprintf_consuming and pf_vfprintf).
TextIsPromised ==
    LET kept == IF stage = "converting" \/ Capacity(out) = 0 THEN Capacity(out) ELSE Capacity(out) - 1
        n == Smaller(Len(text), kept)
    IN  /\ out.length = Len(text)
        /\ Take(out.data, n) = Take(text, n)
        /\ stage # "converting" /\ Capacity(out) > 0 => out.data[n + 1] = NUL
        /\ stage = "returned" => written = text

=============================================================================
