------------------------------- MODULE PfString -------------------------------
(* Buffers that know how long their text would be, src/src/pfstring.h, and    *)
(* the digits that src/src/conversions.c writes in them. What is written past *)
(* the capacity is not stored, but counts.                                    *)
EXTENDS Int128, SequencesExt

\* Data is what the buffer holds, one character for each byte of its capacity.
PFString(data, length) == [data |-> data, length |-> length]

Capacity(s) == Len(s.data)
Smaller(m, n) == IF m < n THEN m ELSE n

pf_capacity_left(s) == IF s.length >= Capacity(s) THEN 0 ELSE Capacity(s) - s.length
pf_limit(s, n) == Smaller(pf_capacity_left(s), n)

\* data with text from index i, counted from 0
Put(data, i, text) ==
    [k \in DOMAIN data |-> IF k > i /\ k <= i + Len(text) THEN text[k - i] ELSE data[k]]

Repeated(c, n) == [k \in 1..n |-> c]

Take(text, n) == SubSeq(text, 1, n)

pf_concat(s, text) ==
    PFString(Put(s.data, s.length, Take(text, pf_limit(s, Len(text)))), s.length + Len(text))

pf_pad(s, c, n) ==
    PFString(Put(s.data, s.length, Repeated(c, pf_limit(s, n))), s.length + n)

pf_push_char(s, c) == pf_concat(s, <<c>>)

\* The slip moves what follows by as much as there is of it, not of what is inserted.
\* Padding before index i: what follows is moved as far as there is room.
pf_insert_pad(s, i, c, n) ==
    LET real == Smaller(s.length, Capacity(s))
        result == Smaller(Capacity(s) - i, real - i + n)
        moved == SubSeq(s.data, i + 1, i + result - n)
    IN  IF i >= real THEN PFString(s.data, s.length + n)
        ELSE PFString(Put(IF i + n < Capacity(s) THEN Put(s.data, i + n, moved) ELSE s.data,
                          i, Repeated(c, Smaller(n, result))),
                      s.length + n)

(***************************************************************************)
(* Digits                                                                  *)
(***************************************************************************)
NUL == "\\0"

DigitsBelow16 == <<"0", "1", "2", "3", "4", "5", "6", "7", "8", "9", "a", "b", "c", "d", "e", "f">>
Capitals == <<"0", "1", "2", "3", "4", "5", "6", "7", "8", "9", "A", "B", "C", "D", "E", "F">>

\* pf_utoa(), pf_otoa(), pf_xtoa() and pf_Xtoa(): digits of a number from low to high
RECURSIVE LowToHigh(_, _, _)
LowToHigh(v, base, chars) ==
    <<chars[(v % base) + 1]>> \o IF v \div base = 0 THEN <<>> ELSE LowToHigh(v \div base, base, chars)

\* pf_u128toa(): the same of an integer of two words
RECURSIVE LowToHigh128(_)
LowToHigh128(x) ==
    LET ten == gp_uint128(0, 10)
        results == gp_uint128_divmod(x, ten)
    IN  <<DigitsBelow16[Lo(results.remainder) + 1]>>
            \o IF gp_uint128_not_equal(results.quotient, Zero) THEN LowToHigh128(results.quotient) ELSE <<>>

\* pf_o128toa(), pf_x128toa() and pf_X128toa(): by shifting
RECURSIVE LowBits(_, _, _)
LowBits(x, bits, chars) ==
    LET rest == gp_uint128_shift_right(x, bits)
    IN  <<chars[(Lo(x) & (2^bits - 1)) + 1]>>
            \o IF gp_uint128_not_equal(rest, Zero) THEN LowBits(rest, bits, chars) ELSE <<>>

\* As many of the digits as there is room for, ended if there is more
pf_str_reverse_copy(s, digits) ==
    Put(s.data, s.length, Take(Reverse(digits), pf_limit(s, Len(digits)))
                              \o (IF Len(digits) < pf_capacity_left(s) THEN <<NUL>> ELSE <<>>))

=============================================================================
