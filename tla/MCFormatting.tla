----------------------------- MODULE MCFormatting -----------------------------
(* Directives with every combination of their flags, in buffers that cut     *)
(* them at every place.                                                      *)
EXTENDS Formatting

\* Bits in the order of the real ones, small enough that arguments do not fit some of them
MCBits == [m \in {"hh", "h", "", "l", "ll", "j", "z", "t", "B", "W", "D", "Q", "Bf", "Wf", "Df", "Qf"} |->
    CASE m \in {"hh", "B", "Bf"} -> 3 [] m \in {"h", "W"} -> 4 [] m \in {"", "D", "Wf"} -> 6 [] OTHER -> 10]

Directive(flags, width, precision, modifier, conversion) ==
    <<"%">> \o SetToSeq(flags) \o width \o precision \o modifier \o <<conversion>>

Widths == {<<>>, <<"5">>}
Precisions == {<<>>, <<".", "4">>}

Numbers(flags, conversions, modifiers, values) ==
    {<<Directive(f, w, p, m, c), <<v>>>> :
        f \in SUBSET flags, w \in Widths, p \in Precisions, m \in modifiers, c \in conversions, v \in values}

\* Integers of 128 bits; signed ones that are not negative are negated by the code.
Small == {<<>>, <<"h", "h">>, <<"l">>}
Wide == {<<"w", "1", "2", "8">>, <<"O">>}

Directives ==
    Numbers({"-", "+", " ", "0"}, {"d"}, Small, {0, 7, -27})
        \cup Numbers({"-", "+", "0"}, {"i"}, Wide, {<<15, 3>>, <<8, 0>>})
        \cup Numbers({"-", "0"}, {"u"}, Small \cup {<<"w", "f", "1", "6">>}, {0, 300})
        \cup Numbers({"-", "0"}, {"u"}, Wide, {<<0, 0>>, <<7, 11>>})
        \cup Numbers({"-", "#", "0"}, {"o", "x", "X"}, {<<>>}, {0, 27})
        \cup Numbers({"#", "0"}, {"o", "x", "X"}, Wide, {<<0, 0>>, <<10, 11>>})
        \cup Numbers({"-"}, {"p"}, {<<>>}, {0, 27})
        \cup {<<Directive(f, w, p, <<>>, "s"), <<v>>>> : f \in SUBSET {"-"}, w \in Widths,
                p \in {<<>>, <<".">>, <<".", "2">>}, v \in {<<>>, <<"a", "b", "c">>}}
        \cup {<<Directive(f, w, p, <<>>, "S"), <<v>>>> : f \in SUBSET {"-"}, w \in Widths,
                p \in {<<>>, <<".", "1">>, <<".", "2">>, <<".", "3">>},
                v \in {<<>>, <<<<"L", "c">>, <<"a">>, <<"L", "c">>>>}}
        \cup {<<Directive(f, w, <<>>, m, "c"), <<v>>>> : f \in SUBSET {"-"}, w \in Widths, m \in {<<>>}, v \in {<<"a">>}}
        \cup {<<Directive({}, w, <<>>, <<"l">>, "c"), <<v>>>> : w \in Widths, v \in {<<"L", "c">>}}
        \cup {<<Directive({}, <<"*">>, <<".", "*">>, <<>>, "d"), <<w, p, 7>>>> : w \in {0, 5}, p \in {-1, 3}}
        \cup {<< <<"%", "%">>, <<>> >>}

\* Zeros asked for by precision are only written where all of them fit.
CutBySize(d) == ~\E i \in DOMAIN d[1] : d[1][i] = "." /\ d[1][Len(d[1])] \notin {"s", "S"}

(***************************************************************************)
(* Floating point numbers of 9 bits                                        *)
(***************************************************************************)
MCMinExponent == -20
MCLeastExponent == -1

Real(m, e) == [negative |-> FALSE, kind |-> "number", m |-> m, e |-> e]

Normal == {Real(m, e) : m \in {256, 257, 320, 384, 391, 398, 399, 409, 511},
    e \in {-20, -18, -17, -15, -13, -12, -10, -9, -8, -7, -4, -2, -1, 0, 3, 6}}
Subnormal == {Real(m, MinExponent) : m \in {0, 1, 10, 255}}

Specials == {[Real(320, -6) EXCEPT !.kind = kind, !.negative = negative] : kind \in {"inf", "nan"}, negative \in BOOLEAN}

WithoutPrecision == {Real(m, e) : m \in {391, 409}, e \in {-20, -12, -8, -3, -1}}

FloatDirectives ==
    {<<Directive(f, <<>>, <<".", p>>, <<>>, c), <<v>>>> : f \in SUBSET {"#"}, p \in {"0", "1", "2", "3", "4"},
        c \in {"f", "e", "g"}, v \in Normal \cup Subnormal}
    \cup {<<Directive(f, <<>>, <<>>, <<>>, c), <<v>>>> : f \in SUBSET {"#"}, c \in {"f", "e", "g"}, v \in WithoutPrecision}
    \cup {<<Directive(f, w, <<".", "1">>, <<>>, c), <<v>>>> : f \in SUBSET {"-", "+", " ", "0"}, w \in {<<>>, <<"9">>},
        c \in {"F", "E", "G"}, v \in Specials \cup {[Real(391, -6) EXCEPT !.negative = TRUE], Real(409, -8)}}

\* Of %g, numbers below 1 with precision 0 and numbers whose rounding moves their first digit up are
\* left out: the code writes them otherwise.
FirstDigitStays(d) ==
    LET fmt == pf_scan_format_string(d[1], d[2]).fmt
        v == d[2][1]
        p == IF fmt.precision = None THEN 6 ELSE fmt.precision
    IN  IsG(fmt) /\ v.kind = "number" /\ v.m # 0 =>
            /\ p = 0 => v.e >= 0 \/ v.m >= 2^(-v.e)
            /\ Significand(v, IF p = 0 THEN 0 ELSE p - 1).exponent = ExponentOf(v)

FloatCalls ==
    {[format |-> before \o d[1] \o <<"b">>, args |-> d[2], capacity |-> 24, stream |-> FALSE] :
        d \in {d \in FloatDirectives : FirstDigitStays(d)}, before \in {<<"a">>}}
    \cup
    {[format |-> Directive({}, w, <<".", "2">>, <<>>, "f"), args |-> <<v>>, capacity |-> capacity, stream |-> FALSE] :
        w \in {<<>>, <<"5">>}, v \in Normal, capacity \in {0, 2, 4}}
    \cup
    {[format |-> Directive({}, <<>>, <<".", "3">>, <<>>, c), args |-> <<v>>, capacity |-> BufSize, stream |-> TRUE] :
        c \in {"f"}, v \in {Real(391, -6), Real(511, 4)}}

MCCalls ==
    FloatCalls \cup
    {[format |-> before \o d[1] \o after[1], args |-> d[2] \o after[2], capacity |-> capacity, stream |-> FALSE] :
        d \in {d \in Directives : CutBySize(d)}, before \in {<<>>, <<"a">>},
        after \in {<< <<>>, <<>> >>, << <<"b", "%", "0", "3", "d">>, <<-2>> >>}, capacity \in {0, 2, 4, 7}}
    \cup
    {[format |-> before \o d[1] \o after[1], args |-> d[2] \o after[2], capacity |-> 16, stream |-> FALSE] :
        d \in Directives, before \in {<<>>, <<"a">>},
        after \in {<< <<"b", "%", "0", "3", "d">>, <<-2>> >>}}
    \cup
    {[format |-> d[1] \o <<"b">>, args |-> d[2], capacity |-> BufSize, stream |-> TRUE] :
        d \in {d \in Directives : CutBySize(d)}}

=============================================================================
