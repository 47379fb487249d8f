----------------------------- MODULE FormatString -----------------------------
(* Format strings as src/src/format_scanning.c reads them. A string is a      *)
(* sequence of characters, each a string of TLA+ of that one character.       *)
EXTENDS Integers, Sequences, SequencesExt

DigitChars == <<"0", "1", "2", "3", "4", "5", "6", "7", "8", "9">>
FlagChars == {"-", "+", " ", "#", "0"}
Modifiers == {"h", "l", "j", "z", "t", "L", "B", "W", "D", "Q", "O", "w"}

\* The precision of a directive that has none
None == -1

IsDigit(c) == \E i \in DOMAIN DigitChars : DigitChars[i] = c
DigitValue(c) == (CHOOSE i \in DOMAIN DigitChars : DigitChars[i] = c) - 1

\* How many characters at the start of s pass
Span(s, Pass(_)) ==
    CHOOSE n \in 0..Len(s) : (\A i \in 1..n : Pass(s[i])) /\ (n < Len(s) => ~Pass(s[n + 1]))

Number(s) == FoldLeft(LAMBDA value, c : 10 * value + DigitValue(c), 0, s)

Drop(s, n) == SubSeq(s, n + 1, Len(s))

\* What a step of the scan finds, the characters it leaves and the arguments it leaves
Found(value, rest, args) == [value |-> value, rest |-> rest, args |-> args]

FoundNumber(s, args) ==
    LET n == Span(s, IsDigit) IN Found(Number(SubSeq(s, 1, n)), Drop(s, n), args)

\* An asterisk takes the width from the arguments; one below zero is forgotten.
FieldWidth(s, args) ==
    IF Head(s) = "*" THEN Found(IF Head(args) >= 0 THEN Head(args) ELSE 0, Tail(s), Tail(args))
    ELSE IF IsDigit(Head(s)) THEN FoundNumber(s, args)
    ELSE Found(0, s, args)

Precision(s, args) ==
    IF Head(s) # "." THEN Found(None, s, args)
    ELSE IF s[2] = "*" THEN Found(IF Head(args) >= 0 THEN Head(args) ELSE None, Drop(s, 2), Tail(args))
    ELSE FoundNumber(Tail(s), args)

\* The letter of a width in bits
WidthLetter(bits) ==
    CASE bits = 8 -> "B" [] bits = 16 -> "W" [] bits = 32 -> "D" [] bits = 64 -> "Q" [] bits = 128 -> "O"

LengthModifier(s, args) ==
    LET fast == s[2] = "f"
        width == FoundNumber(Drop(s, IF fast THEN 2 ELSE 1), args)
    IN  IF Head(s) \notin Modifiers THEN Found("", s, args)
        ELSE IF Head(s) \in {"h", "l"} /\ s[2] = Head(s) THEN Found(IF Head(s) = "h" THEN "hh" ELSE "ll", Drop(s, 2), args)
        ELSE IF Head(s) # "w" THEN Found(Head(s), Tail(s), args)
        ELSE Found(WidthLetter(width.value) \o (IF fast THEN "f" ELSE ""), width.rest, args)

Specifier(flags, width, precision, modifier, conversion) ==
    [flags |-> flags, width |-> width, precision |-> precision,
     modifier |-> modifier, conversion |-> conversion]

\* What is before the first directive, the directive, and what is left after it
Scanned(before, fmt, rest, args) == [before |-> before, fmt |-> fmt, rest |-> rest, args |-> args]

HasDirective(format) == \E i \in DOMAIN format : format[i] = "%"

pf_scan_format_string(format, args) ==
    LET before == Span(format, LAMBDA c : c # "%")
        s == Drop(format, before + 1)
        flags == Span(s, LAMBDA c : c \in FlagChars)
        width == FieldWidth(Drop(s, flags), args)
        precision == Precision(width.rest, width.args)
        modifier == LengthModifier(precision.rest, precision.args)
    IN  IF Head(s) = "%"
        THEN Scanned(SubSeq(format, 1, before), Specifier({}, 0, None, "", "%"), Tail(s), args)
        ELSE Scanned(SubSeq(format, 1, before),
                     Specifier({s[i] : i \in 1..flags}, width.value, precision.value,
                               modifier.value, Head(modifier.rest)),
                     Tail(modifier.rest), modifier.args)

=============================================================================
