-------------------------------- MODULE Text --------------------------------
(* The functions of strings that know UTF-8 (src/src/string.c 50 to 720,     *)
(* src/src/unicode.c 930 to 1865): searches, trimming, repair, splitting,    *)
(* cases and comparison. Text is a sequence of bytes; the functions for      *)
(* valid text only take words, which are sequences of codepoints.            *)
EXTENDS Utf8, CaseTables

CpAt(s, i) == Part(s, i, i + CpLength(s, i))

\* The positions a loop over codepoints visits
RECURSIVE Visits(_, _)
Visits(s, i) == IF i >= Len(s) THEN {} ELSE {i} \cup Visits(s, i + ValidCodepoint(s, i).step)

\* A set is a C string: a terminator is found in any. Sets have codepoints, which are valid.
IsOf(s, i, set) == ValidCodepoint(s, i).valid /\ (At(s, i) = 0 \/ CpAt(s, i) \in set)

StrFindFirstOf(s, set, start) == LeastOf({i \in Visits(s, start) : IsOf(s, i, set)})

StrFindFirstNotOf(s, set, start) == LeastOf({i \in Visits(s, start) : ~IsOf(s, i, set)})

-----------------------------------------------------------------------------
(* Trimming *)

LastValid(s) == GreatestOf({i \in Positions(s, 0) : ValidCodepoint(s, i).valid})

RECURSIVE RightTrimmed(_, _)
RightTrimmed(s, set) ==
    LET i == LastValid(s)
    IN  IF i = NotFound \/ i + CpLength(s, i) # Len(s) \/ ~IsOf(s, i, set) THEN s
        ELSE RightTrimmed(Part(s, 0, i), set)

RECURSIVE RightTrimmedInvalid(_, _)
RightTrimmedInvalid(s, set) ==
    LET i == LastValid(s)
    IN  IF i = NotFound THEN <<>>
        ELSE IF IsOf(s, i, set) THEN RightTrimmedInvalid(Part(s, 0, i), set)
        ELSE Part(s, 0, i + CpLength(s, i))

LeftTrimmed(s, set) ==
    LET i == StrFindFirstNotOf(s, set, 0) IN IF i = NotFound THEN <<>> ELSE Part(s, i, Len(s))

LeftTrimmedInvalid(s, set) ==
    LET i == LeastOf({j \in Visits(s, 0) : ValidCodepoint(s, j).valid /\ ~IsOf(s, j, set)})
    IN  IF i = NotFound THEN <<>> ELSE Part(s, i, Len(s))

TrimInvalid(s, set, left, right) ==
    LET r == IF right THEN RightTrimmedInvalid(s, set) ELSE s
    IN  IF left THEN LeftTrimmedInvalid(r, set) ELSE r

TrimValid(s, set, left, right) ==
    LET r == IF right THEN RightTrimmed(s, set) ELSE s
    IN  IF left THEN LeftTrimmed(r, set) ELSE r

\* Sets of ASCII are trimmed byte by byte. With another set the code does not look at its source.
StrTrim(s, set, left, right, invalid) ==
    CASE ~invalid /\ \A c \in set : IsAscii(c[1]) -> BytesTrim(s, {c[1] : c \in set}, left, right)
      [] ~invalid /\ \E c \in set : ~IsAscii(c[1]) -> TrimValid(s, set, left, right)
      [] OTHER -> TrimInvalid(s, set, left, right)

-----------------------------------------------------------------------------
(* Repair *)

FindInvalid(s, start) == InvalidUtf8(s, start)

FindValid_Ascii(s, start) ==
    LET i == LeastOf({j \in Positions(s, start) : IsAscii(At(s, j))}) IN IF i = NotFound THEN Len(s) ELSE i

\* Where the next codepoint starts. One of several bytes that ends the text is not seen.
FindValid(s, start) ==
    LET n(j) == CpLength(s, j)
        i    == LeastOf({j \in Positions(s, start) :
                    n(j) = 1 \/ (n(j) > 1 /\ j + n(j) < Len(s) /\ IsValidBytes(s, j))})
    IN  IF i = NotFound THEN Len(s) ELSE i

RECURSIVE StrToValidFrom(_, _, _)
StrToValidFrom(s, replacement, start) ==
    LET invalid == FindInvalid(s, start)
        valid   == FindValid(s, invalid)
    IN  IF invalid = NotFound THEN Part(s, start, Len(s))
        ELSE Part(s, start, invalid) \o Repeat(replacement, valid - invalid)
               \o StrToValidFrom(s, replacement, valid)

StrToValid(s, replacement) == StrToValidFrom(s, replacement, 0)

\* One byte instead of another needs no copy.
RECURSIVE ToValidMemset(_, _, _)
ToValidMemset(s, byte, start) ==
    LET invalid == FindInvalid(s, start)
        valid   == FindValid(s, invalid)
    IN  IF invalid = NotFound THEN s
        ELSE ToValidMemset([i \in DOMAIN s |-> IF i - 1 \in invalid..(valid - 1) THEN byte ELSE s[i]],
                           byte, valid)

-----------------------------------------------------------------------------
(* Splitting *)

RECURSIVE SplitFrom(_, _, _)
SplitFrom(s, separators, i) ==
    LET end == StrFindFirstOf(s, separators, i)
    IN  IF i = NotFound THEN <<>>
        ELSE IF end = NotFound THEN <<Part(s, i, Len(s))>>
        ELSE <<Part(s, i, end)>> \o SplitFrom(s, separators, StrFindFirstNotOf(s, separators, end))

Split(s, separators) == SplitFrom(s, separators, StrFindFirstNotOf(s, separators, 0))

Join(strs, separator) ==
    IF strs = <<>> THEN <<>>
    ELSE FlattenSeq([i \in 1..(Len(strs) - 1) |-> strs[i] \o separator]) \o strs[Len(strs)]

-----------------------------------------------------------------------------
(* Simple cases *)

SimpleCase(case, c) ==
    CASE case = "upper" -> gp_u32_to_upper(c)
      [] case = "lower" -> gp_u32_to_lower(c)
      [] case = "title" -> gp_u32_to_title(c)

CaseOfCp(case, cp) == IF IsValidCp(cp) THEN Codepoint(SimpleCase(case, cp.code)) ELSE cp

AsciiCase(case, s) == IF case = "lower" THEN BytesToLower(s) ELSE BytesToUpper(s)

\* Codepoints are replaced where they are until one has another length in its other case: there it stops.
RECURSIVE InPlace(_, _, _)
InPlace(case, s, i) ==
    LET d == Decode(s, i)
        e == Encode(CaseOfCp(case, d.cp))
    IN  IF i >= Len(s) \/ (IsValidCp(d.cp) /\ Len(e) # d.read) THEN [text |-> s, stop |-> i]
        ELSE InPlace(case, IF IsValidCp(d.cp) THEN ReplaceRange(s, i, i + d.read, e) ELSE s, i + d.read)

\* From there on all is decoded, and then appended.
Recased(case, s, i) == LET u32 == DecodeFrom(s, i) IN [k \in DOMAIN u32 |-> CaseOfCp(case, u32[k])]

StrToCase(case, s) ==
    LET ascii == MemSpn(s, 0..127)
        r     == InPlace(case, AsciiCase(case, Part(s, 0, ascii)) \o Part(s, ascii, Len(s)), ascii)
    IN  Part(r.text, 0, r.stop) \o EncodeAll(Recased(case, r.text, r.stop))

RECURSIVE FoldedUpTo(_, _, _)
FoldedUpTo(c, first, last) ==
    IF c # first /\ c < last THEN FoldedUpTo(simple_fold(c), first, last) ELSE c

EqualButCase_Once(lo, hi) == lo = hi \/ simple_fold(lo) = hi

EqualButCase(lo, hi) ==
    \/ lo = hi
    \/ hi < 128 /\ lo \in 65..90 /\ hi = lo + 32
    \/ hi >= 128 /\ FoldedUpTo(simple_fold(lo), lo, hi) = hi

StrEqualCase(u, v) ==
    /\ Len(u) = Len(v)
    /\ \A i \in DOMAIN u : IF u[i] <= v[i] THEN EqualButCase(u[i], v[i]) ELSE EqualButCase(v[i], u[i])

=============================================================================
