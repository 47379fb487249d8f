-------------------------------- MODULE Utf8 --------------------------------
(* Conversion between UTF-8, codepoints and UTF-16 (src/src/unicode.c 186 to *)
(* 912, src/src/common.c 26 to 80). The masks of the code are arithmetic     *)
(* here. A codepoint is a record: code is its number; an ill-formed sequence *)
(* is decoded to a number with the highest bit set that holds its raw bytes, *)
(* which raw has.                                                            *)
EXTENDS Bytes, LeadByte, Bitwise

CpLength(s, i) == LeadLength(At(s, i))

NumberOf(s) == FoldLeft(LAMBDA n, b : 256 * n + b, 0, s)

\* All bits of an n byte sequence, of four bytes without the 0xF in front
CpBits(bytes) ==
    IF Len(bytes) = 4 THEN NumberOf(<<Head(bytes) - 240>> \o Tail(bytes)) ELSE NumberOf(bytes)

IsContinuation(b) == b \in 128..191

InRanges_Surrogates(bytes) ==
    IF Len(bytes) = 3 THEN CpBits(bytes) \in \hE0A080..\hEFBFBF
    ELSE IF Len(bytes) = 2 THEN CpBits(bytes) \in \hC280..\hDFBF
    ELSE IF Len(bytes) = 4 THEN CpBits(bytes) \in \h908080..\h48FBFBF
    ELSE Len(bytes) = 1 /\ CpBits(bytes) < 128

InRanges(bytes) ==
    LET bits == CpBits(bytes)
    IN  CASE Len(bytes) = 2 -> bits \in \hC280..\hDFBF
          [] Len(bytes) = 3 -> bits \in \hE0A080..\hEFBFBF /\ bits \notin \hEDA080..\hEDBFBF
          [] Len(bytes) = 4 -> bits \in \h908080..\h48FBFBF
          [] OTHER -> Len(bytes) = 1 /\ bits < 128

\* gp_internal_bytes_is_valid_codepoint(), for a sequence within s
IsValidBytes(s, i) ==
    LET bytes == Part(s, i, i + CpLength(s, i))
    IN  InRanges(bytes) /\ \A j \in 2..Len(bytes) : IsContinuation(bytes[j])

Truncated(s, i) == i + CpLength(s, i) > Len(s)

ValidCodepoint_Whole(s, i) ==
    LET n == CpLength(s, i)
    IN  IF n = 0 \/ Truncated(s, i) THEN [valid |-> FALSE, step |-> 1]
        ELSE [valid |-> IsValidBytes(s, i), step |-> n]

\* Whether a codepoint is valid, and by how much gp_utf8_is_valid_codepoint() says to go on. For
\* a truncated one that is the number of bytes that are missing.
ValidCodepoint(s, i) ==
    LET n      == CpLength(s, i)
        starts == {j \in 1..(n - 1) : CpLength(s, i + j) > 0}
    IN  IF n = 0 THEN [valid |-> FALSE, step |-> 1]
        ELSE IF Truncated(s, i) THEN [valid |-> FALSE, step |-> i + n - Len(s)]
        ELSE IF IsValidBytes(s, i) THEN [valid |-> TRUE, step |-> n]
        ELSE [valid |-> FALSE, step |-> IF starts = {} THEN n ELSE Min(starts)]

\* The bytes at i up to the first that is no continuation, at most n
RawAt(s, i, n) ==
    LET breaks == {j \in 1..(n - 1) : ~IsContinuation(At(s, i + j))}
    IN  Part(s, i, i + IF breaks = {} THEN n ELSE Min(breaks))

Codepoint(n) == [code |-> n, raw |-> <<>>]
Invalid(bytes) == [code |-> -1, raw |-> bytes]

\* Unchecked decoding of well-formed bytes
DecodeBytes(b) ==
    CASE Len(b) = 1 -> b[1]
      [] Len(b) = 2 -> (b[1] % 32) * 64 + (b[2] % 64)
      [] Len(b) = 3 -> (b[1] % 16) * 4096 + (b[2] % 64) * 64 + (b[3] % 64)
      [] Len(b) = 4 -> (b[1] % 8) * 262144 + (b[2] % 64) * 4096 + (b[3] % 64) * 64 + (b[4] % 64)

\* All that is left after a truncated codepoint is taken as read, of which RawAt may be less.
Decode(s, i) ==
    LET n    == CpLength(s, i)
        left == Len(s) - i
        raw  == RawAt(s, i, n)
    IN  IF n = 0 THEN [cp |-> Invalid(<<At(s, i)>>), read |-> 1]
        ELSE IF Truncated(s, i) THEN [cp |-> Invalid(RawAt(s, i, left)), read |-> left]
        ELSE IF IsValidBytes(s, i)
             THEN [cp |-> Codepoint(DecodeBytes(Part(s, i, i + n))), read |-> n]
        ELSE [cp |-> Invalid(raw), read |-> Len(raw)]

IsValidCp(cp) == cp.raw = <<>>

EncodeUnsafe(n) ==
    CASE n < 128 -> <<n>>
      [] n \in 128..2047 -> <<192 + n \div 64, 128 + (n % 64)>>
      [] n \in 2048..65535 -> <<224 + n \div 4096, 128 + ((n \div 64) % 64), 128 + (n % 64)>>
      [] OTHER -> <<240 + ((n \div 262144) % 8), 128 + ((n \div 4096) % 64),
                    128 + ((n \div 64) % 64), 128 + (n % 64)>>

\* Raw bytes are as many as their first one says, up to the 0xFF that fill the number.
Encode(cp) ==
    IF IsValidCp(cp) THEN EncodeUnsafe(cp.code)
    ELSE LET n     == CpLength(cp.raw, 0)
             fill  == cp.raw \o <<255, 255, 255>>
             stops == {i \in 1..(n - 1) : At(fill, i) = 255}
         IN  Part(fill, 0, IF n = 0 THEN 1 ELSE IF stops = {} THEN n ELSE Min(stops))

IsSurrogate(n) == n \in \hD800..\hDFFF

EncodesValid(cp) == IsValidCp(cp) /\ ~IsSurrogate(cp.code) /\ cp.code <= \h10FFFF

\* Index of the first byte of s from i on that is not valid UTF-8
RECURSIVE InvalidUtf8(_, _)
InvalidUtf8(s, i) ==
    IF i >= Len(s) THEN NotFound
    ELSE IF CpLength(s, i) = 0 \/ Truncated(s, i) \/ ~IsValidBytes(s, i) THEN i
    ELSE InvalidUtf8(s, i + CpLength(s, i))

\* gp_bytes_is_valid_utf8() skips words of ASCII first.
RECURSIVE SkipWords(_, _)
SkipWords(s, i) ==
    IF i + WordSize - 1 < Len(s) /\ ~HasInvalid(s, i) THEN SkipWords(s, i + WordSize) ELSE i

FirstInvalid(s) == InvalidUtf8(s, SkipWords(s, 0))

IsValid(s) == FirstInvalid(s) = NotFound

\* A first byte counts with the continuations that follow it, up to its length.
RECURSIVE CountFrom(_, _)
CountFrom(s, i) ==
    LET n    == IF CpLength(s, i) = 0 THEN 1 ELSE CpLength(s, i)
        left == Len(s) - i
    IN  IF i >= Len(s) THEN 0
        ELSE IF i + n > Len(s) /\ Len(RawAt(s, i, left)) = left THEN 1
        ELSE 1 + CountFrom(s, i + Len(RawAt(s, i, IF n > left THEN left ELSE n)))

CodepointCount(s) == CountFrom(s, 0)

RECURSIVE DecodeFrom(_, _)
DecodeFrom(s, i) ==
    IF i >= Len(s) THEN <<>>
    ELSE LET d == Decode(s, i) IN <<d.cp>> \o DecodeFrom(s, i + d.read)

Utf32FromUtf8(s) == DecodeFrom(s, 0)

EncodeAll(u32) == FlattenSeq([i \in DOMAIN u32 |-> Encode(u32[i])])

\* Two UTF-16 units for a number above 0xFFFF. Clearing bit 16 stands for subtracting 0x10000.
ClearBit16(n) == IF (n \div 65536) % 2 = 1 THEN n - 65536 ELSE n

Surrogates(n) == <<\hD800 + (ClearBit16(n) \div 1024), \hDC00 + (n % 1024)>>

Utf16Of(cp) == IF cp.code <= \hFFFF THEN <<cp.code>> ELSE Surrogates(cp.code)

Utf16FromUtf8(s) == LET u == DecodeFrom(s, 0) IN FlattenSeq([i \in DOMAIN u |-> Utf16Of(u[i])])

\* A unit with the next one, when it is a surrogate of either kind
FromUnits(u16, i) ==
    LET high == At(u16, i) % 2048
        low  == (At(u16, i + 1) % 1024) + 8192 * ((At(u16, i + 1) \div 8192) % 2)
    IN  IF IsSurrogate(At(u16, i)) THEN (65536 | (high * 1024)) | low ELSE At(u16, i)

\* gp_utf8_from_utf16() goes on to the next unit after a pair: it decodes the second half again.
UnitsRead(u16, i) == 1

\* gp_utf16_to_utf8(), without checks, skips the second half.
PairsRead(u16, i) == IF IsSurrogate(At(u16, i)) THEN 2 ELSE 1

RECURSIVE FromUtf16(_, _)
FromUtf16(u16, i) ==
    IF i >= Len(u16) \/ (i = Len(u16) - 1 /\ IsSurrogate(At(u16, i))) THEN <<>>
    ELSE <<Codepoint(FromUnits(u16, i))>> \o FromUtf16(u16, i + UnitsRead(u16, i))

RECURSIVE Utf16To(_, _)
Utf16To(u16, i) ==
    IF i >= Len(u16) THEN <<>>
    ELSE <<Codepoint(FromUnits(u16, i))>> \o Utf16To(u16, i + PairsRead(u16, i))

=============================================================================
