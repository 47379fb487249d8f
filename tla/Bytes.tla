------------------------------- MODULE Bytes -------------------------------
(* The functions of src/src/bytes.c over plain memory, a sequence of bytes   *)
(* 0..255. Positions count from 0 as in C; NotFound is GP_NOT_FOUND.         *)
EXTENDS Integers, Sequences, SequencesExt

CONSTANT WordSize  \* bytes that the checks for ASCII read at once, 8 in the code

NotFound == -1

\* What a search returns that has read memory in front of the text: anything
Undefined == -2

At(s, i) == s[i + 1]

Part(s, start, end) == SubSeq(s, start + 1, end)  \* bytes [start, end)

Positions(s, start) == start..(Len(s) - 1)

LeastOf(S) == IF S = {} THEN NotFound ELSE Min(S)

GreatestOf(S) == IF S = {} THEN NotFound ELSE Max(S)

Matches(s, i, needle) ==
    i + Len(needle) <= Len(s) /\ Part(s, i, i + Len(needle)) = needle

\* Needles are not empty: what is found for an empty one depends on the library.
FindFirst(hay, needle, start) == LeastOf({i \in Positions(hay, start) : Matches(hay, i, needle)})

\* The last byte equal to ch among the count before position end. A negative count wraps around, and
\* the bytes in front of the text are searched for ch until there is one.
MemchrR(s, ch, end, count) ==
    IF count < 0 THEN Undefined
    ELSE GreatestOf({i \in (end - count)..(end - 1) : At(s, i) = ch})

\* A candidate that does not match is stepped over twice: by data-- and by MemchrR. Behind the one
\* at 0, data is in front of the text and the count of what is left is negative.
RECURSIVE FindLastBefore(_, _, _, _)
FindLastBefore(hay, needle, data, count) ==
    LET i == MemchrR(hay, Head(needle), data, count)
    IN  IF i \in {NotFound, Undefined} \/ Matches(hay, i, needle) THEN i
        ELSE FindLastBefore(hay, needle, i - 1, i - 1)

FindLast(hay, needle) ==
    IF Len(needle) > Len(hay) THEN NotFound
    ELSE LET end == Len(hay) - (Len(needle) - 1) IN FindLastBefore(hay, needle, end, end)

\* strchr() also finds the terminator of the set.
BytesFindFirstOf(hay, set, start) == LeastOf({i \in Positions(hay, start) : At(hay, i) \in set \cup {0}})

BytesFindFirstNotOf(hay, set, start) ==
    LeastOf({i \in Positions(hay, start) : At(hay, i) \notin set \cup {0}})

\* Overlapping occurrences count.
BytesCount(hay, needle) == Cardinality({i \in Positions(hay, 0) : Matches(hay, i, needle)})

Lower(b) == IF b \in 65..90 THEN b + 32 ELSE b
Upper(b) == IF b \in 97..122 THEN b - 32 ELSE b

BytesToLower(s) == [i \in DOMAIN s |-> Lower(s[i])]
BytesToUpper(s) == [i \in DOMAIN s |-> Upper(s[i])]

BytesEqualCase(s1, s2) == Len(s1) = Len(s2) /\ \A i \in DOMAIN s1 : Lower(s1[i]) = Lower(s2[i])

IsAscii(b) == b < 128

WordStarts(from, end) == {i \in from..(end - 1) : (i - from) % WordSize = 0}

HasInvalid(s, i) == \E j \in i..(i + WordSize - 1) : ~IsAscii(At(s, j))

\* The words that gp_bytes_is_valid_ascii() reads of n bytes whose address is align modulo
\* WordSize. With fewer than align bytes, n - remaining is negative and wraps around: there is no end.
AsciiWords(n, align) ==
    WordStarts(IF align < n THEN align ELSE n, n - ((n - align) % WordSize))

\* Index of the first byte that is not ASCII: bytes up to an aligned one, then words as far as
\* they are valid, then bytes
InvalidAscii(s, align) ==
    LET words == {i \in AsciiWords(Len(s), align) :
                    \A j \in AsciiWords(Len(s), align) : j <= i => ~HasInvalid(s, j)}
        read  == UNION {i..(i + WordSize - 1) : i \in words}
    IN  LeastOf({i \in Positions(s, 0) \ read : ~IsAscii(At(s, i))})

Slice(s, start, end) == Part(s, start, end)

Repeat(mem, n) == FlattenSeq([i \in 1..n |-> mem])

BytesInsert(s, pos, src) == Part(s, 0, pos) \o src \o Part(s, pos, Len(s))

ReplaceRange(s, start, end, replacement) ==
    Part(s, 0, start) \o replacement \o Part(s, end, Len(s))

BytesReplace(hay, needle, replacement, start) ==
    LET i == FindFirst(hay, needle, start)
    IN  IF i = NotFound THEN hay ELSE ReplaceRange(hay, i, i + Len(needle), replacement)

\* Where the search goes on after a replacement
AfterReplacement(i, replacement) == i + Len(replacement)

RECURSIVE ReplaceAllFrom(_, _, _, _)
ReplaceAllFrom(hay, needle, replacement, start) ==
    LET i == FindFirst(hay, needle, start)
    IN  IF i = NotFound THEN hay
        ELSE ReplaceAllFrom(ReplaceRange(hay, i, i + Len(needle), replacement), needle,
                            replacement, AfterReplacement(i, replacement))

BytesReplaceAll(hay, needle, replacement) == ReplaceAllFrom(hay, needle, replacement, 0)

\* Length of the longest prefix, of the longest suffix, with bytes of a set only
MemSpn(s, set) ==
    LET i == LeastOf({j \in Positions(s, 0) : At(s, j) \notin set})
    IN  IF i = NotFound THEN Len(s) ELSE i

MemSpnR(s, set) == Len(s) - 1 - GreatestOf({j \in Positions(s, 0) : At(s, j) \notin set})

\* The right is trimmed first; the left up to what is left of it.
BytesTrim(s, set, left, right) ==
    LET end  == IF right THEN Len(s) - MemSpnR(s, set) ELSE Len(s)
        kept == Part(s, 0, end)
    IN  IF set = {} THEN s ELSE Part(kept, IF left THEN MemSpn(kept, set) ELSE 0, end)

FindNotAscii(s, start) == LeastOf({i \in Positions(s, start) : ~IsAscii(At(s, i))})

FindAscii(s, start) ==
    LET i == LeastOf({j \in Positions(s, start) : IsAscii(At(s, j))})
    IN  IF i = NotFound THEN Len(s) ELSE i

RECURSIVE BytesToValidFrom(_, _, _)
BytesToValidFrom(s, replacement, start) ==
    LET i == FindNotAscii(s, start)
    IN  IF i = NotFound THEN s
        ELSE BytesToValidFrom(ReplaceRange(s, i, FindAscii(s, i), replacement), replacement,
                              AfterReplacement(i, replacement))

BytesToValid(s, replacement) == BytesToValidFrom(s, replacement, 0)

=============================================================================
