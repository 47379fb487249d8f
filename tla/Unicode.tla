------------------------------ MODULE Unicode ------------------------------
(* What the functions of Text and FullCase compute, for text that grows byte *)
(* by byte, words that grow letter by letter, and one codepoint after        *)
(* another. The reference for well-formed text is Table 3-7 of the Unicode   *)
(* Standard.                                                                 *)
EXTENDS Text, FullCase

CONSTANTS
    Alphabet,    \* bytes of texts
    MaxBytes,
    Sets,        \* sets of codepoints to find, trim and split by
    Needles,     \* byte sequences to find and to replace
    Letters,     \* codepoints of words
    MaxLetters,
    Languages,
    Codepoints   \* numbers looked up in the tables

VARIABLES bytes, word, cp

vars == <<bytes, word, cp>>

Init == bytes = <<>> /\ word = <<>> /\ cp \in {0} \cup Codepoints

Text(byte) ==
    /\ cp = 0 /\ word = <<>> /\ Len(bytes) < MaxBytes
    /\ bytes' = Append(bytes, byte)
    /\ UNCHANGED <<word, cp>>

Spell(letter) ==
    /\ cp = 0 /\ bytes = <<>> /\ Len(word) < MaxLetters
    /\ word' = Append(word, letter)
    /\ UNCHANGED <<bytes, cp>>

Next == (\E byte \in Alphabet : Text(byte)) \/ (\E letter \in Letters : Spell(letter))

Spec == Init /\ [][Next]_vars

-----------------------------------------------------------------------------
(* References *)

\* Table 3-7
WellFormedCp(b) ==
    CASE Len(b) = 1 -> b[1] \in 0..127
      [] Len(b) = 2 -> b[1] \in \hC2..\hDF /\ b[2] \in 128..191
      [] Len(b) = 3 -> /\ b[3] \in 128..191
                       /\ \/ b[1] = \hE0 /\ b[2] \in \hA0..\hBF
                          \/ b[1] = \hED /\ b[2] \in \h80..\h9F
                          \/ b[1] \in (\hE1..\hEF) \ {\hED} /\ b[2] \in 128..191
      [] Len(b) = 4 -> /\ b[3] \in 128..191 /\ b[4] \in 128..191
                       /\ \/ b[1] = \hF0 /\ b[2] \in \h90..\hBF
                          \/ b[1] = \hF4 /\ b[2] \in \h80..\h8F
                          \/ b[1] \in \hF1..\hF3 /\ b[2] \in 128..191
      [] OTHER -> FALSE

Least(a, b) == IF a < b THEN a ELSE b

\* Positions of s where a codepoint of n bytes stands, reading well-formed ones from its beginning
Boundaries(s) ==
    LET next(i) == {j \in (i + 1)..Least(i + 4, Len(s)) : WellFormedCp(Part(s, i, j))}
        reached[i \in 0..Len(s)] ==
            i = 0 \/ \E j \in 0..(i - 1) : reached[j] /\ i \in next(j)
    IN  {i \in 0..Len(s) : reached[i]}

WellFormed(s) == Len(s) \in Boundaries(s)

\* A first byte has less after it than it says.
CutOff(s) == \E i \in Positions(s, 0) : Truncated(s, i)

\* Beyond plane 1, clearing bit 16 subtracts 0x10000 in odd planes only.
EvenPlane(c) == c.code >= \h20000 /\ (c.code \div 65536) % 2 = 0

Cases == {"upper", "lower", "title"}

Encoded(w) == FlattenSeq([i \in DOMAIN w |-> EncodeUnsafe(w[i])])

\* I with dot and i without are in no orbit with i, but have its cases.
Dotted == {\h130, \h131}

Orbit(c) ==
    LET next[n \in 0..4] == IF n = 0 THEN c ELSE simple_fold(next[n - 1])
    IN  {next[n] : n \in 0..3}

Encodes(case, w) == Encoded([i \in DOMAIN w |-> SimpleCase(case, w[i])])

UpperWord(w, lang) == FlattenSeq(ToUpperFull(w, lang))

LowerWord(w, lang) == FlattenSeq(ToLowerFull(w, lang))

FoldedWord(w, lang) == FlattenSeq(Fold(w, lang))

Suffices(buffer, appends) ==
    LET b == Buffers(buffer, appends) IN \A i \in DOMAIN b : Length(b[i]) <= b[i].capacity

\* Dots that a language writes otherwise do not come back from lower case.
Dots(lang) == CASE lang = "en" -> {\h130} [] lang = "tr" -> {\h307} [] lang = "lt" -> {\h130, \h307}

-----------------------------------------------------------------------------
(* PROPERTIES *)

\* Text is found valid exactly when it is well-formed, the first invalid byte is where the longest
\* well-formed part ends, decoding finds the same and loses no byte of it, invalid ones included,
\* and valid text is the same after the way through UTF-16.
DecodesAll ==
    LET u32 == Utf32FromUtf8(bytes)
    IN  /\ IsValid(bytes) <=> WellFormed(bytes)
        /\ ~IsValid(bytes) => FirstInvalid(bytes) = Max(Boundaries(bytes))
        /\ IsValid(bytes) <=> \A i \in DOMAIN u32 : IsValidCp(u32[i])
        /\ ~CutOff(bytes) => EncodeAll(u32) = bytes
        /\ ~CutOff(bytes) => CodepointCount(bytes) = Len(u32)
        /\ IsValid(bytes) /\ (\A i \in DOMAIN u32 : ~EvenPlane(u32[i])) =>
               Utf16To(Utf16FromUtf8(bytes), 0) = u32

EndsWith(s, t) == Len(t) <= Len(s) /\ Part(s, Len(s) - Len(t), Len(s)) = t

Touches(s, set) == \E c \in set : Matches(s, 0, c) \/ EndsWith(s, c)

\* Searches that read whole words or go backwards find what there is, but for a search backwards
\* that reads in front of the text: its needle is not in the text, which begins with the needle's
\* first byte. Replacing does not replace what it has put in. A codepoint is found wherever its
\* bytes are, behind invalid ones too; splitting leaves out the separators and trimming what is of
\* the set at the ends, nothing else.
FindsAll ==
    ~CutOff(bytes) =>
      /\ \A align \in 0..Least(WordSize - 1, Len(bytes)) : InvalidAscii(bytes, align) = FindNotAscii(bytes, 0)
      /\ \A needle \in Needles :
            LET last == GreatestOf({i \in Positions(bytes, 0) : Matches(bytes, i, needle)})
            IN  \/ FindLast(bytes, needle) = last
                \/ FindLast(bytes, needle) = Undefined /\ last = NotFound /\ At(bytes, 0) = Head(needle)
      /\ \A needle \in Needles :
            BytesReplaceAll(BytesReplaceAll(bytes, needle, needle \o needle), needle \o needle, needle) = bytes
      /\ FindNotAscii(BytesToValid(bytes, <<63>>), 0) = NotFound
      /\ \A set \in Sets :
            LET found == {i \in Positions(bytes, 0) : \E c \in set : Matches(bytes, i, c)}
                covered == UNION {{i + k : k \in 0..(CpLength(bytes, i) - 1)} : i \in found}
                parts == Split(bytes, set)
                cut   == StrTrim(bytes, set, TRUE, TRUE, FALSE)
                whole == StrTrim(bytes, set, TRUE, TRUE, TRUE)
            IN  /\ StrFindFirstOf(bytes, set, 0) = LeastOf(found)
                /\ \A i \in DOMAIN parts : parts[i] # <<>> /\ StrFindFirstOf(parts[i], set, 0) = NotFound
                /\ FlattenSeq(parts) =
                      FlattenSeq([i \in DOMAIN bytes |-> IF i - 1 \in covered THEN <<>> ELSE <<bytes[i]>>])
                /\ \A c \in set : Split(Join(parts, c), set) = parts
                /\ ~Touches(cut, set) /\ ~Touches(whole, set)
                /\ Split(cut, set) = parts
                /\ whole # <<>> => IsValidCp(Head(Utf32FromUtf8(whole)))

\* Invalid bytes are replaced one by one, and nothing else; in place or copied is the same.
MadeValid ==
    LET cps        == Utf32FromUtf8(bytes)
        repaired(r) == FlattenSeq([i \in DOMAIN cps |->
                            IF IsValidCp(cps[i]) THEN Encode(cps[i]) ELSE Repeat(r, Len(cps[i].raw))])
    IN  /\ \A r \in {<<63>>, <<\hEF, \hBF, \hBD>>} :
            /\ IsValid(StrToValid(bytes, r))
            /\ ~CutOff(bytes) /\ (bytes = <<>> \/ IsAscii(bytes[Len(bytes)])) =>
                    StrToValid(bytes, r) = repaired(r)
            /\ IsValid(bytes) => StrToValid(bytes, r) = bytes
        /\ ToValidMemset(bytes, 63, 0) = StrToValid(bytes, <<63>>)

\* Three tables and two algorithms agree on what differs in case only: the cases of a codepoint are
\* in its orbit, orbits close and compare equal, and what folds alike before the full mappings
\* folds alike after.
CasesAgree ==
    LET upper == UpperWord(<<cp>>, "en")
    IN  cp \notin {0} \cup Dotted =>
          /\ \A c \in Orbit(cp) : Orbit(c) = Orbit(cp)
          /\ \A case \in Cases :
                /\ SimpleCase(case, SimpleCase(case, cp)) = SimpleCase(case, cp)
                /\ StrEqualCase(<<cp>>, <<SimpleCase(case, cp)>>)
          /\ \A c \in Orbit(cp) : StrEqualCase(<<cp>>, <<c>>)
          /\ FoldedWord(upper, "en") = FoldedWord(<<cp>>, "en")

\* Changing the case in place up to where a length changes, and by appending from there on, is the
\* same as codepoint by codepoint; no buffer of codepoints overflows although appends do not look;
\* upper case is the same by way of lower case in every language; equal but for the case folds alike.
WordsAgree ==
    LET n     == Len(Encoded(word))
        upper == [i \in DOMAIN word |-> gp_u32_to_upper(word[i])]
    IN  /\ \A case \in Cases : StrToCase(case, Encoded(word)) = Encodes(case, word)
        /\ \A lang \in Languages :
              /\ Suffices(CodepointBuffer(n), ToUpperFull(word, lang))
              /\ Suffices(CodepointBuffer(n), ToLowerFull(word, lang))
              /\ Suffices(FoldBuffer(n), Fold(word, lang))
              /\ (\A i \in DOMAIN word : word[i] \notin Dots(lang)) =>
                    UpperWord(LowerWord(word, lang), lang) = UpperWord(word, lang)
        /\ StrEqualCase(word, upper) => StrCompare(word, upper, TRUE, FALSE, "en") = 0

=============================================================================
