------------------------------ MODULE FullCase ------------------------------
(* Cases of words by language (src/src/unicode.c 1062 to 1795), of which one *)
(* codepoint may become several and one may depend on its neighbours. Words  *)
(* are sequences of codepoints, NUL is what the code sees after the last. An *)
(* append is what one codepoint becomes.                                     *)
EXTENDS CaseTables, DynamicArray, SequencesExt

NUL == 0

InRangesOf(c, ranges) == \E r \in ranges : c \in r[1]..r[2]

SoftDotted == {\h69, \h6A, \h12F, \h249, \h268, \h29D, \h2B2, \h3F3, \h456, \h458, \h1D62, \h1D96,
    \h1DA4, \h1DA8, \h1E2D, \h1ECB, \h2071, \h2148, \h2149, \h2C7C, \h1DF1A, \h1E04C, \h1E04D, \h1E068}
    \cup {\h1D422 + i : i \in {52 * k : k \in 0..12}} \cup {\h1D423 + i : i \in {52 * k : k \in 0..12}}

IsDiacritical(c) == InRangesOf(c, {<<\h300, \h36F>>, <<\h1AB0, \h1AFF>>, <<\h1DC0, \h1DFF>>,
    <<\h20D0, \h20FF>>, <<\h2DE0, \h2DFF>>, <<\hFE20, \hFE2F>>})

LithuanianAccents == {\h300, \hB4, \h303, \h2DB}

GreekRanges == {<<\h41, \h5A>>, <<\h61, \h7A>>, <<\h370, \h377>>, <<\h37A, \h37F>>, <<\h386, \h3FF>>,
    <<\h1D00, \h1DBF>>, <<\h1F00, \h1F15>>, <<\h1F18, \h1F1D>>, <<\h1F20, \h1F45>>, <<\h1F48, \h1F4D>>,
    <<\h1F50, \h1F7D>>, <<\h1F80, \h1FBE>>, <<\h1FC2, \h1FCC>>, <<\h1FD0, \h1FD3>>, <<\h1FD6, \h1FDB>>,
    <<\h1FE0, \h1FEC>>, <<\h1FF2, \h1FFC>>, <<\h2102, \h2102>>, <<\h2107, \h2107>>, <<\h210A, \h2115>>,
    <<\h2119, \h211D>>, <<\h2124, \h2139>>, <<\h213C, \h213F>>, <<\h2145, \h2149>>, <<\hAB30, \hAB69>>}

NotGreek == {\h375, \h37E, \h387, \h38B, \h38D, \h3A2, \h3F6, \h1F58, \h1F5A, \h1F5C, \h1F5E, \h1FB5,
    \h1FBD, \h1FC5, \h1FF5, \h2114, \h2125, \h2127, \h2129, \h212E, \hAB5B}

IsGreekLetter(c) == InRangesOf(c, GreekRanges) /\ c \notin NotGreek

IsTurkish(lang) == lang \in {"tr", "az"}

\* The first codepoint of w, of what is left
Ahead(w) == IF w = <<>> THEN NUL ELSE Head(w)

Rest(w) == IF w = <<>> THEN w ELSE Tail(w)

RECURSIVE SkipDiacriticals(_)
SkipDiacriticals(w) == IF IsDiacritical(Ahead(w)) THEN SkipDiacriticals(Tail(w)) ELSE w

\* A sigma is final after a letter and before none, diacritics apart.
IsGreekFinal(behind, w) ==
    /\ IsGreekLetter(behind) \/ IsDiacritical(behind)
    /\ ~IsGreekLetter(Ahead(SkipDiacriticals(w)))

-----------------------------------------------------------------------------

UpperOf(c, lang) ==
    LET iota(base) == <<base + (c % 8), \h399>>
        other == CASE c \in \h1F80..\h1F8F -> iota(\h1F08)
                   [] c \in \h1F90..\h1F9F -> iota(\h1F28)
                   [] c \in \h1FA0..\h1FAF -> iota(\h1F68)
                   [] c = \h69 -> IF IsTurkish(lang) THEN <<\h130>> ELSE <<\h49>>
                   [] OTHER -> <<gp_u32_to_upper(c)>>
    IN  Expanded(ExpandsBoth \cup ExpandsUpper, c, other)

DropsDot(c, next, lang) == lang = "lt" /\ next = \h307 /\ c \in SoftDotted

\* An iota subscript goes behind the diacritics that follow it.
RECURSIVE ToUpperFull(_, _)
ToUpperFull(w, lang) ==
    LET c    == Head(w)
        next == Ahead(Tail(w))
    IN  CASE w = <<>> -> <<>>
          [] w # <<>> /\ c = \h345 /\ IsDiacritical(next) ->
                <<<<next>>>> \o ToUpperFull(<<c>> \o Tail(Tail(w)), lang)
          [] OTHER ->
                <<UpperOf(c, lang)>>
                  \o ToUpperFull(IF DropsDot(c, next, lang) THEN Tail(Tail(w)) ELSE Tail(w), lang)

\* Lithuanian keeps the dot under an accent; it is appended by itself where the accent is not part of c.
LithuanianLower(c, next) ==
    LET dot(i) == <<<<i>>>> \o IF next \in LithuanianAccents THEN <<<<\h307>>>> ELSE <<>>
    IN  CASE c = \h49  -> dot(\h69)
          [] c = \h4A  -> dot(\h6A)
          [] c = \h12E -> dot(\h12F)
          [] c = \hCC  -> <<<<\h69, \h307, \h300>>>>
          [] c = \hCD  -> <<<<\h69, \h307, \h301>>>>
          [] c = \h128 -> <<<<\h69, \h307, \h303>>>>
          [] OTHER     -> <<>>

\* What c becomes between the codepoint behind it and those after it
LowerOf(c, behind, after, lang) ==
    CASE c = \h3A3 -> IF IsGreekFinal(behind, after) THEN <<<<\h3C2>>>> ELSE <<<<\h3C3>>>>
      [] c # \h3A3 /\ lang = "lt" /\ LithuanianLower(c, Ahead(after)) # <<>> ->
            LithuanianLower(c, Ahead(after))
      [] c = \h49 /\ lang # "lt" ->
            IF IsTurkish(lang) /\ Ahead(after) # \h307 THEN <<<<\h131>>>> ELSE <<<<\h69>>>>
      [] c = \h130 -> IF IsTurkish(lang) THEN <<<<\h69>>>> ELSE <<<<\h69, \h307>>>>
      [] OTHER -> <<<<gp_u32_to_lower(c)>>>>

RECURSIVE LowerFrom(_, _, _)
LowerFrom(w, behind, lang) ==
    LET c    == Head(w)
        dots == c = \h49 /\ IsTurkish(lang) /\ Ahead(Tail(w)) = \h307
    IN  IF w = <<>> THEN <<>>
        ELSE LowerOf(c, behind, Tail(w), lang)
               \o LowerFrom(IF dots THEN Tail(Tail(w)) ELSE Tail(w), c, lang)

ToLowerFull(w, lang) == LowerFrom(w, NUL, lang)

TitleOf(c, lang) ==
    Expanded(ExpandsBoth \cup ExpandsTitle, c,
        IF c = \h69 /\ IsTurkish(lang) THEN <<\h130>> ELSE <<gp_u32_to_title(c)>>)

\* Only the first codepoint changes; an iota subscript takes its diacritics in front.
Capitalize(w, lang) ==
    LET after == SkipDiacriticals(Tail(w))
        rest  == IF DropsDot(Head(w), Ahead(Tail(w)), lang) THEN Tail(Tail(w)) ELSE Tail(w)
    IN  CASE w = <<>> -> w
          [] w # <<>> /\ Head(w) = \h345 /\ IsDiacritical(Ahead(Tail(w))) ->
                SubSeq(w, 2, Len(w) - Len(after)) \o <<\h399>> \o after
          [] OTHER -> TitleOf(Head(w), lang) \o rest

FoldOf(c, lang) ==
    LET iota(difference) == <<c - difference, \h3B9>>
        other == CASE c = \h49 -> IF IsTurkish(lang) THEN <<\h131>> ELSE <<\h69>>
                   [] c = \h130 -> <<\h69>>
                   [] c \in \h13F8..\h13FD -> <<c - 8>>
                   [] c \in \h1F80..\h1F87 -> iota(\h80)
                   [] c \in \h1F88..\h1F8F -> iota(\h88)
                   [] c \in \h1F90..\h1F97 -> iota(\h70)
                   [] c \in \h1F98..\h1F9F -> iota(\h78)
                   [] c \in \h1FA0..\h1FA7 -> iota(\h40)
                   [] c \in \h1FA8..\h1FAF -> iota(\h48)
                   [] c \in \hAB70..\hABBF -> <<c - \h97D0>>
                   [] OTHER -> <<gp_u32_to_lower(c)>>
    IN  Expanded(ExpandsFold, c, other)

\* The dot of a capital I is kept where it makes no other letter.
Fold(w, lang) == FlattenSeq([i \in DOMAIN w |->
    <<FoldOf(w[i], lang)>> \o IF w[i] = \h130 /\ ~IsTurkish(lang) THEN <<<<\h307>>>> ELSE <<>>])

-----------------------------------------------------------------------------
(* Buffers of codepoints. An append makes room for what it has more than the *)
(* one codepoint that it stands for, and writes without looking.             *)

CodepointBuffer(bytes) == New(4, bytes)

\* Room for all and a terminator, before which ASCII is written without append.
FoldBuffer(bytes) == Reserve(New(4, bytes), bytes + 1).arr

AppendCodepoints_InPlace(a, cps) == [a EXCEPT !.data = @ \o cps]

AppendCodepoints(a, cps) ==
    [Reserve(a, a.capacity + Len(cps) - 1).arr EXCEPT !.data = @ \o cps]

\* What a buffer is after each append
Buffers(a, appends) ==
    LET b[i \in 0..Len(appends)] == IF i = 0 THEN a ELSE AppendCodepoints(b[i - 1], appends[i])
    IN  b

RECURSIVE Compare(_, _, _)
Compare(u, v, i) ==
    IF i > Len(u) \/ i > Len(v) THEN Len(u) - Len(v)
    ELSE IF u[i] # v[i] THEN u[i] - v[i]
    ELSE Compare(u, v, i + 1)

\* Without folding the lengths are of bytes, which comes to the same for what is left.
StrCompare(u, v, fold, reverse, lang) ==
    LET folded(w) == IF fold THEN FlattenSeq(Fold(w, lang)) ELSE w
        result    == Compare(folded(u), folded(v), 1)
    IN  IF reverse THEN -result ELSE result

=============================================================================
