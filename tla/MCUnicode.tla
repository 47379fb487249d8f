------------------------------ MODULE MCUnicode ------------------------------
(* Bytes with which every row of Table 3-7 is met and missed by one byte, and *)
(* letters that take part in every rule of the full cases.                   *)
EXTENDS Unicode

MCAlphabet == {44, 97, \h80, \h90, \hA4, \hC3, \hED, \hF0}

MCSets == {{<<44>>}, {<<97>>, <<\hC3, \hA4>>}}

MCNeedles == {<<44>>, <<97, 44>>, <<\hC3, \hA4>>}

\* a, A, i, I, sharp s, dotless i, I with dot, sigma, iota subscript, dot above, acute, n apostrophe
MCLetters == {\h61, \h49, \h69, \hDF, \h130, \h131, \h3A3, \h345, \h307, \h300, \h149, \h390, \h250}

Cased == Covered(UpperLatin1 \cup UpperLatin \cup UpperGreek \cup UpperCyrillic \cup UpperArmenian
    \cup UpperExtended \cup UpperGreekExtended \cup UpperSymbols \cup UpperVai \cup UpperOthers
    \cup LowerLatin1 \cup LowerLatin \cup LowerGreek \cup LowerCyrillic \cup LowerExtended
    \cup LowerGreekExtended \cup LowerSymbols \cup LowerCoptic \cup LowerVai \cup LowerOthers)

\* All that any table has, and what is next to it
MCCodepoints ==
    UNION {(c - 1)..(c + 1) : c \in Cased \cup {e[1] : e \in ExpandsBoth \cup ExpandsUpper \cup ExpandsFold}}

=============================================================================
