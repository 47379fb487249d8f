----------------------------- MODULE MCFileInput -----------------------------
(* Strings and arrays of up to six elements. The texts are of codepoints of  *)
(* one, two and four bytes; a file has lines shorter, as long and longer     *)
(* than the strings that they are read into.                                 *)
EXTENDS FileInput

a == <<97>>
ae == <<195, 164>>
face == <<240, 159, 152, 128>>

Codepoints == {a, ae, face}

TwoSources == {<<>>, a, ae}

AllWholes == {FlattenSeq(w) : w \in UNION {[1..n -> Codepoints] : n \in 0..3}}

OnlyLetters == {97, 195, 164}

Swap == [b \in 0..255 |-> IF b = 97 THEN 98 ELSE b]

MCFiles == {<<Newline, a, a, Newline, ae, a>>, <<<<44>>, ae, <<32>>, face, <<44>>, <<32>>>>}

MCDelimiters == {<<44, 32>>, a}

MCSpaces == {<<32>>, Newline}

\* The theorems on codepoints and delimiters assume this of the texts.
ASSUME MCTexts == WholesAreTexts /\ NothingRestarts

\* What the last call was asked for and what it returned do not bear on the next one.
View == <<str, file, reading, until, matched>>

=============================================================================
