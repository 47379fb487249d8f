------------------------------ MODULE FileInput ------------------------------
(* Reading from a file into a string, byte by byte (src/src/io.c 24 to 145). *)
(* The file is a sequence of codepoints, each a sequence of bytes.           *)
EXTENDS DynamicString

CONSTANTS
    Files,       \* contents of files
    Delimiters,  \* what gp_file_read_until() is given: sequences of bytes
    Spaces       \* codepoints that gp_file_read_strip() strips

ASSUME FileInputAssumption ==
    /\ Files \subseteq Seq(Seq(Byte) \ {<<>>})
    /\ Delimiters \subseteq Seq(Byte) \ {<<>>}

VARIABLES
    file,     \* what is left to read
    reading,  \* the function that is at work: "line", "until", "none", or "aborted" by its assertion
    until,    \* delimiter of the read at work
    matched   \* length of the part of the delimiter that was just read

fileVars == <<file, reading, until, matched>>

vars == <<stringVars, fileVars>>

Newline == <<10>>

TextOf(f) == FlattenSeq(f)

FileInit == file \in Files /\ reading = "none" /\ until = Newline /\ matched = 0

\* A byte that does not go on with the delimiter is not tried as its beginning.
MatchedAfter_Kept(n, byte) == IF byte = until[n + 1] THEN n + 1 ELSE n

MatchedAfter(n, byte) == IF byte = until[n + 1] THEN n + 1 ELSE 0

NextByte == Head(Head(file))

\* Only newlines are looked for in the last byte; otherwise in the state of the match.
AtDelimiter == matched = Len(until)

Advance ==
    file' = IF Len(Head(file)) = 1 THEN Tail(file) ELSE <<Tail(Head(file))>> \o Tail(file)

\* The first byte is stored without looking at the capacity.
StartReading(function, delimiter) ==
    /\ IsString /\ reading = "none" /\ file # <<>>
    /\ function = "line" => delimiter = Newline
    /\ str' = [str EXCEPT !.data = <<NextByte>>]
    /\ trunced' = 0
    /\ asked' = Everything(<<NextByte>>)
    /\ reading' = function
    /\ until' = delimiter
    /\ matched' = IF NextByte = delimiter[1] THEN 1 ELSE 0
    /\ Advance

\* The end is looked for while there is room only.
HasSpace == Length(str) < str.capacity

Reads == reading \in {"line", "until"}

ReadByte ==
    /\ Reads /\ HasSpace /\ ~AtDelimiter /\ file # <<>>
    /\ str' = [str EXCEPT !.data = Append(@, NextByte)]
    /\ trunced' = 0
    /\ asked' = Request(Length(str), 0, <<NextByte>>)
    /\ matched' = MatchedAfter(matched, NextByte)
    /\ Advance
    /\ UNCHANGED <<reading, until>>

GrowForRead ==
    /\ Reads /\ ~HasSpace
    /\ str.allocator => str.capacity < MaxSize
    /\ IF str.allocator
       THEN str' = Reserve(str, str.capacity + 1).arr /\ reading' = reading
       ELSE reading' = "aborted" /\ str' = str
    /\ UNCHANGED <<trunced, asked, file, until, matched>>

EndReading ==
    /\ Reads /\ HasSpace /\ (AtDelimiter \/ file = <<>>)
    /\ reading' = "none"
    /\ UNCHANGED <<stringVars, file, until, matched>>

\* Codepoints of Spaces in front are dropped, and the one after the word. The call returns false
\* when the file ends, even if it has read a word.
Word(f) ==
    LET words == {i \in 1..Len(f) : f[i] \notin Spaces}
        first == Min(words)
        ends  == {i \in first..Len(f) : f[i] \in Spaces}
    IN  IF words = {} THEN [word |-> <<>>, rest |-> <<>>]
        ELSE IF ends = {} THEN [word |-> SubSeq(f, first, Len(f)), rest |-> <<>>]
        ELSE [word |-> SubSeq(f, first, Min(ends) - 1), rest |-> SubSeq(f, Min(ends) + 1, Len(f))]

AppendCodepoint(r, codepoint) ==
    LET p == AppendAll(r.arr, codepoint)
    IN  Returns(p.arr, r.trunced + p.trunced)

ReadStrip ==
    LET w == Word(file)
        taken[i \in 0..Len(w.word)] ==
            IF i = 0 THEN Empty ELSE AppendCodepoint(taken[i - 1], w.word[i])
        r == taken[Len(w.word)]
    IN  /\ IsString /\ reading = "none"
        /\ IF r.trunced = 0
           THEN Calls(r, Everything(TextOf(w.word))) /\ file' = w.rest /\ reading' = reading
           ELSE reading' = "aborted" /\ UNCHANGED <<stringVars, file>>
        /\ UNCHANGED <<until, matched>>

OpenAnother ==
    /\ reading = "none"
    /\ file' \in Files
    /\ UNCHANGED <<stringVars, reading, until, matched>>

FileNext ==
    \/ StartReading("line", Newline)
    \/ \E d \in Delimiters : StartReading("until", d)
    \/ ReadByte \/ GrowForRead \/ EndReading \/ ReadStrip \/ OpenAnother

StringCalls == reading = "none" /\ (StringNext \/ Another) /\ UNCHANGED fileVars

Init == StringInit /\ FileInit

Next == StringCalls \/ FileNext

Spec == Init /\ [][Next]_vars

-----------------------------------------------------------------------------
(* PROPERTIES *)

\* The first n bytes of d are the last n of the first i bytes of x.
At(x, d, n, i) == n <= i /\ \A j \in 1..n : x[i - n + j] = d[j]

\* In x, delimiter d is broken off after its first k bytes by a byte with which, or with some in
\* front of it and which, d begins again.
Restarts(x, d) ==
    \E k \in 1..Len(d) - 1, i \in 1..Len(x), n \in 1..Len(d) :
        At(x, d, k, i - 1) /\ x[i] # d[k + 1] /\ n <= k /\ At(x, d, n, i)

\* What the matching of the code cannot deal with is in no text.
NothingRestarts == \A f \in Files, d \in Delimiters : ~Restarts(TextOf(f), d)

\* Positions in s after an occurrence of t
Ends(s, t) == {i \in Len(t)..Len(s) : SubSeq(s, i - Len(t) + 1, i) = t}

\* What a read has taken ends at the first delimiter, however often the string had to grow in the
\* middle of it: a delimiter is never read past, and short of one only the end of the file stops it.
ReadsEndAtDelimiter ==
    Reads => /\ Ends(str.data, until) \subseteq {Length(str)}
             /\ AtDelimiter <=> Ends(str.data, until) # {}

=============================================================================
