--------------------------- MODULE DynamicString ---------------------------
(* The calls of a client on one GPArray or GPString (src/include/gpc/array.h *)
(* and string.h, src/src/array.c and string.c), in any order, with the       *)
(* arguments that their documentation allows. An element is a byte; arrays   *)
(* of larger elements are told apart by their size only.                     *)
EXTENDS DynamicArray, LeadByte, SequencesExt

CONSTANTS
    Sources,      \* what clients copy, append and insert
    Wanted,       \* elements a filter keeps
    Image,        \* function that gp_arr_map() applies, of elements to elements
    Sizes,        \* element sizes
    Capacities,   \* capacities clients ask for
    Wholes,       \* texts of whole codepoints
    MaxEstimate,  \* most that the size of a printed object is estimated too large
    MaxLength     \* bound: longest contents that a client asks for

Byte == 0..255

ASSUME DynamicStringAssumption ==
    /\ Sources \subseteq Seq(Byte)
    /\ Wanted \subseteq Byte
    /\ Image \in [Byte -> Byte]
    /\ Sizes \subseteq Nat \ {0}
    /\ Capacities \subseteq 0..MaxSize
    /\ MaxEstimate \in Nat /\ MaxLength \in Nat
    /\ MaxLength + MaxEstimate < MaxSize

VARIABLES
    str,      \* the array
    trunced,  \* what the last call returned
    asked     \* what the last call was asked for, in the words of AbstractSequence

stringVars == <<str, trunced, asked>>

Sequence == INSTANCE AbstractSequence WITH
    content <- str.data,
    limit   <- IF str.allocator THEN -1 ELSE str.capacity,
    lost    <- trunced,
    request <- asked

Request(at, count, by) == Sequence!Request(at, count, by)

Everything(by) == Request(0, Length(str), by)

Keep == Request(0, 0, <<>>)

Calls(result, request) ==
    /\ Length(str) - request.count + Len(request.by) <= MaxLength
    /\ str' = result.arr
    /\ trunced' = result.trunced
    /\ asked' = request

\* Buffers are C arrays, which have at least one element.
NewArrays ==
    {New(size, n) : size \in Sizes, n \in Capacities}
      \cup {Buffered(size, n, alc) : size \in Sizes, n \in Capacities \ {0}, alc \in BOOLEAN}

StringInit == str \in NewArrays /\ trunced = 0 /\ asked = Sequence!Fresh

ReserveCapacity(n) == Calls(Reserve(str, n), Sequence!Room(n))

CopyFrom(src) == Calls(Copy(str, src), Everything(src))

SliceFrom(src, start, end) == Calls(SliceOf(str, src, start, end), Everything(Between(src, start, end)))

SliceItself(start, end) ==
    Calls(SliceInPlace(str, start, end), Everything(Between(str.data, start, end)))

PushElement(element) ==
    LET r == Push(str, element) IN Calls(r, Request(Length(str), 0, <<element>>))

PopElement == Length(str) > 0 /\ Calls(Pop(str), Request(Length(str) - 1, 1, <<>>))

AppendFrom(src) == Calls(AppendAll(str, src), Request(Length(str), 0, src))

InsertFrom(position, src) ==
    /\ position <= Length(str) \/ Full(str)
    /\ Calls(Insert(str, position, src), Request(position, 0, src))

\* No more elements than there are: see the note at Erase.
EraseFrom(position, count) ==
    /\ position + count <= Length(str) \/ (count > 0 /\ position >= Length(str) /\ Full(str))
    /\ Calls(Erase(str, position, count),
             IF position + count <= Length(str) THEN Request(position, count, <<>>) ELSE Keep)

Terminate ==
    Calls(NullTerminate(str), IF str.size = 1 THEN Keep ELSE Sequence!Room(Length(str) + 1))

MapFrom(src) == Calls(MapOf(str, src, Image), Everything(Mapped(Image, src)))

MapItself == Calls(MapInPlace(str, Image), Everything(Mapped(Image, str.data)))

FilterFrom(src) == Calls(FilterOf(str, src, Wanted), Everything(Chosen(src, Wanted)))

FilterItself == Calls(FilterInPlace(str, Wanted), Everything(Chosen(str.data, Wanted)))

-----------------------------------------------------------------------------
(* Functions of strings only *)

IsString == str.size = 1

Replacement(position, count, src) ==
    LET n    == IF position + count > Length(str) THEN Length(str) - position ELSE count
        r    == IF Len(src) > n THEN Reserve(str, Length(str) + Len(src) - n) ELSE Returns(str, 0)
        tail == Between(str.data, position + n, Length(str))
    IN  IF Full(str) /\ position >= Length(str)
        THEN Returns(str, IF Len(src) > count THEN Len(src) - count ELSE 0)
        ELSE Returns(WithTail(r.arr, position, src, tail, r.trunced), r.trunced)

ReplaceFrom(position, count, src) ==
    LET left == Length(str) - position
    IN  /\ IsString
        /\ \/ Full(str)
           \/ position < Length(str)
           \/ count = 0 /\ position = Length(str)
        /\ Calls(Replacement(position, count, src),
                 Request(position, IF left < 0 THEN 0 ELSE IF count < left THEN count ELSE left, src))

Copies(count, src) ==
    [i \in 1..(count * Len(src)) |-> src[((i - 1) % Len(src)) + 1]]

\* Copies until the first that reaches past the capacity, of which a part
Repeated(count, src) ==
    LET r == Reserve(str, count * Len(src))
    IN  Returns([r.arr EXCEPT !.data = Take(Copies(count, src), r.trunced)], r.trunced)

RepeatFrom(count, src) ==
    /\ IsString
    /\ Calls(Repeated(count, src), Everything(Copies(count, src)))

TailStart_Last(s) ==
    IF Len(s) > 0 /\ LeadLength(s[Len(s)]) # 1 THEN Len(s) - 1 ELSE Len(s)

\* From the third last byte on, codepoint by codepoint, up to one that is cut off: a step goes on by
\* a byte at least, so three are enough.
TailStart(s) ==
    LET n(i)  == IF LeadLength(s[i + 1]) = 0 THEN 1 ELSE LeadLength(s[i + 1])
        on(i) == IF i = Len(s) \/ i + n(i) > Len(s) THEN i ELSE i + n(i)
    IN  on(on(on(IF Len(s) < 3 THEN 0 ELSE Len(s) - 3)))

TruncateInvalidTail ==
    LET kept == TailStart(str.data)
    IN  /\ IsString
        /\ str' = [str EXCEPT !.data = Between(@, 0, kept)]
        /\ trunced' = Length(str) - kept
        /\ asked' = Request(kept, Length(str) - kept, <<>>)

\* One object: room is made for the estimate, what does not fit is dropped.
Printed(r, object, estimate) ==
    LET a     == Reserve(r.arr, Length(r.arr) + estimate).arr
        whole == Length(a) + Len(object)
        cut   == IF whole > a.capacity THEN whole - a.capacity ELSE 0
    IN  Returns([a EXCEPT !.data = @ \o Take(object, cut)], r.trunced + cut)

Empty == Returns([str EXCEPT !.data = <<>>], 0)

PrintObjects(first, second, excess) ==
    /\ IsString
    /\ Calls(Printed(Printed(Empty, first, Len(first) + excess), second, Len(second) + excess),
             Everything(first \o second))

\* Every object is followed by a space, the last of which becomes the end of the line.
Spaced(r, object, excess) ==
    LET p == Printed(r, object, Len(object) + excess + 1)
        q == Push(p.arr, 32)
    IN  Returns(q.arr, p.trunced + q.trunced)

PrintLine(first, second, excess) ==
    LET r    == Spaced(Spaced(Empty, first, excess), second, excess)
        line == IF r.trunced = 0 THEN [r.arr EXCEPT !.data[Length(r.arr)] = 10] ELSE r.arr
    IN  /\ IsString
        /\ Calls(Returns(line, r.trunced), Everything(first \o <<32>> \o second \o <<10>>))

-----------------------------------------------------------------------------

\* Another array of the same client
Another ==
    \E a \in NewArrays : str' = a /\ trunced' = 0 /\ asked' = Sequence!Fresh

ArrayNext ==
    \/ \E n \in Capacities : ReserveCapacity(n)
    \/ \E src \in Sources :
        \/ CopyFrom(src) \/ AppendFrom(src) \/ MapFrom(src) \/ FilterFrom(src)
        \/ \E end \in 0..Len(src) : \E start \in 0..end : SliceFrom(src, start, end)
        \/ \E position \in 0..MaxLength : InsertFrom(position, src)
        \/ Len(src) = 1 /\ PushElement(src[1])
    \/ \E end \in 0..Length(str) : \E start \in 0..end : SliceItself(start, end)
    \/ \E position, count \in 0..MaxLength : EraseFrom(position, count)
    \/ PopElement \/ Terminate \/ MapItself \/ FilterItself

StringOnlyNext ==
    \/ \E src \in Sources :
        \/ \E position, count \in 0..MaxLength : ReplaceFrom(position, count, src)
        \/ \E count \in 0..2 : RepeatFrom(count, src)
        \/ \E second \in Sources, excess \in 0..MaxEstimate :
            PrintObjects(src, second, excess) \/ PrintLine(src, second, excess)
    \/ TruncateInvalidTail

StringNext == ArrayNext \/ StringOnlyNext

(* PROPERTIES *)

\* Whatever is called in whatever order, the contents are what was asked for, an array without
\* allocator keeps the longest prefix that fits, and the call returns how much it dropped: over
\* reallocations, moves of the tail, filters that push one by one and estimates of printed sizes.
ImplementsSequence == Sequence!Spec

\* The memory has room for the capacity, with the byte that a null terminator needs after it, and
\* the elements are within the capacity: in a buffer of the client, after every reallocation, and
\* while a line is read whose first byte is stored without looking.
HasRoom ==
    /\ Length(str) <= str.capacity
    /\ str.capacity + IsChar(str.size) <= str.block

\* A codepoint starts with byte i of s.
Leads(s, i) == LeadLength(s[i]) # 0

\* s is of whole codepoints: the bytes that a first byte announces follow it, and are not first bytes
\* themselves, and after them comes another codepoint or the end.
IsWhole(s) ==
    /\ s \in Seq(Byte)
    /\ Len(s) > 0 => Leads(s, 1)
    /\ \A i \in 1..Len(s) : Leads(s, i) =>
         /\ i + LeadLength(s[i]) - 1 <= Len(s)
         /\ \A j \in i + 1..i + LeadLength(s[i]) - 1 : ~Leads(s, j)
         /\ i + LeadLength(s[i]) <= Len(s) => Leads(s, i + LeadLength(s[i]))

\* The texts are of whole codepoints, and all beginnings of them that are belong to them.
WholesAreTexts ==
    \A w \in Wholes : /\ IsWhole(w)
                      /\ \A n \in 0..Len(w) : IsWhole(SubSeq(w, 1, n)) => SubSeq(w, 1, n) \in Wholes

\* What is a prefix of a text is cut back to whole codepoints, and to no fewer of them than fit.
TailIsWhole ==
    LET kept == Between(str.data, 0, TailStart(str.data))
    IN  (\E text \in Wholes : IsPrefix(str.data, text)) =>
            /\ kept \in Wholes
            /\ \A t \in Wholes : IsPrefix(t, str.data) => Len(t) <= Len(kept)

=============================================================================
