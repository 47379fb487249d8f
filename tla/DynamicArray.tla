---------------------------- MODULE DynamicArray ----------------------------
(* GPArray: a header with length, capacity, allocation and allocator before  *)
(* the elements (src/include/gpc/array.h, src/src/array.c). GPString is an   *)
(* array of elements of size 1, which has one byte more than its capacity    *)
(* says, for a null terminator.                                              *)
(*                                                                           *)
(* The operators take an array and return it changed, with what the function *)
(* returned; DynamicString has the calls as actions. Positions count from 0. *)
EXTENDS Alignment, Sequences

CONSTANTS
  AllocAlignment,  \* GP_ALLOC_ALIGNMENT, in bytes
  IntBits          \* bits of an int, in which the code shifts; 32, smaller in the runs

ASSUME AllocAlignmentAssumption == AllocAlignment \in Nat /\ AllocAlignment >= 2
ASSUME IntBitsAssumption == IntBits \in Nat /\ IntBits >= 2

\* 64 - __builtin_clzll(x) of src/include/gpc/utils.h: how many bits x has
BitLength(x) == CHOOSE k \in 0..IntBits : x < PowerOfTwo[k] /\ (k > 0 => PowerOfTwo[k - 1] <= x)

\* Room is doubled by shifting a 1 of type int: it never reaches the sign bit for sizes up to this.
MaxSize == PowerOfTwo[IntBits - 2] - 1

NextPowerOf2(x) == IF x = 0 THEN 1 ELSE PowerOfTwo[BitLength(x)]

\* data: elements up to length; block: elements the memory has room for
ArrayRecord(Data) == [data: Data, capacity: Nat, block: Nat, size: Nat \ {0},
                      allocator: BOOLEAN, allocation: BOOLEAN]

IsChar(size) == IF size = 1 THEN 1 ELSE 0

Length(a) == Len(a.data)

Returns(a, trunced) == [arr |-> a, trunced |-> trunced]

\* Elements [start, end) of s
Between(s, start, end) == SubSeq(s, start + 1, end)

New(size, capacity) ==
    LET bytes == RoundToAligned(size * capacity + IsChar(size), AllocAlignment)
    IN  [data |-> <<>>, capacity |-> bytes \div size - IsChar(size), block |-> bytes \div size,
         size |-> size, allocator |-> TRUE, allocation |-> TRUE]

\* An array in a GPArrayBuffer or GPStringBuffer of the client
Buffered(size, capacity, allocator) ==
    [data |-> <<>>, capacity |-> capacity, block |-> capacity + IsChar(size),
     size |-> size, allocator |-> allocator, allocation |-> FALSE]

Reallocate_Whole(a, capacity) ==
    [a EXCEPT !.capacity = capacity, !.block = capacity, !.allocation = TRUE]

Reallocate(a, capacity) ==
    [a EXCEPT !.capacity = capacity - IsChar(a.size), !.block = capacity, !.allocation = TRUE]

Reserve(a, capacity) ==
    IF capacity <= a.capacity THEN Returns(a, 0)
    ELSE IF ~a.allocator THEN Returns(a, capacity - a.capacity)
    ELSE Returns(Reallocate(a, NextPowerOf2(capacity)), 0)

\* The elements after a reservation that came short by trunced
Take(s, trunced) == Between(s, 0, Len(s) - trunced)

Copy(a, src) ==
    LET r == Reserve(a, Len(src))
    IN  Returns([r.arr EXCEPT !.data = Take(src, r.trunced)], r.trunced)

SliceOf(a, src, start, end) == Copy(a, Between(src, start, end))

SliceInPlace(a, start, end) == Returns([a EXCEPT !.data = Between(@, start, end)], 0)

Push(a, element) ==
    LET r == Reserve(a, Length(a) + 1)
    IN  IF r.trunced = 0 THEN Returns([r.arr EXCEPT !.data = Append(@, element)], 0)
        ELSE Returns(r.arr, 1)

Pop(a) == Returns([a EXCEPT !.data = Take(@, 1)], 0)

AppendAll(a, src) ==
    LET r == Reserve(a, Length(a) + Len(src))
    IN  Returns([r.arr EXCEPT !.data = @ \o Take(src, r.trunced)], r.trunced)

WithTail_SrcFirst(a, position, src, tail, trunced) ==
    LET cut == IF trunced > Len(src) THEN Len(src) ELSE trunced
    IN  [a EXCEPT !.data = Between(@, 0, position) \o Take(src, cut) \o Take(tail, trunced - cut)]

\* What does not fit is cut from the tail first, then from what is inserted.
WithTail(a, position, src, tail, trunced) ==
    LET cut == IF trunced > Len(tail) THEN trunced - Len(tail) ELSE 0
    IN  [a EXCEPT !.data = Between(@, 0, position) \o Take(src, cut) \o Take(tail, trunced - cut)]

Full(a) == ~a.allocator /\ Length(a) = a.capacity

Insert(a, position, src) ==
    LET r == Reserve(a, Length(a) + Len(src))
    IN  IF Full(a) /\ position >= Length(a) THEN Returns(a, Len(src))
        ELSE Returns(WithTail(r.arr, position, src, Between(a.data, position, Length(a)), r.trunced),
                     r.trunced)

\* The code clamps count only when it is 0; more than there is underflows.
Erase(a, position, count) ==
    IF count # 0 /\ Full(a) /\ position >= Length(a) THEN Returns(a, 0)
    ELSE Returns([a EXCEPT !.data = Between(@, 0, position)
                                    \o Between(@, position + count, Length(a))], 0)

\* trunced # 0 stands for the NULL that is returned
NullTerminate(a) ==
    IF a.size = 1 THEN Returns(a, 0) ELSE Reserve(a, Length(a) + 1)

Mapped(f, s) == [i \in DOMAIN s |-> f[s[i]]]

MapOf(a, src, f) == Copy(a, Mapped(f, src))

MapInPlace(a, f) == Returns([a EXCEPT !.data = Mapped(f, @)], 0)

Chosen(s, keep) ==
    LET chosen[i \in 0..Len(s)] ==
            IF i = 0 THEN <<>>
            ELSE IF s[i] \in keep THEN Append(chosen[i - 1], s[i])
            ELSE chosen[i - 1]
    IN  chosen[Len(s)]

FilterInPlace(a, keep) == Returns([a EXCEPT !.data = Chosen(@, keep)], 0)

PushNext(r, element) ==
    LET p == Push(r.arr, element) IN Returns(p.arr, r.trunced + p.trunced)

\* What is chosen of a source that may not fit is pushed, one element after another.
FilterOf(a, src, keep) ==
    LET chosen == Chosen(src, keep)
        pushed[i \in 0..Len(chosen)] ==
            IF i = 0 THEN Returns([a EXCEPT !.data = <<>>], 0)
            ELSE PushNext(pushed[i - 1], chosen[i])
    IN  IF Len(src) <= a.capacity THEN Returns([a EXCEPT !.data = chosen], 0)
        ELSE pushed[Len(chosen)]

=============================================================================
