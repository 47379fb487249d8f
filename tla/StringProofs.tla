---------------------------- MODULE StringProofs ----------------------------
(***************************************************************************)
(* Proofs about arrays, strings and reads from files in modules            *)
(* DynamicArray, DynamicString and FileInput, for any elements, sources,   *)
(* sizes, capacities, files and delimiters.                                *)
(*                                                                         *)
(* The argument. A call on an array asks for contents, and its result      *)
(* Holds them: it is an array with the longest prefix that fits, and says  *)
(* how much it dropped. That composes: of a call after a call nothing more *)
(* fits once something was dropped (Continued), so filters that push,      *)
(* words that are appended codepoint by codepoint and printed objects hold *)
(* the whole of what they were asked for. What is inserted in front of a   *)
(* tail is cut from behind (KeptIsPrefix). A result that Holds what was    *)
(* asked for is a step of AbstractSequence (Edited), the others are        *)
(* refused or make room.                                                   *)
(*                                                                         *)
(* A beginning of whole codepoints ends in a codepoint of four bytes at    *)
(* most, so the steps from its third last byte on end where that one       *)
(* starts (TailStartIsLastBoundary). While a read goes on, what it has     *)
(* matched is the longest beginning of the delimiter that what it has      *)
(* taken ends with (ReadOK).                                               *)
(*                                                                         *)
(* The recursive functions of the model reach the provers as CHOOSE: that  *)
(* there is a function that satisfies the equation is proved first, as     *)
(* ...Exists, and that the operator is that function, as ...Steps.         *)
(***************************************************************************)
EXTENDS FileInput, CommonLemmas

\* The largest size is a number.
LEMMA MaxSizeInt == MaxSize \in Int
<1>1. IntBits - 2 \in Nat BY IntBitsAssumption
<1>2. PowerOfTwo[IntBits - 2] \in Nat BY <1>1, PowersOfTwo
<1> QED BY <1>2 DEF MaxSize

\* PowerOfTwo[BitLength(x)] is the first power above x.
LEMMA BitLengths ==
  ASSUME NEW x \in 0 .. MaxSize
  PROVE  /\ BitLength(x) \in Nat
         /\ x < PowerOfTwo[BitLength(x)]
<1> DEFINE p == PowerOfTwo
           T == {k \in Nat : x < p[k]}
<1> HIDE DEF p
<1>1. p[0] = 1 /\ \A i \in Nat : p[i] \in Nat /\ i < p[i]
  BY PowersOfTwo, PowersExceed DEF p
<1>2. IntBits - 2 \in Nat /\ IntBits \in Nat BY IntBitsAssumption
<1>3. IntBits - 2 \in T
  <2>1. x <= p[IntBits - 2] - 1 /\ x \in Nat
    <3>1. MaxSize = p[IntBits - 2] - 1 BY DEF MaxSize, p
    <3>2. MaxSize \in Int BY <1>1, <1>2, <3>1
    <3> QED BY <3>1, <3>2
  <2> QED BY <2>1, <1>2, <1>1
<1>4. PICK k \in T : \A y \in T : k <= y
  <2>1. T \subseteq Nat /\ T # {} BY <1>3
  <2> HIDE DEF T
  <2> QED BY <2>1, Least
<1>5. k \in 0 .. IntBits /\ x < p[k]
  BY <1>4, <1>3, <1>2
<1>6. k > 0 => p[k - 1] <= x
  <2>1. SUFFICES ASSUME k > 0 PROVE p[k - 1] <= x OBVIOUS
  <2>2. k - 1 \in Nat /\ ~ (k <= k - 1) BY <2>1, <1>5
  <2>3. k - 1 \notin T BY <1>4, <2>2
  <2>4. ~ (x < p[k - 1]) BY <2>2, <2>3
  <2>5. p[k - 1] \in Nat BY <1>1, <2>2
  <2>6. x \in Int OBVIOUS
  <2> QED BY <2>4, <2>5, <2>6
<1>7. \E y \in 0 .. IntBits : x < PowerOfTwo[y] /\ (y > 0 => PowerOfTwo[y - 1] <= x)
  BY <1>5, <1>6 DEF p
<1>8. BitLength(x) \in 0 .. IntBits /\ x < PowerOfTwo[BitLength(x)]
  BY <1>7, Zenon DEF BitLength
<1> QED BY <1>8, <1>2

\* There is more room after a reallocation than was asked for.
LEMMA NextPower ==
  ASSUME NEW x \in 0 .. MaxSize
  PROVE  NextPowerOf2(x) \in Nat /\ x < NextPowerOf2(x)
<1>1. BitLength(x) \in Nat /\ x < PowerOfTwo[BitLength(x)] BY BitLengths
<1>2. PowerOfTwo[BitLength(x)] \in Nat BY <1>1, PowersOfTwo
<1> QED BY <1>1, <1>2 DEF NextPowerOf2

\* The inductive invariant of an array: HasRoom, and a string holds a byte at least, which
\* StartReading stores without looking.
IsArray(a) ==
  /\ a \in ArrayRecord(Seq(Byte))
  /\ Len(a.data) <= a.capacity
  /\ a.capacity + IsChar(a.size) <= a.block
  /\ a.size = 1 => a.capacity > 0

\* How many of n elements array a, whatever is done to it, cannot hold
Dropped(a, n) == IF a.allocator \/ n <= a.capacity THEN 0 ELSE n - a.capacity

\* b is what calls can make of a: only an array with an allocator changes its capacity.
SameKind(a, b) ==
  /\ b.size = a.size
  /\ b.allocator = a.allocator
  /\ ~ a.allocator => b.capacity = a.capacity

\* Result r of a call on array a holds the longest prefix of whole that fits.
Holds(a, r, whole) ==
  /\ IsArray(r.arr)
  /\ SameKind(a, r.arr)
  /\ r.arr.data = SubSeq(whole, 1, Len(whole) - r.trunced)
  /\ r.trunced = Dropped(a, Len(whole))

\* Elements within the capacity leave an array an array.
LEMMA WithData ==
  ASSUME NEW a, IsArray(a), NEW s \in Seq(Byte), Len(s) <= a.capacity
  PROVE  /\ IsArray([a EXCEPT !.data = s])
         /\ SameKind(a, [a EXCEPT !.data = s])
         /\ [a EXCEPT !.data = s].data = s
         /\ [a EXCEPT !.data = s].capacity = a.capacity
         /\ [a EXCEPT !.data = s].allocator = a.allocator
BY DEF IsArray, SameKind, ArrayRecord, IsChar

\* What gp_arr_reserve() promises
LEMMA Reserved ==
  ASSUME NEW a, IsArray(a), NEW n \in 0 .. MaxSize
  PROVE  /\ IsArray(Reserve(a, n).arr)
         /\ SameKind(a, Reserve(a, n).arr)
         /\ Reserve(a, n).arr.data = a.data
         /\ Reserve(a, n).trunced = Dropped(a, n)
         /\ n - Dropped(a, n) <= Reserve(a, n).arr.capacity
         /\ Dropped(a, n) \in Nat
<1>0. a.capacity \in Nat /\ a.size \in Nat \ {0} /\ n \in Nat BY DEF IsArray, ArrayRecord
<1>1. CASE n <= a.capacity
  BY <1>0, <1>1 DEF Reserve, Returns, Dropped, SameKind
<1>2. CASE ~ (n <= a.capacity) /\ ~ a.allocator
  BY <1>0, <1>2 DEF Reserve, Returns, Dropped, SameKind
<1>3. CASE ~ (n <= a.capacity) /\ a.allocator
  <2>1. PICK m \in Nat : m = NextPowerOf2(n) /\ n < m BY NextPower
  <2>2. Reserve(a, n) = Returns(Reallocate(a, m), 0) BY <1>3, <2>1 DEF Reserve
  <2>3. n >= 1 /\ n > a.capacity /\ IsChar(a.size) \in {0, 1} BY <1>0, <1>3 DEF IsChar
  <2> DEFINE b == [a EXCEPT !.capacity = m - IsChar(a.size), !.block = m, !.allocation = TRUE]
  <2>4. b = Reallocate(a, m) BY DEF Reallocate
  <2>5. b.capacity = m - IsChar(a.size) /\ b.block = m /\ b.data = a.data /\ b.size = a.size
        /\ b.allocator = a.allocator /\ b.allocation = TRUE
    BY DEF IsArray, ArrayRecord
  <2>6. m - IsChar(a.size) \in Nat /\ n <= m - IsChar(a.size) /\ m - IsChar(a.size) >= 1
    BY <2>1, <2>3, <1>0
  <2>7. b \in ArrayRecord(Seq(Byte)) BY <2>1, <2>6 DEF IsArray, ArrayRecord
  <2> HIDE DEF b
  <2>8. Len(a.data) <= a.capacity /\ Len(a.data) \in Nat BY DEF IsArray, ArrayRecord
  <2>9. IsArray(b)
    <3>1. Len(b.data) <= b.capacity BY <2>5, <2>6, <2>8, <2>3, <1>0
    <3>2. b.capacity + IsChar(b.size) <= b.block BY <2>5, <2>1, <2>3
    <3> QED BY <2>7, <3>1, <3>2, <2>5, <2>6 DEF IsArray
  <2>10. SameKind(a, b) BY <2>5, <1>3 DEF SameKind
  <2>11. Dropped(a, n) = 0 BY <1>3 DEF Dropped
  <2> QED BY <2>2, <2>4, <2>5, <2>6, <2>9, <2>10, <2>11, <1>0 DEF Returns
<1> QED BY <1>1, <1>2, <1>3

\* A prefix that reaches no further than the first part, and one that does
LEMMA PrefixOfConcat ==
  ASSUME NEW B, NEW s \in Seq(B), NEW u \in Seq(B), NEW n \in 0 .. Len(s) + Len(u)
  PROVE  SubSeq(s \o u, 1, n) = IF n <= Len(s) THEN SubSeq(s, 1, n)
                                ELSE s \o SubSeq(u, 1, n - Len(s))
<1>0. Len(s) \in Nat /\ Len(u) \in Nat /\ n \in Nat OBVIOUS
<1>1. s \o u \in Seq(B) /\ Len(s \o u) = Len(s) + Len(u)
      /\ \A i \in 1 .. Len(s) + Len(u) : (s \o u)[i] = IF i <= Len(s) THEN s[i] ELSE u[i - Len(s)]
  BY ConcatProperties
<1>2. SubSeq(s \o u, 1, n) \in Seq(B) /\ Len(SubSeq(s \o u, 1, n)) = n
      /\ \A i \in 1 .. n : SubSeq(s \o u, 1, n)[i] = (s \o u)[i]
  BY <1>0, <1>1
<1>3. CASE n <= Len(s)
  <2>1. SubSeq(s, 1, n) \in Seq(B) /\ Len(SubSeq(s, 1, n)) = n
        /\ \A i \in 1 .. n : SubSeq(s, 1, n)[i] = s[i]
    BY <1>0, <1>3
  <2>2. \A i \in 1 .. n : SubSeq(s \o u, 1, n)[i] = SubSeq(s, 1, n)[i]
    BY <1>0, <1>1, <1>2, <1>3, <2>1
  <2>3. SubSeq(s \o u, 1, n) = SubSeq(s, 1, n) BY <1>2, <2>1, <2>2, SeqEqual
  <2> QED BY <2>3, <1>3
<1>4. CASE ~ (n <= Len(s))
  <2> DEFINE m == n - Len(s)
             v == SubSeq(u, 1, m)
  <2>0. m \in Nat /\ m <= Len(u) /\ Len(s) + m = n BY <1>0, <1>4
  <2>1. v \in Seq(B) /\ Len(v) = m /\ \A i \in 1 .. m : v[i] = u[i]
    BY <1>0, <2>0
  <2> HIDE DEF v, m
  <2>2. s \o v \in Seq(B) /\ Len(s \o v) = Len(s) + Len(v)
        /\ \A i \in 1 .. Len(s) + Len(v) : (s \o v)[i] = IF i <= Len(s) THEN s[i] ELSE v[i - Len(s)]
    BY <2>1, ConcatProperties
  <2>3. ASSUME NEW i \in 1 .. n PROVE SubSeq(s \o u, 1, n)[i] = (s \o v)[i]
    <3>1. CASE i <= Len(s) BY <3>1, <1>1, <1>2, <2>1, <2>2, <1>0, <2>0
    <3>2. CASE ~ (i <= Len(s))
      <4>1. i - Len(s) \in 1 .. m BY <3>2, <1>0, <2>0
      <4>2. (s \o u)[i] = u[i - Len(s)] BY <1>1, <3>2, <1>0
      <4>3. (s \o v)[i] = v[i - Len(s)] BY <2>1, <2>2, <3>2, <1>0, <2>0
      <4> QED BY <4>1, <4>2, <4>3, <1>2, <2>1
    <3> QED BY <3>1, <3>2
  <2>4. Len(SubSeq(s \o u, 1, n)) = Len(s \o v) BY <1>2, <2>0, <2>1, <2>2
  <2>5. SubSeq(s \o u, 1, n) = s \o v
    BY <1>2, <2>2, <2>3, <2>4, SeqEqual
  <2> QED BY <2>5, <1>4 DEF v, m
<1> QED BY <1>3, <1>4

\* The whole is its own prefix; the prefix of a prefix is a prefix.
LEMMA PrefixFacts ==
  ASSUME NEW B, NEW s \in Seq(B)
  PROVE  /\ SubSeq(s, 1, Len(s)) = s
         /\ SubSeq(s, 1, 0) = << >>
         /\ \A n \in 0 .. Len(s) :
              /\ SubSeq(s, 1, n) \in Seq(B) /\ Len(SubSeq(s, 1, n)) = n
              /\ \A m \in 0 .. n : SubSeq(SubSeq(s, 1, n), 1, m) = SubSeq(s, 1, m)
<1>1. SubSeq(s, 1, Len(s)) = s OBVIOUS
<1>2. SubSeq(s, 1, 0) = << >> OBVIOUS
<1>3. ASSUME NEW n \in 0 .. Len(s)
      PROVE  /\ SubSeq(s, 1, n) \in Seq(B) /\ Len(SubSeq(s, 1, n)) = n
             /\ \A m \in 0 .. n : SubSeq(SubSeq(s, 1, n), 1, m) = SubSeq(s, 1, m)
  <2>1. Len(s) \in Nat /\ n \in Nat OBVIOUS
  <2> DEFINE p == SubSeq(s, 1, n)
  <2>2. p \in Seq(B) /\ Len(p) = n /\ \A i \in 1 .. n : p[i] = s[i] BY <2>1
  <2> HIDE DEF p
  <2>3. ASSUME NEW m \in 0 .. n PROVE SubSeq(p, 1, m) = SubSeq(s, 1, m)
    <3>1. SubSeq(p, 1, m) \in Seq(B) /\ Len(SubSeq(p, 1, m)) = m
          /\ \A i \in 1 .. m : SubSeq(p, 1, m)[i] = p[i]
      BY <2>1, <2>2
    <3>2. SubSeq(s, 1, m) \in Seq(B) /\ Len(SubSeq(s, 1, m)) = m
          /\ \A i \in 1 .. m : SubSeq(s, 1, m)[i] = s[i]
      BY <2>1
    <3>3. \A i \in 1 .. m : SubSeq(p, 1, m)[i] = SubSeq(s, 1, m)[i]
      BY <2>1, <2>2, <3>1, <3>2
    <3> QED BY <3>1, <3>2, <3>3, SeqEqual
  <2> QED BY <2>2, <2>3 DEF p
<1> QED BY <1>1, <1>2, <1>3

\* What is dropped is what is past the capacity.
LEMMA DroppedRange ==
  ASSUME NEW a, IsArray(a), NEW n \in Nat
  PROVE  /\ Dropped(a, n) \in 0 .. n
         /\ n - Dropped(a, n) <= a.capacity \/ a.allocator
         /\ ~ a.allocator => n - Dropped(a, n) = IF n <= a.capacity THEN n ELSE a.capacity
         /\ a.allocator => Dropped(a, n) = 0
         /\ n <= a.capacity => Dropped(a, n) = 0
         /\ a.capacity \in Nat
<1>1. a.capacity \in Nat /\ a.allocator \in BOOLEAN BY DEF IsArray, ArrayRecord
<1>2. CASE a.allocator \/ n <= a.capacity BY <1>1, <1>2 DEF Dropped
<1>3. CASE ~ a.allocator /\ ~ (n <= a.capacity) BY <1>1, <1>3 DEF Dropped
<1> QED BY <1>2, <1>3, <1>1

\* Arrays of one kind drop the same.
LEMMA SameKindDrops ==
  ASSUME NEW a, NEW b, SameKind(a, b), NEW n
  PROVE  ~ a.allocator => Dropped(b, n) = Dropped(a, n)
BY DEF SameKind, Dropped

\* A call after a call
LEMMA KindsCompose ==
  ASSUME NEW a, NEW b, NEW c, SameKind(a, b), SameKind(b, c)
  PROVE  SameKind(a, c)
BY DEF SameKind

\* Room is made for all of it, and what fits is stored.
LEMMA Filled ==
  ASSUME NEW a, IsArray(a), NEW whole \in Seq(Byte), Len(whole) <= MaxSize,
         NEW r, r = Reserve(a, Len(whole))
  PROVE  Holds(a, Returns([r.arr EXCEPT !.data = SubSeq(whole, 1, Len(whole) - r.trunced)], r.trunced),
               whole)
<1>1. Len(whole) \in 0 .. MaxSize /\ Len(whole) \in Nat
  <2>1. MaxSize \in Int BY MaxSizeInt
  <2> QED BY <2>1
<1>2. IsArray(r.arr) /\ SameKind(a, r.arr) /\ r.arr.data = a.data
      /\ r.trunced = Dropped(a, Len(whole)) /\ Len(whole) - r.trunced <= r.arr.capacity
  BY <1>1, Reserved
<1>3. r.trunced \in 0 .. Len(whole) BY <1>1, <1>2, DroppedRange
<1> DEFINE s == SubSeq(whole, 1, Len(whole) - r.trunced)
<1>4. s \in Seq(Byte) /\ Len(s) = Len(whole) - r.trunced
  <2>1. Len(whole) - r.trunced \in 0 .. Len(whole) BY <1>1, <1>3
  <2> QED BY <2>1, PrefixFacts
<1> DEFINE b == [r.arr EXCEPT !.data = s]
<1> HIDE DEF s
<1>5. IsArray(b) /\ SameKind(r.arr, b) /\ b.data = s
  BY <1>2, <1>4, WithData
<1> HIDE DEF b
<1>6. SameKind(a, b) BY <1>2, <1>5, KindsCompose
<1>7. Returns(b, r.trunced).arr = b /\ Returns(b, r.trunced).trunced = r.trunced BY DEF Returns
<1>8. Holds(a, Returns(b, r.trunced), whole)
  BY <1>2, <1>5, <1>6, <1>7 DEF Holds, s
<1> QED BY <1>8 DEF b, s

\* What is no longer than the capacity is stored whole.
LEMMA Within ==
  ASSUME NEW a, IsArray(a), NEW s \in Seq(Byte), Len(s) <= a.capacity
  PROVE  Holds(a, Returns([a EXCEPT !.data = s], 0), s)
<1>1. IsArray([a EXCEPT !.data = s]) /\ SameKind(a, [a EXCEPT !.data = s])
      /\ [a EXCEPT !.data = s].data = s
  BY WithData
<1>2. Dropped(a, Len(s)) = 0 BY DEF Dropped
<1>3. SubSeq(s, 1, Len(s) - 0) = s OBVIOUS
<1> DEFINE b == [a EXCEPT !.data = s]
<1> HIDE DEF b
<1>4. Holds(a, Returns(b, 0), s)
  BY <1>1, <1>2, <1>3 DEF Holds, Returns, b
<1> QED BY <1>4 DEF b

\* What is held is shorter than what was asked for by what was dropped.
LEMMA HoldsTypes ==
  ASSUME NEW a, IsArray(a), NEW whole \in Seq(Byte), NEW r, Holds(a, r, whole)
  PROVE  /\ r.arr.data \in Seq(Byte)
         /\ Len(r.arr.data) = Len(whole) - r.trunced
         /\ r.trunced \in 0 .. Len(whole)
         /\ Len(whole) \in Nat
<1>1. Len(whole) \in Nat OBVIOUS
<1>2. r.trunced \in 0 .. Len(whole) BY <1>1, DroppedRange DEF Holds
<1>3. Len(whole) - r.trunced \in 0 .. Len(whole) BY <1>1, <1>2
<1>4. r.arr.data = SubSeq(whole, 1, Len(whole) - r.trunced) BY DEF Holds
<1>5. SubSeq(whole, 1, Len(whole) - r.trunced) \in Seq(Byte)
      /\ Len(SubSeq(whole, 1, Len(whole) - r.trunced)) = Len(whole) - r.trunced
  BY <1>3, PrefixFacts
<1> QED BY <1>1, <1>2, <1>4, <1>5

\* A call after a call: what was dropped before leaves no room.
LEMMA Continued ==
  ASSUME NEW a, IsArray(a), NEW w \in Seq(Byte), NEW u \in Seq(Byte),
         NEW r, Holds(a, r, w), NEW q, Holds(r.arr, q, r.arr.data \o u)
  PROVE  Holds(a, Returns(q.arr, r.trunced + q.trunced), w \o u)
<1>1. Len(w) \in Nat /\ Len(u) \in Nat /\ r.trunced \in 0 .. Len(w)
      /\ r.arr.data \in Seq(Byte) /\ Len(r.arr.data) = Len(w) - r.trunced
      /\ a.capacity \in Nat
  BY HoldsTypes DEF IsArray, ArrayRecord
<1>2. w \o u \in Seq(Byte) /\ Len(w \o u) = Len(w) + Len(u) BY ConcatProperties
<1> DEFINE m == Len(r.arr.data \o u)
<1>3. r.arr.data \o u \in Seq(Byte) /\ m = Len(w) - r.trunced + Len(u)
  BY <1>1, ConcatProperties
<1>4. IsArray(r.arr) /\ SameKind(a, r.arr) /\ r.trunced = Dropped(a, Len(w))
      /\ r.arr.data = SubSeq(w, 1, Len(w) - r.trunced)
  BY DEF Holds
<1>5. IsArray(q.arr) /\ SameKind(r.arr, q.arr)
      /\ q.trunced = Dropped(r.arr, m)
      /\ q.arr.data = SubSeq(r.arr.data \o u, 1, m - q.trunced)
  BY DEF Holds
<1> HIDE DEF m
<1>12. q.trunced \in Nat
  <2>1. m \in Nat BY <1>1, <1>3
  <2>2. Dropped(r.arr, m) \in 0 .. m BY <2>1, <1>4, DroppedRange
  <2> QED BY <2>1, <2>2, <1>5
<1>6. SameKind(a, q.arr) BY <1>4, <1>5, KindsCompose
<1>7. r.trunced + q.trunced = Dropped(a, Len(w) + Len(u))
      /\ q.arr.data = SubSeq(w \o u, 1, Len(w) + Len(u) - (r.trunced + q.trunced))
  <2>1. CASE a.allocator
    <3>1. r.arr.allocator BY <1>4, <2>1 DEF SameKind
    <3>2. r.trunced = 0 BY <1>1, <1>4, <2>1, DroppedRange
    <3>3. q.trunced = 0 BY <1>5, <3>1 DEF Dropped
    <3>4. Dropped(a, Len(w) + Len(u)) = 0 BY <2>1 DEF Dropped
    <3>5. r.arr.data = w
      <4>1. SubSeq(w, 1, Len(w)) = w BY PrefixFacts
      <4> QED BY <1>4, <3>2, <4>1, <1>1
    <3>6. m - q.trunced = Len(w) + Len(u) - (r.trunced + q.trunced) BY <3>2, <3>3, <1>1, <1>3
    <3> QED BY <3>2, <3>3, <3>4, <3>5, <3>6, <1>5
  <2>2. CASE ~ a.allocator /\ Len(w) <= a.capacity
    <3>2. r.trunced = 0 BY <1>1, <1>4, <2>2, DroppedRange
    <3>5. r.arr.data = w
      <4>1. SubSeq(w, 1, Len(w)) = w BY PrefixFacts
      <4> QED BY <1>4, <3>2, <4>1, <1>1
    <3>6. q.trunced = Dropped(a, Len(w) + Len(u)) /\ q.trunced \in Nat
      <4>1. m = Len(w) + Len(u) /\ Len(w) + Len(u) \in Nat
        BY <3>2, <1>1, <1>3
      <4>2. Dropped(r.arr, Len(w) + Len(u)) = Dropped(a, Len(w) + Len(u))
        BY <1>4, <2>2, SameKindDrops
      <4>3. Dropped(a, Len(w) + Len(u)) \in Nat BY <4>1, DroppedRange
      <4> QED BY <4>1, <4>2, <4>3, <1>5
    <3>7. m - q.trunced = Len(w) + Len(u) - (r.trunced + q.trunced) BY <3>2, <3>6, <1>1, <1>3
    <3>8. r.trunced + q.trunced = q.trunced BY <3>2, <3>6
    <3> QED BY <3>5, <3>6, <3>7, <3>8, <1>5
  <2>3. CASE ~ a.allocator /\ ~ (Len(w) <= a.capacity)
    <3> DEFINE c == a.capacity
    <3>1. c \in Nat /\ c < Len(w) BY <1>1, <2>3
    <3>2. r.trunced = Len(w) - c BY <1>4, <2>3 DEF Dropped
    <3>3. ~ r.arr.allocator /\ r.arr.capacity = c BY <1>4, <2>3 DEF SameKind
    <3> HIDE DEF c
    <3>4. Len(r.arr.data) = c BY <1>1, <3>1, <3>2
    <3>5. m = c + Len(u) BY <3>1, <3>2, <1>1, <1>3
    <3>6. q.trunced = Len(u)
      <4>1. q.trunced = IF m <= c THEN 0 ELSE m - c
        BY <1>5, <3>3 DEF Dropped
      <4>2. q.trunced = IF c + Len(u) <= c THEN 0 ELSE c + Len(u) - c
        BY <4>1, <3>5, <3>1, <1>1
      <4> QED BY <4>2, <3>1, <1>1
    <3>7. q.arr.data = r.arr.data
      <4>0. m - q.trunced = c BY <3>5, <3>6, <3>1, <1>1
      <4>1. q.arr.data = SubSeq(r.arr.data \o u, 1, c) BY <1>5, <4>0
      <4>2. SubSeq(r.arr.data \o u, 1, c) = SubSeq(r.arr.data, 1, c)
        BY <1>1, <3>1, <3>4, PrefixOfConcat
      <4>3. SubSeq(r.arr.data, 1, c) = r.arr.data BY <1>1, <3>4, PrefixFacts
      <4> QED BY <4>1, <4>2, <4>3
    <3>8. r.trunced + q.trunced = Len(w) + Len(u) - c BY <3>2, <3>6, <3>1, <1>1
    <3>9. Dropped(a, Len(w) + Len(u)) = Len(w) + Len(u) - c
      BY <2>3, <3>1, <1>1 DEF Dropped, c
    <3>10. SubSeq(w \o u, 1, c) = SubSeq(w, 1, c) BY <1>1, <3>1, PrefixOfConcat
    <3>11. r.arr.data = SubSeq(w, 1, c) BY <1>4, <3>2, <3>1, <1>1
    <3>12. Len(w) + Len(u) - (r.trunced + q.trunced) = c BY <3>8, <3>1, <1>1
    <3> QED BY <3>7, <3>8, <3>9, <3>10, <3>11, <3>12
  <2> QED BY <2>1, <2>2, <2>3
<1> DEFINE x == Returns(q.arr, r.trunced + q.trunced)
<1>8. x.arr = q.arr /\ x.trunced = r.trunced + q.trunced BY DEF Returns
<1> HIDE DEF x
<1>9. x.trunced = Dropped(a, Len(w \o u)) BY <1>2, <1>7, <1>8
<1>10. x.arr.data = SubSeq(w \o u, 1, Len(w \o u) - x.trunced)
  <2>1. Len(w \o u) - x.trunced = Len(w) + Len(u) - (r.trunced + q.trunced)
    BY <1>1, <1>2, <1>8, <1>12
  <2>2. q.arr.data = SubSeq(w \o u, 1, Len(w \o u) - x.trunced) BY <2>1, <1>7
  <2> QED BY <2>2, <1>8
<1>11. Holds(a, x, w \o u) BY <1>5, <1>6, <1>8, <1>9, <1>10 DEF Holds
<1> QED BY <1>11 DEF x

\* What is cut from a concatenation is cut from its second part.
LEMMA CutTail ==
  ASSUME NEW B, NEW s \in Seq(B), NEW u \in Seq(B), NEW t \in 0 .. Len(u)
  PROVE  SubSeq(s \o u, 1, Len(s) + Len(u) - t) = s \o SubSeq(u, 1, Len(u) - t)
<1>1. Len(s) \in Nat /\ Len(u) \in Nat /\ t \in Nat /\ t <= Len(u) OBVIOUS
<1> DEFINE n == Len(s) + Len(u) - t
<1>2. n \in 0 .. Len(s) + Len(u) /\ n - Len(s) = Len(u) - t BY <1>1
<1>3. n <= Len(s) => n = Len(s) /\ Len(u) - t = 0 BY <1>1
<1> HIDE DEF n
<1>4. SubSeq(s \o u, 1, n) = IF n <= Len(s) THEN SubSeq(s, 1, n) ELSE s \o SubSeq(u, 1, n - Len(s))
  BY <1>2, PrefixOfConcat
<1>5. CASE n <= Len(s)
  <2>1. SubSeq(s, 1, Len(s)) = s /\ SubSeq(u, 1, 0) = << >> BY PrefixFacts
  <2>2. s \o << >> = s OBVIOUS
  <2> QED BY <1>3, <1>4, <1>5, <2>1, <2>2 DEF n
<1>6. CASE ~ (n <= Len(s)) BY <1>2, <1>4, <1>6 DEF n
<1> QED BY <1>5, <1>6

\* gp_arr_append() and gp_str_append()
LEMMA AppendHolds ==
  ASSUME NEW a, IsArray(a), NEW src \in Seq(Byte), Len(a.data) + Len(src) <= MaxSize
  PROVE  Holds(a, AppendAll(a, src), a.data \o src)
<1> DEFINE n == Len(a.data) + Len(src)
           r == Reserve(a, n)
           t == Dropped(a, n)
<1>1. a.data \in Seq(Byte) /\ Len(a.data) \in Nat /\ Len(src) \in Nat /\ Len(a.data) <= a.capacity
      /\ a.capacity \in Nat
  BY DEF IsArray, ArrayRecord
<1>2. a.data \o src \in Seq(Byte) /\ Len(a.data \o src) = n BY <1>1, ConcatProperties
<1>3. t \in 0 .. Len(src)
  <2>1. t = IF a.allocator \/ n <= a.capacity THEN 0 ELSE n - a.capacity BY DEF Dropped
  <2> HIDE DEF t
  <2> QED BY <2>1, <1>1
<1>4. n \in 0 .. MaxSize
  <2>1. MaxSize \in Int BY MaxSizeInt
  <2> QED BY <2>1, <1>1
<1>5. r.trunced = t /\ r.arr.data = a.data
  <2> HIDE DEF n, t
  <2>1. Reserve(a, n).trunced = Dropped(a, n) /\ Reserve(a, n).arr.data = a.data BY <1>4, Reserved
  <2> QED BY <2>1 DEF t
<1>6. SubSeq(a.data \o src, 1, n - t) = a.data \o SubSeq(src, 1, Len(src) - t)
  <2> DEFINE d == a.data
  <2>1. d \in Seq(Byte) BY <1>1
  <2> HIDE DEF t, d
  <2>2. SubSeq(d \o src, 1, Len(d) + Len(src) - t) = d \o SubSeq(src, 1, Len(src) - t)
    BY <2>1, <1>3, CutTail
  <2>3. t \in Nat BY <1>1, <1>3
  <2>4. n - t = Len(a.data) + Len(src) - t BY <1>1, <2>3
  <2> QED BY <2>2, <2>4 DEF d
<1> HIDE DEF n, r, t
<1>7. AppendAll(a, src)
        = Returns([r.arr EXCEPT !.data = SubSeq(a.data \o src, 1, n - r.trunced)], r.trunced)
  <2>1. AppendAll(a, src)
          = Returns([r.arr EXCEPT !.data = r.arr.data \o SubSeq(src, 1, Len(src) - r.trunced)], r.trunced)
    BY DEF AppendAll, Take, Between, Length, n, r
  <2> QED BY <2>1, <1>5, <1>6
<1>8. Holds(a, Returns([r.arr EXCEPT !.data = SubSeq(a.data \o src, 1, n - r.trunced)], r.trunced),
            a.data \o src)
  <2>1. n <= MaxSize BY DEF n
  <2> QED BY <1>2, <2>1, Filled DEF r
<1> QED BY <1>7, <1>8

\* gp_arr_push()
LEMMA PushHolds ==
  ASSUME NEW a, IsArray(a), NEW e \in Byte, Len(a.data) + 1 <= MaxSize
  PROVE  Holds(a, Push(a, e), a.data \o <<e>>)
<1> DEFINE n == Len(a.data) + 1
           r == Reserve(a, n)
           s == Append(a.data, e)
<1>1. a.data \in Seq(Byte) /\ Len(a.data) \in Nat /\ Len(a.data) <= a.capacity /\ a.capacity \in Nat
  BY DEF IsArray, ArrayRecord
<1>2. s \in Seq(Byte) /\ Len(s) = n /\ s = a.data \o <<e>> BY <1>1
<1>3. n \in 0 .. MaxSize
  <2>1. MaxSize \in Int BY MaxSizeInt
  <2> QED BY <2>1, <1>1
<1>4. r.trunced = Dropped(a, n) /\ r.arr.data = a.data /\ IsArray(r.arr) /\ SameKind(a, r.arr)
  <2> HIDE DEF n
  <2> QED BY <1>3, Reserved
<1>5. Dropped(a, n) \in {0, 1}
  BY <1>1 DEF Dropped
<1>6. Holds(a, Returns([r.arr EXCEPT !.data = SubSeq(s, 1, Len(s) - r.trunced)], r.trunced), s)
  <2>1. n <= MaxSize OBVIOUS
  <2> HIDE DEF n, s
  <2> QED BY <1>2, <2>1, Filled DEF r
<1>7. Push(a, e) = Returns([r.arr EXCEPT !.data = SubSeq(s, 1, Len(s) - r.trunced)], r.trunced)
  <2>1. Push(a, e) = IF r.trunced = 0 THEN Returns([r.arr EXCEPT !.data = Append(r.arr.data, e)], 0)
                     ELSE Returns(r.arr, 1)
    BY DEF Push, Length
  <2>2. CASE r.trunced = 0
    <3>1. SubSeq(s, 1, Len(s) - 0) = s
      <4>1. Len(s) - 0 = Len(s) BY <1>2, <1>1
      <4> HIDE DEF s
      <4> QED BY <1>2, <4>1, PrefixFacts
    <3> HIDE DEF r
    <3> QED BY <2>1, <2>2, <3>1, <1>4
  <2>3. CASE r.trunced # 0
    <3>1. r.trunced = 1 BY <2>3, <1>4, <1>5
    <3>2. SubSeq(s, 1, Len(s) - 1) = a.data BY <1>1, <1>2
    <3> HIDE DEF r, s
    <3>3. [r.arr EXCEPT !.data = a.data] = r.arr BY <1>4 DEF IsArray, ArrayRecord
    <3> QED BY <2>1, <3>1, <3>2, <3>3
  <2> QED BY <2>2, <2>3
<1> QED BY <1>2, <1>6, <1>7

\* Take is a prefix.
LEMMA TakeIsPrefix ==
  ASSUME NEW B, NEW s \in Seq(B), NEW t \in 0 .. Len(s)
  PROVE  /\ Take(s, t) = SubSeq(s, 1, Len(s) - t)
         /\ Take(s, t) \in Seq(B)
         /\ Len(Take(s, t)) = Len(s) - t
         /\ Take(s, 0) = s
         /\ Take(s, Len(s)) = << >>
<1>1. Len(s) \in Nat /\ Len(s) - t \in 0 .. Len(s) OBVIOUS
<1>2. Take(s, t) = SubSeq(s, 1, Len(s) - t) BY DEF Take, Between
<1>3. Take(s, 0) = SubSeq(s, 1, Len(s)) BY <1>1 DEF Take, Between
<1>4. Take(s, Len(s)) = SubSeq(s, 1, 0) BY <1>1 DEF Take, Between
<1> QED BY <1>1, <1>2, <1>3, <1>4, PrefixFacts

\* Data that is the prefix of what was asked for, in an array with room for it
LEMMA HoldsPrefix ==
  ASSUME NEW a, IsArray(a), NEW b, IsArray(b), SameKind(a, b), NEW whole \in Seq(Byte),
         Len(whole) - Dropped(a, Len(whole)) <= b.capacity,
         NEW s, s = SubSeq(whole, 1, Len(whole) - Dropped(a, Len(whole)))
  PROVE  Holds(a, Returns([b EXCEPT !.data = s], Dropped(a, Len(whole))), whole)
<1> DEFINE t == Dropped(a, Len(whole))
<1>1. Len(whole) \in Nat OBVIOUS
<1>2. t \in 0 .. Len(whole) BY <1>1, DroppedRange
<1> HIDE DEF t
<1>3. Len(whole) - t \in 0 .. Len(whole) BY <1>1, <1>2
<1>4. s = SubSeq(whole, 1, Len(whole) - t) /\ Len(whole) - t <= b.capacity BY DEF t
<1>5. s \in Seq(Byte) /\ Len(s) = Len(whole) - t BY <1>3, <1>4, PrefixFacts
<1> DEFINE c == [b EXCEPT !.data = s]
<1>6. IsArray(c) /\ SameKind(b, c) /\ c.data = s BY <1>4, <1>5, WithData
<1> HIDE DEF c
<1>7. SameKind(a, c) BY <1>6, KindsCompose
<1>8. Holds(a, Returns(c, t), whole) BY <1>4, <1>6, <1>7 DEF Holds, Returns, t
<1> QED BY <1>8 DEF c, t

\* One object is printed after what was printed before: the estimate makes room for it, and what
\* its size is estimated too large makes more room only.
LEMMA PrintedHolds ==
  ASSUME NEW a, IsArray(a), NEW w \in Seq(Byte), NEW r, Holds(a, r, w),
         NEW object \in Seq(Byte), NEW estimate \in Nat, Len(object) <= estimate,
         Len(w) + estimate <= MaxSize
  PROVE  Holds(a, Printed(r, object, estimate), w \o object)
<1> DEFINE b == r.arr
           n == Len(b.data) + estimate
           c == Reserve(b, n).arr
           m == Len(b.data) + Len(object)
           t == Dropped(b, m)
<1>1. IsArray(b) BY DEF Holds
<1>2. b.data \in Seq(Byte) /\ Len(b.data) \in Nat /\ Len(b.data) <= b.capacity /\ b.capacity \in Nat
      /\ Len(object) \in Nat /\ Len(w) \in Nat /\ b.allocator \in BOOLEAN
  BY <1>1 DEF IsArray, ArrayRecord
<1>3. Len(b.data) <= Len(w)
  <2>1. Len(r.arr.data) = Len(w) - r.trunced /\ r.trunced \in 0 .. Len(w) BY HoldsTypes
  <2> QED BY <2>1, <1>2
<1>4. n \in 0 .. MaxSize
  <2>1. MaxSize \in Int BY MaxSizeInt
  <2>2. PICK x \in Nat, y \in Nat : x = Len(b.data) /\ y = Len(w) BY <1>2
  <2>3. x <= y /\ y + estimate <= MaxSize BY <2>2, <1>3
  <2>4. x + estimate \in 0 .. MaxSize BY <2>1, <2>3
  <2> QED BY <2>2, <2>4
<1>5. IsArray(c) /\ SameKind(b, c) /\ c.data = b.data /\ n - Dropped(b, n) <= c.capacity
  <2> HIDE DEF n, b
  <2> QED BY <1>1, <1>4, Reserved DEF c
<1>6. c.capacity \in Nat BY <1>5 DEF IsArray, ArrayRecord
<1> HIDE DEF c
<1>7. t = IF m > c.capacity THEN m - c.capacity ELSE 0
  <2>1. CASE b.allocator
    <3>1. Dropped(b, n) = 0 /\ t = 0 BY <2>1 DEF Dropped
    <3>2. n <= c.capacity
      <4>1. n - 0 <= c.capacity BY <1>5, <3>1
      <4> HIDE DEF n
      <4> QED BY <4>1, <1>4, <1>6
    <3>3. ~ (m > c.capacity) BY <3>2, <1>2, <1>6
    <3> QED BY <3>1, <3>3
  <2>2. CASE ~ b.allocator
    <3>1. c.capacity = b.capacity BY <2>2, <1>5 DEF SameKind
    <3>2. t = IF m <= b.capacity THEN 0 ELSE m - b.capacity BY <2>2 DEF Dropped
    <3> QED BY <3>1, <3>2, <1>2
  <2> QED BY <2>1, <2>2
<1>8. t \in 0 .. Len(object)
  <2>1. PICK x \in Nat, y \in Nat, k \in Nat :
          x = Len(b.data) /\ y = Len(object) /\ k = b.capacity /\ x <= k
    BY <1>2
  <2>2. PICK q \in Nat : q = m /\ q = x + y BY <2>1
  <2> HIDE DEF b, m
  <2>3. PICK z \in Nat : z = Dropped(b, q)
    <3>1. Dropped(b, q) \in 0 .. q BY <1>1, DroppedRange
    <3> QED BY <3>1
  <2>4. /\ ~ b.allocator => q - z = IF q <= b.capacity THEN q ELSE b.capacity
        /\ b.allocator => z = 0
    BY <1>1, <2>3, DroppedRange
  <2>5. z <= y
    <3>1. CASE b.allocator BY <2>4, <3>1
    <3>2. CASE ~ b.allocator
      <4>1. q - z = IF q <= k THEN q ELSE k BY <2>1, <2>4, <3>2
      <4> QED BY <4>1, <2>1, <2>2
    <3> QED BY <3>1, <3>2
  <2>6. t = z BY <2>2, <2>3
  <2> QED BY <2>1, <2>5, <2>6
<1> HIDE DEF t
<1>9. b.data \o object \in Seq(Byte) /\ Len(b.data \o object) = m BY <1>2, ConcatProperties
<1>10. SubSeq(b.data \o object, 1, m - t) = b.data \o Take(object, t)
  <2>1. Take(object, t) = SubSeq(object, 1, Len(object) - t) BY <1>8, TakeIsPrefix
  <2> DEFINE d == b.data
  <2>2. d \in Seq(Byte) BY <1>2
  <2> HIDE DEF d
  <2>3. SubSeq(d \o object, 1, Len(d) + Len(object) - t) = d \o SubSeq(object, 1, Len(object) - t)
    BY <2>2, <1>8, CutTail
  <2>4. t \in Nat BY <1>2, <1>8
  <2>5. m - t = Len(b.data) + Len(object) - t BY <1>2, <2>4
  <2> QED BY <2>1, <2>3, <2>5 DEF d
<1> DEFINE q == Returns([c EXCEPT !.data = b.data \o Take(object, t)], t)
<1>11. m - t <= c.capacity BY <1>7, <1>6, <1>2
<1>12. Holds(b, q, b.data \o object)
  <2> HIDE DEF m, b
  <2>1. t = Dropped(b, Len(b.data \o object)) BY <1>9 DEF t
  <2>2. Len(b.data \o object) - t <= c.capacity BY <1>11, <1>9
  <2>3. b.data \o Take(object, t) = SubSeq(b.data \o object, 1, Len(b.data \o object) - t)
    BY <1>9, <1>10
  <2> QED BY <1>1, <1>5, <1>9, <2>1, <2>2, <2>3, HoldsPrefix
<1>13. Holds(a, Returns(q.arr, r.trunced + q.trunced), w \o object) BY <1>12, Continued
<1>14. Printed(r, object, estimate) = Returns([c EXCEPT !.data = c.data \o Take(object, t)], r.trunced + t)
  <2>1. Length(r.arr) + estimate = n /\ Length(c) + Len(object) = m BY <1>5 DEF Length
  <2>2. Printed(r, object, estimate)
          = LET cut == IF m > c.capacity THEN m - c.capacity ELSE 0
            IN  Returns([c EXCEPT !.data = c.data \o Take(object, cut)], r.trunced + cut)
    BY <2>1 DEF Printed, c
  <2> QED BY <2>2, <1>7
<1> HIDE DEF b, m
<1>15. q.arr = [c EXCEPT !.data = c.data \o Take(object, t)] /\ q.trunced = t
  BY <1>5 DEF Returns
<1> QED BY <1>13, <1>14, <1>15

\* Contents in three parts: in front of what is inserted, inserted, and behind it
Joined(pre, src, tail) == pre \o src \o tail

\* ... and what WithTail keeps of them when t elements do not fit
KeptOf(pre, src, tail, t) ==
  LET cut == IF t > Len(tail) THEN t - Len(tail) ELSE 0
  IN  pre \o Take(src, cut) \o Take(tail, t - cut)

\* The elements after a replacement: what does not fit is cut from the tail first.
LEMMA KeptIsPrefix ==
  ASSUME NEW pre \in Seq(Byte), NEW src \in Seq(Byte), NEW tail \in Seq(Byte),
         NEW t \in 0 .. Len(src) + Len(tail)
  PROVE  KeptOf(pre, src, tail, t)
           = SubSeq(Joined(pre, src, tail), 1, Len(Joined(pre, src, tail)) - t)
<1>1. Len(pre) \in Nat /\ Len(src) \in Nat /\ Len(tail) \in Nat /\ t \in Nat OBVIOUS
<1>2. pre \o src \in Seq(Byte) /\ Len(pre \o src) = Len(pre) + Len(src) BY ConcatProperties
<1> DEFINE cut == IF t > Len(tail) THEN t - Len(tail) ELSE 0
           n == Len(pre) + Len(src) + Len(tail) - t
<1>3. ASSUME ~ (t > Len(tail))
      PROVE pre \o Take(src, cut) \o Take(tail, t - cut) = SubSeq((pre \o src) \o tail, 1, n)
  <2>1. cut = 0 /\ t - cut = t /\ t \in 0 .. Len(tail) BY <1>1, <1>3
  <2>2. Take(src, 0) = src
    <3>1. 0 \in 0 .. Len(src) BY <1>1
    <3> QED BY <3>1, TakeIsPrefix
  <2>3. Take(tail, t) = SubSeq(tail, 1, Len(tail) - t) BY <2>1, TakeIsPrefix
  <2>4. SubSeq((pre \o src) \o tail, 1, Len(pre \o src) + Len(tail) - t)
          = (pre \o src) \o SubSeq(tail, 1, Len(tail) - t)
    BY <1>2, <2>1, CutTail
  <2> QED BY <1>2, <2>1, <2>2, <2>3, <2>4
<1>4. ASSUME t > Len(tail)
      PROVE pre \o Take(src, cut) \o Take(tail, t - cut) = SubSeq((pre \o src) \o tail, 1, n)
  <2>1. cut = t - Len(tail) /\ t - cut = Len(tail) /\ cut \in 0 .. Len(src) BY <1>1, <1>4
  <2>2. Take(tail, Len(tail)) = << >>
    <3>1. 0 \in 0 .. Len(tail) BY <1>1
    <3> QED BY <3>1, TakeIsPrefix
  <2>3. Take(src, cut) = SubSeq(src, 1, Len(src) - cut) /\ Take(src, cut) \in Seq(Byte)
    BY <2>1, TakeIsPrefix
  <2>4. pre \o Take(src, cut) \in Seq(Byte) BY <2>3, ConcatProperties
  <2>5. (pre \o Take(src, cut)) \o << >> = pre \o Take(src, cut)
    <3> DEFINE x == pre \o Take(src, cut)
    <3>1. x \in Seq(Byte) BY <2>4
    <3> HIDE DEF x
    <3>2. x \o << >> = x BY <3>1
    <3> QED BY <3>2 DEF x
  <2>6. SubSeq(pre \o src, 1, Len(pre) + Len(src) - cut) = pre \o SubSeq(src, 1, Len(src) - cut)
    BY <2>1, CutTail
  <2>7. n = Len(pre) + Len(src) - cut /\ n <= Len(pre \o src) /\ n \in 0 .. Len(pre \o src) + Len(tail)
    <3>1. cut \in Nat /\ cut <= Len(src) /\ cut = t - Len(tail) BY <2>1, <1>1
    <3>2. PICK x \in Nat, y \in Nat, z \in Nat, u \in Nat, v \in Nat :
            x = Len(pre) /\ y = Len(src) /\ z = Len(tail) /\ u = t /\ v = cut
      BY <1>1, <3>1
    <3>3. v <= y /\ v = u - z BY <3>1, <3>2
    <3>4. x + y + z - u = x + y - v /\ x + y - v <= x + y /\ x + y - v \in 0 .. x + y + z
      BY <3>3
    <3> HIDE DEF n
    <3>5. n = x + y + z - u BY <3>2 DEF n
    <3>6. Len(pre) + Len(src) - cut = x + y - v /\ Len(pre \o src) = x + y BY <3>2, <1>2
    <3> QED BY <3>4, <3>5, <3>6, <3>2
  <2> HIDE DEF n
  <2>8. SubSeq((pre \o src) \o tail, 1, n) = SubSeq(pre \o src, 1, n)
    BY <1>2, <2>7, PrefixOfConcat
  <2>9. SubSeq((pre \o src) \o tail, 1, n) = pre \o Take(src, cut) BY <2>3, <2>6, <2>7, <2>8
  <2> QED BY <2>1, <2>2, <2>5, <2>9 DEF n
<1>5. pre \o Take(src, cut) \o Take(tail, t - cut) = SubSeq((pre \o src) \o tail, 1, n) BY <1>3, <1>4
<1>6. n = Len((pre \o src) \o tail) - t
  <2> DEFINE x == pre \o src
  <2>1. x \in Seq(Byte) /\ Len(x) = Len(pre) + Len(src) BY <1>2
  <2> HIDE DEF x
  <2>2. Len(x \o tail) = Len(x) + Len(tail) BY <2>1, ConcatProperties
  <2>3. Len(x) + Len(tail) = Len(pre) + Len(src) + Len(tail) BY <2>1
  <2> QED BY <2>2, <2>3 DEF x
<1> HIDE DEF n
<1>7. KeptOf(pre, src, tail, t) = pre \o Take(src, cut) \o Take(tail, t - cut) BY DEF KeptOf
<1> HIDE DEF cut
<1>8. Joined(pre, src, tail) = (pre \o src) \o tail BY DEF Joined
<1> QED BY <1>5, <1>6, <1>7, <1>8

\* Its length is that of the parts.
LEMMA JoinedTypes ==
  ASSUME NEW u \in Seq(Byte), NEW t \in Seq(Byte), NEW v \in Seq(Byte)
  PROVE  Joined(u, t, v) \in Seq(Byte) /\ Len(Joined(u, t, v)) = Len(u) + Len(t) + Len(v)
<1>3. u \o t \in Seq(Byte) /\ Len(u \o t) = Len(u) + Len(t) BY ConcatProperties
<1> DEFINE x == u \o t
<1>4. x \o v \in Seq(Byte) /\ Len(x \o v) = Len(x) + Len(v)
  <2>1. x \in Seq(Byte) BY <1>3
  <2> HIDE DEF x
  <2> QED BY <2>1, ConcatProperties
<1>6. Joined(u, t, v) = x \o v BY DEF Joined
<1>7. Len(x) = Len(u) + Len(t) BY <1>3
<1> HIDE DEF x
<1> QED BY <1>4, <1>6, <1>7

\* The first p elements of s
Before(s, p) == SubSeq(s, 1, p)

\* ... and those after them
Behind(s, p) == SubSeq(s, p + 1, Len(s))

\* s with its n elements from position p on replaced by t
Spliced(s, p, n, t) == Joined(Before(s, p), t, Behind(s, p + n))

\* Both are sequences of the lengths they should have.
LEMMA Parts ==
  ASSUME NEW s \in Seq(Byte), NEW p, p \in Nat, p <= Len(s)
  PROVE  /\ Before(s, p) \in Seq(Byte) /\ Len(Before(s, p)) = p
         /\ Behind(s, p) \in Seq(Byte) /\ Len(Behind(s, p)) = Len(s) - p
<1>0. Len(s) \in Nat OBVIOUS
<1>1. Before(s, p) \in Seq(Byte) /\ Len(Before(s, p)) = p BY <1>0 DEF Before
<1>2. Behind(s, p) \in Seq(Byte) /\ Len(Behind(s, p)) = Len(s) - p BY <1>0 DEF Behind
<1> QED BY <1>1, <1>2

\* A replacement changes the length by what it takes and what it puts.
LEMMA SplicedTypes ==
  ASSUME NEW s \in Seq(Byte), NEW p \in Nat, NEW n \in Nat, p + n <= Len(s), NEW t \in Seq(Byte)
  PROVE  /\ Spliced(s, p, n, t) \in Seq(Byte)
         /\ Len(Spliced(s, p, n, t)) = Len(s) - n + Len(t)
<1>0. Len(s) \in Nat /\ Len(t) \in Nat OBVIOUS
<1>1. p <= Len(s) /\ p + n \in Nat BY <1>0
<1> DEFINE q == p + n
<1>2. q <= Len(s) /\ q \in Nat BY <1>1
<1> HIDE DEF q
<1>3. Before(s, p) \in Seq(Byte) /\ Len(Before(s, p)) = p BY <1>1, Parts
<1>4. Behind(s, q) \in Seq(Byte) /\ Len(Behind(s, q)) = Len(s) - q BY <1>2, Parts
<1>5. Joined(Before(s, p), t, Behind(s, q)) \in Seq(Byte)
      /\ Len(Joined(Before(s, p), t, Behind(s, q))) = p + Len(t) + (Len(s) - q)
  <2>1. Joined(Before(s, p), t, Behind(s, q)) \in Seq(Byte)
        /\ Len(Joined(Before(s, p), t, Behind(s, q))) = Len(Before(s, p)) + Len(t) + Len(Behind(s, q))
    BY <1>3, <1>4, JoinedTypes
  <2> QED BY <2>1, <1>3, <1>4
<1>6. p + Len(t) + (Len(s) - q) = Len(s) - n + Len(t) BY <1>0, <1>2 DEF q
<1> QED BY <1>5, <1>6 DEF q, Spliced

\* A replacement of the n elements at position p
LEMMA ReplacedHolds ==
  ASSUME NEW a, IsArray(a), NEW p \in Nat, NEW n \in Nat, p + n <= Len(a.data),
         NEW src \in Seq(Byte), NEW m \in Nat, m = Len(a.data) - n + Len(src),
         NEW b, IsArray(b), SameKind(a, b), b.data = a.data, m - Dropped(a, m) <= b.capacity
  PROVE  Holds(a, Returns(WithTail(b, p, src, Between(a.data, p + n, Len(a.data)), Dropped(a, m)),
                          Dropped(a, m)),
               Spliced(a.data, p, n, src))
<1> DEFINE d == a.data
           c == a.capacity
           pre == Before(d, p)
           tail == Behind(d, p + n)
           t == Dropped(a, m)
           whole == Spliced(d, p, n, src)
           s == KeptOf(pre, src, tail, t)
<1>1. d \in Seq(Byte) /\ Len(d) <= c /\ c \in Nat /\ a.allocator \in BOOLEAN
  BY DEF IsArray, ArrayRecord
<1>2. PICK D \in Nat, S \in Nat : D = Len(d) /\ S = Len(src) /\ p + n <= D /\ m = D - n + S /\ D <= c
  <2>1. p + n <= Len(d) /\ m = Len(d) - n + Len(src) OBVIOUS
  <2> HIDE DEF d, c
  <2> QED BY <1>1, <2>1
<1>3. pre \in Seq(Byte) /\ tail \in Seq(Byte) /\ Len(tail) = D - (p + n)
      /\ whole \in Seq(Byte) /\ Len(whole) = m
  <2> HIDE DEF d
  <2>1. p \in Nat /\ p <= Len(d) BY <1>2
  <2>2. pre \in Seq(Byte) BY <1>1, <2>1, Parts
  <2> DEFINE q == p + n
  <2>3. q \in Nat /\ q <= Len(d) BY <1>2
  <2> HIDE DEF q
  <2>4. Behind(d, q) \in Seq(Byte) /\ Len(Behind(d, q)) = Len(d) - q BY <1>1, <2>3, Parts
  <2>5. p + n <= Len(d) BY <1>2
  <2>6. Spliced(d, p, n, src) \in Seq(Byte)
        /\ Len(Spliced(d, p, n, src)) = Len(d) - n + Len(src)
    BY <1>1, <2>5, SplicedTypes
  <2> QED BY <2>2, <2>4, <2>6, <1>2 DEF q
<1>4. PICK T \in Nat : T = Len(tail) /\ T = D - (p + n)
  <2> HIDE DEF d, tail
  <2>1. D - (p + n) \in Nat BY <1>2
  <2> QED BY <2>1, <1>3
<1>5. PICK x \in Nat : x = t /\ x <= S + T
  <2> HIDE DEF d, tail, c
  <2>1. p + n <= D /\ D <= c /\ c \in Nat /\ T = D - (p + n) BY <1>1, <1>2, <1>4
  <2>2. m = p + S + T /\ p <= c
    <3>1. PICK C \in Nat : C = c BY <2>1
    <3>2. m = D - n + S /\ T = D - (p + n) /\ D <= C /\ p + n <= D BY <2>1, <3>1, <1>2
    <3>3. m = p + S + T BY <3>2
    <3>4. p <= C BY <3>2
    <3> QED BY <3>1, <3>3, <3>4
  <2>3. t = IF a.allocator \/ m <= c THEN 0 ELSE m - c BY DEF Dropped, c
  <2> HIDE DEF t
  <2>4. CASE a.allocator \/ m <= c BY <2>3, <2>4
  <2>5. CASE ~ a.allocator /\ ~ (m <= c)
    <3>1. m - c \in Nat /\ m - c <= S + T BY <2>1, <2>2, <2>5
    <3>2. t = m - c BY <2>3, <2>5
    <3> QED BY <3>1, <3>2
  <2> QED BY <2>4, <2>5
<1>6. s = SubSeq(whole, 1, Len(whole) - t)
  <2>1. x \in 0 .. Len(src) + Len(tail) BY <1>5, <1>2, <1>4
  <2>2. KeptOf(pre, src, tail, x) = SubSeq(Joined(pre, src, tail), 1, Len(Joined(pre, src, tail)) - x)
    <3> HIDE DEF d, pre, tail, t, c, whole
    <3> QED BY <1>3, <2>1, KeptIsPrefix
  <2>3. whole = Joined(pre, src, tail) BY DEF Spliced
  <2> HIDE DEF d, pre, tail, t, c, whole
  <2> QED BY <1>5, <2>2, <2>3
<1>7. WithTail(b, p, src, Between(a.data, p + n, Len(a.data)), t) = [b EXCEPT !.data = s]
  <2>1. Between(a.data, p + n, Len(a.data)) = tail BY DEF Between, Behind
  <2>2. Between(b.data, 0, p) = pre BY DEF Between, Before
  <2> HIDE DEF d, pre, tail, t
  <2> QED BY <2>1, <2>2 DEF WithTail, KeptOf
<1>9. t = Dropped(a, Len(whole)) BY <1>3
<1>10. s = SubSeq(whole, 1, Len(whole) - Dropped(a, Len(whole)))
  <2> HIDE DEF d, pre, tail, t, whole
  <2> QED BY <1>6, <1>9
<1>11. Len(whole) - Dropped(a, Len(whole)) <= b.capacity
  <2> HIDE DEF d, whole
  <2> QED BY <1>3
<1>12. Holds(a, Returns([b EXCEPT !.data = s], Dropped(a, Len(whole))), whole)
  <2> HIDE DEF d, s, whole
  <2> QED BY <1>3, <1>10, <1>11, HoldsPrefix
<1> HIDE DEF pre, tail, s, whole
<1> QED BY <1>7, <1>9, <1>12 DEF whole

\* gp_arr_insert() and gp_str_insert()
LEMMA InsertHolds ==
  ASSUME NEW a, IsArray(a), NEW p \in Nat, p <= Len(a.data), ~ (Full(a) /\ p >= Len(a.data)),
         NEW src \in Seq(Byte), Len(a.data) + Len(src) <= MaxSize
  PROVE  Holds(a, Insert(a, p, src), Spliced(a.data, p, 0, src))
<1> DEFINE m == Len(a.data) + Len(src)
           b == Reserve(a, m).arr
<1>1. Len(a.data) \in Nat /\ Len(src) \in Nat BY DEF IsArray, ArrayRecord
<1>2. m \in 0 .. MaxSize
  <2>1. MaxSize \in Int BY MaxSizeInt
  <2> QED BY <2>1, <1>1
<1>3. m = Len(a.data) - 0 + Len(src) /\ p + 0 = p /\ m \in Nat BY <1>1
<1>4. IsArray(b) /\ SameKind(a, b) /\ b.data = a.data /\ m - Dropped(a, m) <= b.capacity
      /\ Reserve(a, m).trunced = Dropped(a, m)
  <2> HIDE DEF m
  <2> QED BY <1>2, Reserved DEF b
<1>5. Holds(a, Returns(WithTail(b, p, src, Between(a.data, p + 0, Len(a.data)), Dropped(a, m)),
                       Dropped(a, m)), Spliced(a.data, p, 0, src))
  <2> HIDE DEF b, m
  <2>1. p + 0 <= Len(a.data) BY <1>3
  <2>2. 0 \in Nat OBVIOUS
  <2> QED BY <1>3, <1>4, <2>1, <2>2, ReplacedHolds
<1>6. Insert(a, p, src)
        = Returns(WithTail(b, p, src, Between(a.data, p, Len(a.data)), Dropped(a, m)), Dropped(a, m))
  BY <1>4 DEF Insert, Length
<1> QED BY <1>5, <1>6, <1>3

\* One step of a filter
ChosenNext(s, element, keep) == IF element \in keep THEN Append(s, element) ELSE s

\* The recursive function in Chosen
ChosenOf(s, keep) ==
  LET chosen[i \in 0 .. Len(s)] ==
        IF i = 0 THEN << >> ELSE ChosenNext(chosen[i - 1], s[i], keep)
  IN  chosen

\* The recursive function in FilterOf
PushedOf(a, s) ==
  LET pushed[i \in 0 .. Len(s)] == IF i = 0 THEN Returns(a, 0) ELSE PushNext(pushed[i - 1], s[i])
  IN  pushed

\* The recursive function in ReadStrip
TakenOf(a, s) ==
  LET taken[i \in 0 .. Len(s)] ==
        IF i = 0 THEN Returns(a, 0) ELSE AppendCodepoint(taken[i - 1], s[i])
  IN  taken

\* f satisfies the equation of the first of them up to n.
ChosenTo(f, s, keep, n) == f = [i \in 0 .. n |-> IF i = 0 THEN << >> ELSE ChosenNext(f[i - 1], s[i], keep)]

\* There is such a function: the one for n + 1 is the one for n with a step more.
LEMMA ChosenExists ==
  ASSUME NEW s, NEW keep, NEW n \in Nat
  PROVE  \E f : ChosenTo(f, s, keep, n)
<1> DEFINE Is(f, m) == f = [i \in 0 .. m |-> IF i = 0 THEN << >> ELSE ChosenNext(f[i - 1], s[i], keep)]
           T == {m \in Nat : \E f : Is(f, m)}
<1>1. 0 \in T
  <2>1. Is([i \in 0 .. 0 |-> << >>], 0) OBVIOUS
  <2> QED BY <2>1
<1>2. ASSUME NEW m \in Nat, m \in T PROVE m + 1 \in T
  <2>1. PICK f : Is(f, m) BY <1>2
  <2> DEFINE g == [i \in 0 .. m + 1 |-> IF i = m + 1 THEN ChosenNext(f[m], s[m + 1], keep) ELSE f[i]]
  <2>2. ASSUME NEW i \in 0 .. m + 1
        PROVE  g[i] = IF i = 0 THEN << >> ELSE ChosenNext(g[i - 1], s[i], keep)
    <3>1. CASE i = 0 BY <3>1, <2>1
    <3>2. CASE i # 0 /\ i # m + 1
      <4>1. i \in 0 .. m /\ i - 1 \in 0 .. m /\ i - 1 # m + 1 /\ i - 1 \in 0 .. m + 1 BY <3>2
      <4>2. g[i] = f[i] /\ g[i - 1] = f[i - 1] BY <4>1, <3>2
      <4>3. f[i] = ChosenNext(f[i - 1], s[i], keep) BY <2>1, <4>1, <3>2
      <4> HIDE DEF g
      <4> QED BY <4>2, <4>3, <3>2
    <3>3. CASE i = m + 1
      <4>1. i # 0 /\ i - 1 = m /\ m \in 0 .. m + 1 /\ m # m + 1 BY <3>3
      <4>2. g[i] = ChosenNext(f[m], s[m + 1], keep) /\ g[m] = f[m] BY <4>1, <3>3
      <4> HIDE DEF g
      <4> QED BY <4>1, <4>2, <3>3
    <3> QED BY <3>1, <3>2, <3>3
  <2>3. Is(g, m + 1) BY <2>2
  <2> HIDE DEF g, Is
  <2>4. m + 1 \in Nat OBVIOUS
  <2> QED BY <2>3, <2>4
<1> HIDE DEF T
<1>3. Nat \subseteq T BY <1>1, <1>2, Induction
<1>4. n \in T BY <1>3
<1> HIDE DEF Is
<1>5. \E f : Is(f, n) BY <1>4 DEF T
<1> QED BY <1>5 DEF Is, ChosenTo

\* The function its definition says it is
LEMMA ChosenSteps ==
  ASSUME NEW s, NEW keep, NEW n \in Nat, n = Len(s)
  PROVE  /\ ChosenOf(s, keep)[0] = << >>
         /\ \A i \in 1 .. n : ChosenOf(s, keep)[i] = ChosenNext(ChosenOf(s, keep)[i - 1], s[i], keep)
<1> DEFINE c == ChosenOf(s, keep)
<1>0. PICK f : ChosenTo(f, s, keep, n) BY ChosenExists
<1>1. f = [i \in 0 .. Len(s) |-> IF i = 0 THEN << >> ELSE ChosenNext(f[i - 1], s[i], keep)]
  BY <1>0 DEF ChosenTo
<1>2. c = [i \in 0 .. Len(s) |-> IF i = 0 THEN << >> ELSE ChosenNext(c[i - 1], s[i], keep)]
  BY Zenon, <1>1 DEF ChosenOf
<1> HIDE DEF c
<1>3. c[0] = << >> BY <1>2
<1>4. ASSUME NEW i \in 1 .. n PROVE c[i] = ChosenNext(c[i - 1], s[i], keep)
  <2>1. i \in 0 .. n /\ i # 0 OBVIOUS
  <2> QED BY <2>1, <1>2
<1> QED BY <1>3, <1>4 DEF c

\* f satisfies the equation of the second of them up to n.
PushedTo(f, a, s, n) == f = [i \in 0 .. n |-> IF i = 0 THEN Returns(a, 0) ELSE PushNext(f[i - 1], s[i])]

\* There is such a function.
LEMMA PushedExists ==
  ASSUME NEW a, NEW s, NEW n \in Nat
  PROVE  \E f : PushedTo(f, a, s, n)
<1> DEFINE Is(f, m) == f = [i \in 0 .. m |-> IF i = 0 THEN Returns(a, 0) ELSE PushNext(f[i - 1], s[i])]
           T == {m \in Nat : \E f : Is(f, m)}
<1>1. 0 \in T
  <2>1. Is([i \in 0 .. 0 |-> Returns(a, 0)], 0) OBVIOUS
  <2> QED BY <2>1
<1>2. ASSUME NEW m \in Nat, m \in T PROVE m + 1 \in T
  <2>1. PICK f : Is(f, m) BY <1>2
  <2> DEFINE g == [i \in 0 .. m + 1 |-> IF i = m + 1 THEN PushNext(f[m], s[m + 1]) ELSE f[i]]
  <2>2. ASSUME NEW i \in 0 .. m + 1
        PROVE  g[i] = IF i = 0 THEN Returns(a, 0) ELSE PushNext(g[i - 1], s[i])
    <3>1. CASE i = 0 BY <3>1, <2>1
    <3>2. CASE i # 0 /\ i # m + 1
      <4>1. i \in 0 .. m /\ i - 1 \in 0 .. m /\ i - 1 # m + 1 /\ i - 1 \in 0 .. m + 1 BY <3>2
      <4>2. g[i] = f[i] /\ g[i - 1] = f[i - 1] BY <4>1, <3>2
      <4>3. f[i] = PushNext(f[i - 1], s[i]) BY <2>1, <4>1, <3>2
      <4> HIDE DEF g
      <4> QED BY <4>2, <4>3, <3>2
    <3>3. CASE i = m + 1
      <4>1. i # 0 /\ i - 1 = m /\ m \in 0 .. m + 1 /\ m # m + 1 BY <3>3
      <4>2. g[i] = PushNext(f[m], s[m + 1]) /\ g[m] = f[m] BY <4>1, <3>3
      <4> HIDE DEF g
      <4> QED BY <4>1, <4>2, <3>3
    <3> QED BY <3>1, <3>2, <3>3
  <2>3. Is(g, m + 1) BY <2>2
  <2> HIDE DEF g, Is
  <2>4. m + 1 \in Nat OBVIOUS
  <2> QED BY <2>3, <2>4
<1> HIDE DEF T
<1>3. Nat \subseteq T BY <1>1, <1>2, Induction
<1>4. n \in T BY <1>3
<1> HIDE DEF Is
<1>5. \E f : Is(f, n) BY <1>4 DEF T
<1> QED BY <1>5 DEF Is, PushedTo

\* The function its definition says it is
LEMMA PushedSteps ==
  ASSUME NEW a, NEW s, NEW n \in Nat, n = Len(s)
  PROVE  /\ PushedOf(a, s)[0] = Returns(a, 0)
         /\ \A i \in 1 .. n : PushedOf(a, s)[i] = PushNext(PushedOf(a, s)[i - 1], s[i])
<1> DEFINE c == PushedOf(a, s)
<1>0. PICK f : PushedTo(f, a, s, n) BY PushedExists
<1>1. f = [i \in 0 .. Len(s) |-> IF i = 0 THEN Returns(a, 0) ELSE PushNext(f[i - 1], s[i])]
  BY <1>0 DEF PushedTo
<1>2. c = [i \in 0 .. Len(s) |-> IF i = 0 THEN Returns(a, 0) ELSE PushNext(c[i - 1], s[i])]
  BY Zenon, <1>1 DEF PushedOf
<1> HIDE DEF c
<1>3. c[0] = Returns(a, 0) BY <1>2
<1>4. ASSUME NEW i \in 1 .. n PROVE c[i] = PushNext(c[i - 1], s[i])
  <2>1. i \in 0 .. n /\ i # 0 OBVIOUS
  <2> QED BY <2>1, <1>2
<1> QED BY <1>3, <1>4 DEF c

\* f satisfies the equation of the third of them up to n.
TakenTo(f, a, s, n) == f = [i \in 0 .. n |-> IF i = 0 THEN Returns(a, 0) ELSE AppendCodepoint(f[i - 1], s[i])]

\* There is such a function.
LEMMA TakenExists ==
  ASSUME NEW a, NEW s, NEW n \in Nat
  PROVE  \E f : TakenTo(f, a, s, n)
<1> DEFINE Is(f, m) == f = [i \in 0 .. m |-> IF i = 0 THEN Returns(a, 0) ELSE AppendCodepoint(f[i - 1], s[i])]
           T == {m \in Nat : \E f : Is(f, m)}
<1>1. 0 \in T
  <2>1. Is([i \in 0 .. 0 |-> Returns(a, 0)], 0) OBVIOUS
  <2> QED BY <2>1
<1>2. ASSUME NEW m \in Nat, m \in T PROVE m + 1 \in T
  <2>1. PICK f : Is(f, m) BY <1>2
  <2> DEFINE g == [i \in 0 .. m + 1 |-> IF i = m + 1 THEN AppendCodepoint(f[m], s[m + 1]) ELSE f[i]]
  <2>2. ASSUME NEW i \in 0 .. m + 1
        PROVE  g[i] = IF i = 0 THEN Returns(a, 0) ELSE AppendCodepoint(g[i - 1], s[i])
    <3>1. CASE i = 0 BY <3>1, <2>1
    <3>2. CASE i # 0 /\ i # m + 1
      <4>1. i \in 0 .. m /\ i - 1 \in 0 .. m /\ i - 1 # m + 1 /\ i - 1 \in 0 .. m + 1 BY <3>2
      <4>2. g[i] = f[i] /\ g[i - 1] = f[i - 1] BY <4>1, <3>2
      <4>3. f[i] = AppendCodepoint(f[i - 1], s[i]) BY <2>1, <4>1, <3>2
      <4> HIDE DEF g
      <4> QED BY <4>2, <4>3, <3>2
    <3>3. CASE i = m + 1
      <4>1. i # 0 /\ i - 1 = m /\ m \in 0 .. m + 1 /\ m # m + 1 BY <3>3
      <4>2. g[i] = AppendCodepoint(f[m], s[m + 1]) /\ g[m] = f[m] BY <4>1, <3>3
      <4> HIDE DEF g
      <4> QED BY <4>1, <4>2, <3>3
    <3> QED BY <3>1, <3>2, <3>3
  <2>3. Is(g, m + 1) BY <2>2
  <2> HIDE DEF g, Is
  <2>4. m + 1 \in Nat OBVIOUS
  <2> QED BY <2>3, <2>4
<1> HIDE DEF T
<1>3. Nat \subseteq T BY <1>1, <1>2, Induction
<1>4. n \in T BY <1>3
<1> HIDE DEF Is
<1>5. \E f : Is(f, n) BY <1>4 DEF T
<1> QED BY <1>5 DEF Is, TakenTo

\* The function its definition says it is
LEMMA TakenSteps ==
  ASSUME NEW a, NEW s, NEW n \in Nat, n = Len(s)
  PROVE  /\ TakenOf(a, s)[0] = Returns(a, 0)
         /\ \A i \in 1 .. n : TakenOf(a, s)[i] = AppendCodepoint(TakenOf(a, s)[i - 1], s[i])
<1> DEFINE c == TakenOf(a, s)
<1>0. PICK f : TakenTo(f, a, s, n) BY TakenExists
<1>1. f = [i \in 0 .. Len(s) |-> IF i = 0 THEN Returns(a, 0) ELSE AppendCodepoint(f[i - 1], s[i])]
  BY <1>0 DEF TakenTo
<1>2. c = [i \in 0 .. Len(s) |-> IF i = 0 THEN Returns(a, 0) ELSE AppendCodepoint(c[i - 1], s[i])]
  BY Zenon, <1>1 DEF TakenOf
<1> HIDE DEF c
<1>3. c[0] = Returns(a, 0) BY <1>2
<1>4. ASSUME NEW i \in 1 .. n PROVE c[i] = AppendCodepoint(c[i - 1], s[i])
  <2>1. i \in 0 .. n /\ i # 0 OBVIOUS
  <2> QED BY <2>1, <1>2
<1> QED BY <1>3, <1>4 DEF c

\* A filter keeps no more elements than there are.
LEMMA ChosenIsSequence ==
  ASSUME NEW s \in Seq(Byte), NEW keep
  PROVE  Chosen(s, keep) \in Seq(Byte) /\ Len(Chosen(s, keep)) <= Len(s)
<1> DEFINE c == ChosenOf(s, keep)
           T == {i \in Nat : i <= Len(s) => c[i] \in Seq(Byte) /\ Len(c[i]) <= i}
<1>1. Len(s) \in Nat /\ \A i \in 1 .. Len(s) : s[i] \in Byte OBVIOUS
<1>2. c[0] = << >> /\ \A i \in 1 .. Len(s) : c[i] = ChosenNext(c[i - 1], s[i], keep)
  BY <1>1, ChosenSteps
<1> HIDE DEF c
<1>3. 0 \in T
  <2>1. << >> \in Seq(Byte) /\ Len(<< >>) = 0 OBVIOUS
  <2>2. c[0] \in Seq(Byte) /\ Len(c[0]) = 0 BY <2>1, <1>2
  <2> QED BY <2>2
<1>4. ASSUME NEW i \in Nat, i \in T PROVE i + 1 \in T
  <2>1. SUFFICES ASSUME i + 1 <= Len(s) PROVE c[i + 1] \in Seq(Byte) /\ Len(c[i + 1]) <= i + 1
    OBVIOUS
  <2>2. i + 1 \in 1 .. Len(s) /\ (i + 1) - 1 = i /\ i <= Len(s) BY <2>1, <1>1
  <2>3. c[i + 1] = ChosenNext(c[i], s[i + 1], keep) BY <2>2, <1>2
  <2>4. c[i] \in Seq(Byte) /\ Len(c[i]) <= i /\ s[i + 1] \in Byte BY <2>2, <1>1, <1>4
  <2>5. Append(c[i], s[i + 1]) \in Seq(Byte) /\ Len(Append(c[i], s[i + 1])) = Len(c[i]) + 1
        /\ Len(c[i]) \in Nat
    <3> DEFINE x == c[i]
               e == s[i + 1]
    <3>1. x \in Seq(Byte) /\ e \in Byte BY <2>4
    <3> HIDE DEF x, e
    <3>2. Append(x, e) \in Seq(Byte) /\ Len(Append(x, e)) = Len(x) + 1 /\ Len(x) \in Nat BY <3>1
    <3> QED BY <3>2 DEF x, e
  <2> QED BY <2>3, <2>4, <2>5 DEF ChosenNext
<1> HIDE DEF T
<1>5. Nat \subseteq T BY <1>3, <1>4, Induction
<1>6. c[Len(s)] \in Seq(Byte) /\ Len(c[Len(s)]) <= Len(s)
  <2>1. Len(s) \in T BY <1>1, <1>5
  <2> QED BY <2>1, <1>1 DEF T
<1>7. Chosen(s, keep) = c[Len(s)] BY Zenon DEF Chosen, ChosenOf, ChosenNext, c
<1> QED BY <1>6, <1>7

\* An array that is emptied
LEMMA Emptied ==
  ASSUME NEW a, IsArray(a)
  PROVE  /\ IsArray([a EXCEPT !.data = << >>])
         /\ SameKind(a, [a EXCEPT !.data = << >>])
         /\ [a EXCEPT !.data = << >>].data = << >>
         /\ Holds(a, Returns([a EXCEPT !.data = << >>], 0), << >>)
<1>1. PICK e \in Seq(Byte) : e = << >> /\ Len(e) = 0
  <2>1. << >> \in Seq(Byte) /\ Len(<< >>) = 0 OBVIOUS
  <2> QED BY <2>1
<1>2. Len(e) <= a.capacity BY <1>1 DEF IsArray, ArrayRecord
<1>3. IsArray([a EXCEPT !.data = e]) /\ SameKind(a, [a EXCEPT !.data = e])
      /\ [a EXCEPT !.data = e].data = e
  BY <1>2, WithData
<1>4. Holds(a, Returns([a EXCEPT !.data = e], 0), e) BY <1>2, Within
<1> QED BY <1>1, <1>3, <1>4

\* A prefix and the element after it
LEMMA NextPrefix ==
  ASSUME NEW B, NEW s \in Seq(B), NEW i \in Nat, i + 1 <= Len(s)
  PROVE  /\ SubSeq(s, 1, i) \in Seq(B) /\ Len(SubSeq(s, 1, i)) = i
         /\ SubSeq(s, 1, i + 1) \in Seq(B)
         /\ SubSeq(s, 1, i + 1) = SubSeq(s, 1, i) \o <<s[i + 1]>>
         /\ s[i + 1] \in B
OBVIOUS

\* Elements pushed one after another are held as if they were appended at once: once one is
\* dropped there is no room for the next.
LEMMA PushedHolds ==
  ASSUME NEW a, IsArray(a), a.data = << >>, NEW s \in Seq(Byte), Len(s) <= MaxSize
  PROVE  Holds(a, PushedOf(a, s)[Len(s)], s)
<1> DEFINE c == PushedOf(a, s)
           T == {i \in Nat : i <= Len(s) => Holds(a, c[i], SubSeq(s, 1, i))}
<1>1. Len(s) \in Nat /\ MaxSize \in Int BY MaxSizeInt
<1>2. c[0] = Returns(a, 0) /\ \A i \in 1 .. Len(s) : c[i] = PushNext(c[i - 1], s[i])
  BY <1>1, PushedSteps
<1> HIDE DEF c
<1>3. 0 \in T
  <2>1. SubSeq(s, 1, 0) = << >> BY PrefixFacts
  <2>3. Holds(a, Returns([a EXCEPT !.data = << >>], 0), << >>) BY Emptied
  <2>4. [a EXCEPT !.data = << >>] = a BY DEF IsArray, ArrayRecord
  <2> QED BY <2>1, <2>3, <2>4, <1>2
<1>4. ASSUME NEW i \in Nat, i \in T PROVE i + 1 \in T
  <2>1. SUFFICES ASSUME i + 1 <= Len(s) PROVE Holds(a, c[i + 1], SubSeq(s, 1, i + 1))
    OBVIOUS
  <2>2. i + 1 \in 1 .. Len(s) /\ (i + 1) - 1 = i /\ i <= Len(s) BY <2>1, <1>1
  <2> DEFINE r == c[i]
             w == SubSeq(s, 1, i)
             e == s[i + 1]
             p == Push(r.arr, e)
  <2>3. c[i + 1] = PushNext(r, e) BY <2>2, <1>2
  <2>4. Holds(a, r, w) BY <2>2, <1>4
  <2>5. w \in Seq(Byte) /\ Len(w) = i /\ e \in Byte /\ SubSeq(s, 1, i + 1) = w \o <<e>>
    BY <2>1, NextPrefix
  <2> HIDE DEF r, w, e
  <2>6. r.arr.data \in Seq(Byte) /\ Len(r.arr.data) <= i
    <3>1. r.arr.data \in Seq(Byte) /\ Len(r.arr.data) = Len(w) - r.trunced /\ r.trunced \in 0 .. Len(w)
      BY <2>4, <2>5, HoldsTypes
    <3> QED BY <3>1, <2>5
  <2>7. Holds(r.arr, p, r.arr.data \o <<e>>)
    <3>1. IsArray(r.arr) BY <2>4 DEF Holds
    <3>2. Len(r.arr.data) + 1 <= MaxSize
      <4>1. Len(r.arr.data) \in Nat BY <2>6
      <4> QED BY <4>1, <2>6, <2>1, <1>1
    <3> QED BY <3>1, <3>2, <2>5, PushHolds
  <2> HIDE DEF p
  <2>8. <<e>> \in Seq(Byte) BY <2>5
  <2>9. Holds(a, Returns(p.arr, r.trunced + p.trunced), w \o <<e>>)
    BY <2>4, <2>5, <2>7, <2>8, Continued
  <2>10. PushNext(r, e) = Returns(p.arr, r.trunced + p.trunced) BY DEF PushNext, p
  <2> QED BY <2>3, <2>5, <2>9, <2>10
<1> HIDE DEF T
<1>5. Nat \subseteq T BY <1>3, <1>4, Induction
<1>6. Holds(a, c[Len(s)], SubSeq(s, 1, Len(s)))
  <2>1. Len(s) \in T BY <1>1, <1>5
  <2> QED BY <2>1, <1>1 DEF T
<1>7. SubSeq(s, 1, Len(s)) = s OBVIOUS
<1> QED BY <1>6, <1>7 DEF c

\* gp_arr_filter() from a source
LEMMA FilterHolds ==
  ASSUME NEW a, IsArray(a), NEW src \in Seq(Byte), NEW keep, Len(Chosen(src, keep)) <= MaxSize
  PROVE  Holds(a, FilterOf(a, src, keep), Chosen(src, keep))
<1> DEFINE c == Chosen(src, keep)
           b == [a EXCEPT !.data = << >>]
<1>1. c \in Seq(Byte) /\ Len(c) <= Len(src) /\ Len(c) <= MaxSize BY ChosenIsSequence
<1>2. a.capacity \in Nat /\ Len(src) \in Nat BY DEF IsArray, ArrayRecord
<1>3. CASE Len(src) <= a.capacity
  <2>1. FilterOf(a, src, keep) = Returns([a EXCEPT !.data = c], 0) BY <1>3 DEF FilterOf
  <2> HIDE DEF c
  <2>2. Len(c) \in Nat /\ Len(c) <= a.capacity BY <1>1, <1>2, <1>3
  <2> QED BY <1>1, <2>1, <2>2, Within DEF c
<1>4. CASE ~ (Len(src) <= a.capacity)
  <2>1. FilterOf(a, src, keep) = PushedOf(b, c)[Len(c)] BY Zenon, <1>4 DEF FilterOf, PushedOf
  <2>3. IsArray(b) /\ SameKind(a, b) /\ b.data = << >> BY Emptied
  <2> HIDE DEF c, b
  <2>4. Holds(b, PushedOf(b, c)[Len(c)], c) BY <1>1, <2>3, PushedHolds
  <2>5. PICK r : r = PushedOf(b, c)[Len(c)] OBVIOUS
  <2>6. Holds(b, r, c) BY <2>4, <2>5
  <2>7. Len(c) \in Nat BY <1>1
  <2>8. Dropped(a, Len(c)) = Dropped(b, Len(c)) BY <2>3 DEF b, SameKind, Dropped, IsArray, ArrayRecord
  <2>9. SameKind(a, r.arr) BY <2>3, <2>6, KindsCompose DEF Holds
  <2>10. Holds(a, r, c) BY <2>6, <2>8, <2>9 DEF Holds
  <2> QED BY <2>1, <2>5, <2>10 DEF c
<1> QED BY <1>3, <1>4

\* All is replaced, something is added at the end, the last element is taken away.
LEMMA SplicedCases ==
  ASSUME NEW s \in Seq(Byte)
  PROVE  /\ \A t \in Seq(Byte) : Spliced(s, 0, Len(s), t) = t
         /\ \A t \in Seq(Byte) : Spliced(s, Len(s), 0, t) = s \o t
         /\ Len(s) > 0 => Spliced(s, Len(s) - 1, 1, << >>) = SubSeq(s, 1, Len(s) - 1)
         /\ \A p \in 0 .. Len(s) : Spliced(s, p, Len(s) - p, << >>) = SubSeq(s, 1, p)
<1>0. Len(s) \in Nat OBVIOUS
<1>1. ASSUME NEW t \in Seq(Byte) PROVE Spliced(s, 0, Len(s), t) = t
  <2>1. Before(s, 0) = << >> BY DEF Before
  <2>2. Behind(s, 0 + Len(s)) = << >> BY <1>0 DEF Behind
  <2>3. (<< >> \o t) \o << >> = t OBVIOUS
  <2> QED BY <2>1, <2>2, <2>3 DEF Spliced, Joined
<1>2. ASSUME NEW t \in Seq(Byte) PROVE Spliced(s, Len(s), 0, t) = s \o t
  <2>1. Before(s, Len(s)) = s BY DEF Before
  <2>2. Behind(s, Len(s) + 0) = << >> BY <1>0 DEF Behind
  <2> DEFINE x == s \o t
  <2>3. x \in Seq(Byte) BY ConcatProperties
  <2> HIDE DEF x
  <2>4. x \o << >> = x BY <2>3
  <2> QED BY <2>1, <2>2, <2>4 DEF Spliced, Joined, x
<1>3. ASSUME NEW p \in 0 .. Len(s) PROVE Spliced(s, p, Len(s) - p, << >>) = SubSeq(s, 1, p)
  <2>1. Behind(s, p + (Len(s) - p)) = << >>
    <3>1. p + (Len(s) - p) = Len(s) BY <1>0
    <3>2. Behind(s, Len(s)) = << >> BY <1>0 DEF Behind
    <3> QED BY <3>1, <3>2
  <2> DEFINE x == SubSeq(s, 1, p)
  <2>2. x \in Seq(Byte) BY <1>0
  <2> HIDE DEF x
  <2>3. (x \o << >>) \o << >> = x BY <2>2
  <2> QED BY <2>1, <2>3 DEF Spliced, Joined, Before, x
<1>4. ASSUME Len(s) > 0 PROVE Spliced(s, Len(s) - 1, 1, << >>) = SubSeq(s, 1, Len(s) - 1)
  <2> DEFINE p == Len(s) - 1
  <2>1. p \in 0 .. Len(s) /\ Len(s) - p = 1 BY <1>0, <1>4
  <2> HIDE DEF p
  <2>2. Spliced(s, p, Len(s) - p, << >>) = SubSeq(s, 1, p) BY <2>1, <1>3
  <2> QED BY <2>1, <2>2 DEF p
<1> QED BY <1>1, <1>2, <1>3, <1>4

\* A slice is as long as its bounds say.
LEMMA BetweenTypes ==
  ASSUME NEW B, NEW s \in Seq(B), NEW end \in 0 .. Len(s), NEW start \in 0 .. end
  PROVE  Between(s, start, end) \in Seq(B) /\ Len(Between(s, start, end)) = end - start
<1>1. Len(s) \in Nat /\ end \in Nat /\ start \in Nat OBVIOUS
<1> QED BY <1>1 DEF Between

\* A map keeps the length.
LEMMA MappedTypes ==
  ASSUME NEW s \in Seq(Byte)
  PROVE  Mapped(Image, s) \in Seq(Byte) /\ Len(Mapped(Image, s)) = Len(s)
<1>1. Image \in [Byte -> Byte] BY DynamicStringAssumption
<1>2. Len(s) \in Nat /\ DOMAIN s = 1 .. Len(s) /\ \A i \in 1 .. Len(s) : s[i] \in Byte OBVIOUS
<1>3. \A i \in 1 .. Len(s) : Image[s[i]] \in Byte BY <1>1, <1>2
<1>4. Mapped(Image, s) = [i \in 1 .. Len(s) |-> Image[s[i]]] BY <1>2 DEF Mapped
<1> QED BY <1>2, <1>3, <1>4

\* count copies are count times as long.
LEMMA CopiesTypes ==
  ASSUME NEW src \in Seq(Byte), NEW count \in Nat
  PROVE  /\ Copies(count, src) \in Seq(Byte) /\ Len(Copies(count, src)) = count * Len(src)
         /\ count * Len(src) \in Nat
<1>1. Len(src) \in Nat /\ \A i \in 1 .. Len(src) : src[i] \in Byte OBVIOUS
<1>2. PICK l \in Nat : l = Len(src) BY <1>1
<1>3. count * l \in Nat OBVIOUS
<1>4. ASSUME NEW i \in 1 .. count * l PROVE src[((i - 1) % l) + 1] \in Byte
  <2>1. l > 0
    <3>1. CASE l = 0
      <4>1. count * l = 0 BY <3>1
      <4> QED BY <4>1
    <3> QED BY <3>1
  <2>2. ((i - 1) % l) + 1 \in 1 .. l BY <2>1, <1>3
  <2> QED BY <2>2, <1>1, <1>2
<1>5. Copies(count, src) = [i \in 1 .. count * l |-> src[((i - 1) % l) + 1]] BY <1>2 DEF Copies
<1> DEFINE e(i) == src[((i - 1) % l) + 1]
           n == count * l
<1>6. n \in Nat /\ \A i \in 1 .. n : e(i) \in Byte BY <1>3, <1>4
<1>7. Copies(count, src) = [i \in 1 .. n |-> e(i)] BY <1>5
<1> HIDE DEF e, n
<1>8. Copies(count, src) \in Seq(Byte) /\ Len(Copies(count, src)) = n BY <1>6, <1>7
<1> QED BY <1>8, <1>3, <1>2 DEF n

\* gp_str_repeat()
LEMMA RepeatedHolds ==
  ASSUME IsArray(str), NEW src \in Seq(Byte), NEW count \in Nat, Len(Copies(count, src)) <= MaxSize
  PROVE  Holds(str, Repeated(count, src), Copies(count, src))
<1> DEFINE w == Copies(count, src)
           r == Reserve(str, Len(w))
<1>1. w \in Seq(Byte) /\ Len(w) = count * Len(src) /\ Len(w) <= MaxSize BY CopiesTypes
<1>2. Repeated(count, src)
        = Returns([r.arr EXCEPT !.data = SubSeq(w, 1, Len(w) - r.trunced)], r.trunced)
  BY <1>1 DEF Repeated, Take, Between
<1> HIDE DEF w
<1>3. Holds(str, Returns([r.arr EXCEPT !.data = SubSeq(w, 1, Len(w) - r.trunced)], r.trunced), w)
  <2> HIDE DEF r
  <2> QED BY <1>1, Filled DEF r
<1> QED BY <1>2, <1>3 DEF w

\* gp_arr_copy() and gp_str_copy()
LEMMA CopyHolds ==
  ASSUME NEW a, IsArray(a), NEW src \in Seq(Byte), Len(src) <= MaxSize
  PROVE  Holds(a, Copy(a, src), src)
<1> DEFINE r == Reserve(a, Len(src))
<1>1. Copy(a, src) = Returns([r.arr EXCEPT !.data = SubSeq(src, 1, Len(src) - r.trunced)], r.trunced)
  BY DEF Copy, Take, Between
<1>2. Holds(a, Returns([r.arr EXCEPT !.data = SubSeq(src, 1, Len(src) - r.trunced)], r.trunced), src)
  <2> HIDE DEF r
  <2> QED BY Filled DEF r
<1> QED BY <1>1, <1>2

\* What is no longer than the elements before
LEMMA ShorterHolds ==
  ASSUME NEW a, IsArray(a), NEW s \in Seq(Byte), Len(s) <= Len(a.data)
  PROVE  Holds(a, Returns([a EXCEPT !.data = s], 0), s)
<1>1. Len(s) \in Nat /\ Len(a.data) \in Nat /\ a.capacity \in Nat /\ Len(a.data) <= a.capacity
  BY DEF IsArray, ArrayRecord
<1>2. Len(s) <= a.capacity BY <1>1
<1> QED BY <1>2, Within

\* gp_str_replace_range(): no more is replaced than there is.
LEMMA ReplacementHolds ==
  ASSUME IsArray(str), NEW p \in Nat, p <= Len(str.data), ~ (Full(str) /\ p >= Len(str.data)),
         NEW count \in Nat, NEW src \in Seq(Byte),
         NEW n \in Nat, n = IF p + count > Len(str.data) THEN Len(str.data) - p ELSE count,
         Len(str.data) - n + Len(src) <= MaxSize
  PROVE  /\ Holds(str, Replacement(p, count, src), Spliced(str.data, p, n, src))
         /\ p + n <= Len(str.data)
<1> DEFINE m == Len(str.data) - n + Len(src)
           l == Len(str.data)
<1>1. l \in Nat /\ Len(src) \in Nat /\ l <= str.capacity /\ str.capacity \in Nat
  BY DEF IsArray, ArrayRecord
<1>2. p + n <= l
  <2> HIDE DEF l
  <2> QED BY <1>1 DEF l
<1>3. m \in 0 .. MaxSize /\ m \in Nat
  <2>1. m <= MaxSize OBVIOUS
  <2>2. m = l - n + Len(src) OBVIOUS
  <2> HIDE DEF l, m
  <2> QED BY <1>1, <1>2, <2>1, <2>2, MaxSizeInt
<1>9. ~ (Len(src) > n) => m <= str.capacity
  <2>1. m = l - n + Len(src) OBVIOUS
  <2> HIDE DEF l, m
  <2>2. PICK x \in Nat, y \in Nat, z \in Nat, c \in Nat :
          x = m /\ y = l /\ z = Len(src) /\ c = str.capacity
    BY <1>1, <1>3
  <2>3. x = y - n + z /\ y <= c BY <2>1, <2>2, <1>1
  <2>4. ~ (z > n) => x <= c BY <2>3
  <2> QED BY <2>2, <2>4
<1> DEFINE b == IF Len(src) > n THEN Reserve(str, m).arr ELSE str
<1>4. IsArray(b) /\ SameKind(str, b) /\ b.data = str.data /\ m - Dropped(str, m) <= b.capacity
  <2>1. CASE Len(src) > n
    <3> HIDE DEF m
    <3> QED BY <2>1, <1>3, Reserved
  <2>2. CASE ~ (Len(src) > n)
    <3>1. m <= str.capacity BY <1>9, <2>2
    <3> HIDE DEF m
    <3>2. Dropped(str, m) = 0 BY <3>1 DEF Dropped
    <3>3. m - Dropped(str, m) <= str.capacity BY <3>1, <3>2, <1>3
    <3> QED BY <2>2, <3>3 DEF SameKind
  <2> QED BY <2>1, <2>2
<1>5. (IF Len(src) > n THEN Reserve(str, m) ELSE Returns(str, 0)).trunced = Dropped(str, m)
  <2>1. CASE Len(src) > n
    <3> HIDE DEF m
    <3> QED BY <2>1, <1>3, Reserved
  <2>2. CASE ~ (Len(src) > n)
    <3>1. m <= str.capacity BY <1>9, <2>2
    <3> HIDE DEF m
    <3> QED BY <2>2, <3>1 DEF Dropped, Returns
  <2> QED BY <2>1, <2>2
<1>6. Length(str) + Len(src) - n = m
  <2>1. m = l - n + Len(src) /\ Length(str) = l BY DEF Length
  <2> HIDE DEF l, m
  <2> QED BY <1>1, <2>1
<1>7. Replacement(p, count, src)
        = Returns(WithTail(b, p, src, Between(str.data, p + n, Len(str.data)), Dropped(str, m)),
                  Dropped(str, m))
  <2>1. (IF Len(src) > n THEN Reserve(str, m) ELSE Returns(str, 0)).arr = b BY DEF Returns
  <2> DEFINE r == IF Len(src) > n THEN Reserve(str, m) ELSE Returns(str, 0)
  <2>2. r.arr = b /\ r.trunced = Dropped(str, m) BY <2>1, <1>5
  <2> HIDE DEF b, m
  <2>3. n = IF p + count > Length(str) THEN Length(str) - p ELSE count BY DEF Length
  <2>4. r = IF Len(src) > n THEN Reserve(str, Length(str) + Len(src) - n) ELSE Returns(str, 0)
    BY <1>6
  <2> HIDE DEF r
  <2>5. Replacement(p, count, src)
          = Returns(WithTail(r.arr, p, src, Between(str.data, p + n, Length(str)), r.trunced), r.trunced)
    BY <2>3, <2>4 DEF Replacement, Length
  <2> QED BY <2>2, <2>5 DEF Length
<1>8. Holds(str, Returns(WithTail(b, p, src, Between(str.data, p + n, Len(str.data)), Dropped(str, m)),
                         Dropped(str, m)), Spliced(str.data, p, n, src))
  <2>1. p + n <= Len(str.data) BY <1>2
  <2>2. m = Len(str.data) - n + Len(src) OBVIOUS
  <2> HIDE DEF b, m, l
  <2> QED BY <1>3, <1>4, <2>1, <2>2, ReplacedHolds
<1> QED BY <1>2, <1>7, <1>8

\* gp_str_print()
LEMMA ObjectsHold ==
  ASSUME IsArray(str), NEW first \in Seq(Byte), NEW second \in Seq(Byte), NEW excess \in Nat,
         Len(first \o second) + excess <= MaxSize
  PROVE  Holds(str, Printed(Printed(Empty, first, Len(first) + excess), second, Len(second) + excess),
               first \o second)
<1>1. PICK f \in Nat, g \in Nat : f = Len(first) /\ g = Len(second) OBVIOUS
<1>2. f + g + excess <= MaxSize
  <2>1. Len(first \o second) = f + g BY <1>1, ConcatProperties
  <2> QED BY <2>1
<1>3. Holds(str, Empty, << >>) BY Emptied DEF Empty
<1>4. PICK e \in Seq(Byte) : e = << >> /\ Len(e) = 0 /\ e \o first = first
  <2>1. << >> \in Seq(Byte) /\ Len(<< >>) = 0 /\ << >> \o first = first OBVIOUS
  <2> QED BY <2>1
<1>5. PICK n \in Nat : n = Len(first) + excess /\ Len(first) <= n /\ Len(e) + n <= MaxSize
  BY <1>1, <1>2, <1>4, MaxSizeInt
<1>6. Holds(str, Printed(Empty, first, n), first)
  <2>1. Holds(str, Empty, e) BY <1>3, <1>4
  <2>2. Holds(str, Printed(Empty, first, n), e \o first) BY <2>1, <1>5, PrintedHolds
  <2> QED BY <2>2, <1>4
<1>7. PICK m \in Nat : m = Len(second) + excess /\ Len(second) <= m /\ Len(first) + m <= MaxSize
  BY <1>1, <1>2, MaxSizeInt
<1>8. Holds(str, Printed(Printed(Empty, first, n), second, m), first \o second)
  BY <1>6, <1>7, PrintedHolds
<1> QED BY <1>5, <1>7, <1>8

\* An object and the space after it
LEMMA SpacedHolds ==
  ASSUME NEW a, IsArray(a), NEW w \in Seq(Byte), NEW r, Holds(a, r, w), NEW object \in Seq(Byte),
         NEW excess \in Nat, Len(w) + Len(object) + excess + 1 <= MaxSize
  PROVE  Holds(a, Spaced(r, object, excess), w \o object \o << 32 >>)
<1> DEFINE est == Len(object) + excess + 1
           p == Printed(r, object, est)
           v == w \o object
           q == Push(p.arr, 32)
<1>1. PICK f \in Nat, g \in Nat : f = Len(object) /\ g = Len(w) OBVIOUS
<1>2. g + f + excess + 1 <= MaxSize BY <1>1
<1>3. est \in Nat /\ Len(object) <= est /\ Len(w) + est <= MaxSize BY <1>1, <1>2, MaxSizeInt
<1>4. v \in Seq(Byte) /\ Len(v) = g + f BY <1>1, ConcatProperties
<1>5. Holds(a, p, v)
  <2> HIDE DEF est
  <2> QED BY <1>3, PrintedHolds
<1> HIDE DEF p, v
<1>6. p.arr.data \in Seq(Byte) /\ Len(p.arr.data) <= g + f /\ IsArray(p.arr) /\ Len(p.arr.data) \in Nat
  <2>1. p.arr.data \in Seq(Byte) /\ Len(p.arr.data) = Len(v) - p.trunced /\ p.trunced \in 0 .. Len(v)
    BY <1>4, <1>5, HoldsTypes
  <2> QED BY <2>1, <1>4, <1>5 DEF Holds
<1>7. Holds(p.arr, q, p.arr.data \o << 32 >>)
  <2>1. Len(p.arr.data) + 1 <= MaxSize BY <1>2, <1>6, MaxSizeInt
  <2>2. 32 \in Byte BY DEF Byte
  <2> QED BY <1>6, <2>1, <2>2, PushHolds
<1> HIDE DEF q
<1>8. << 32 >> \in Seq(Byte)
  <2>1. 32 \in Byte BY DEF Byte
  <2> QED BY <2>1
<1>9. Holds(a, Returns(q.arr, p.trunced + q.trunced), v \o << 32 >>) BY <1>4, <1>5, <1>7, <1>8, Continued
<1>10. Spaced(r, object, excess) = Returns(q.arr, p.trunced + q.trunced) BY DEF Spaced, p, q
<1> QED BY <1>9, <1>10 DEF v

\* A sequence is a function.
LEMMA SequenceIsFunction ==
  ASSUME NEW B, NEW s \in Seq(B)
  PROVE  s \in [1 .. Len(s) -> B]
OBVIOUS

\* The last element of what was asked for is replaced if it is there.
LEMMA LastReplaced ==
  ASSUME NEW x \in Seq(Byte), NEW c \in Byte, NEW d \in Byte
  PROVE  /\ x \o <<c>> \in Seq(Byte) /\ x \o <<d>> \in Seq(Byte)
         /\ Len(x \o <<c>>) = Len(x) + 1 /\ Len(x \o <<d>>) = Len(x) + 1
         /\ [x \o <<c>> EXCEPT ![Len(x) + 1] = d] = x \o <<d>>
         /\ \A k \in 0 .. Len(x) : SubSeq(x \o <<c>>, 1, k) = SubSeq(x \o <<d>>, 1, k)
<1>0. Len(x) \in Nat /\ \A i \in 1 .. Len(x) : x[i] \in Byte OBVIOUS
<1>1. x \o <<c>> = Append(x, c) /\ x \o <<d>> = Append(x, d) OBVIOUS
<1>2. /\ Append(x, c) \in Seq(Byte) /\ Append(x, d) \in Seq(Byte)
      /\ Len(Append(x, c)) = Len(x) + 1 /\ Len(Append(x, d)) = Len(x) + 1
      /\ \A i \in 1 .. Len(x) : Append(x, c)[i] = x[i] /\ Append(x, d)[i] = x[i]
      /\ Append(x, c)[Len(x) + 1] = c /\ Append(x, d)[Len(x) + 1] = d
  OBVIOUS
<1>3. [Append(x, c) EXCEPT ![Len(x) + 1] = d] = Append(x, d)
  <2> DEFINE y == Append(x, c)
             z == [y EXCEPT ![Len(x) + 1] = d]
             n == Len(x) + 1
  <2>1. y \in [1 .. n -> Byte] /\ Append(x, d) \in [1 .. n -> Byte] /\ n \in Nat
    <3>1. n \in Nat BY <1>0
    <3>2. y \in Seq(Byte) /\ Append(x, d) \in Seq(Byte) /\ Len(y) = n /\ Len(Append(x, d)) = n BY <1>2
    <3> HIDE DEF y, n
    <3> QED BY <3>1, <3>2, SequenceIsFunction
  <2>2. z \in [1 .. n -> Byte] BY <2>1
  <2>3. \A i \in 1 .. n : z[i] = Append(x, d)[i]
    <3>1. ASSUME NEW i \in 1 .. n PROVE z[i] = Append(x, d)[i]
      <4>1. z[i] = IF i = n THEN d ELSE y[i] BY <2>1
      <4>2. i # n => i \in 1 .. Len(x) BY <1>0
      <4> QED BY <4>1, <4>2, <1>2
    <3> QED BY <3>1
  <2> HIDE DEF n, y, z
  <2>4. z = Append(x, d) BY <2>1, <2>2, <2>3
  <2> QED BY <2>4 DEF z, y
<1>4. ASSUME NEW k \in 0 .. Len(x) PROVE SubSeq(x \o <<c>>, 1, k) = SubSeq(x \o <<d>>, 1, k)
  <2>1. <<c>> \in Seq(Byte) /\ <<d>> \in Seq(Byte) /\ Len(<<c>>) = 1 /\ Len(<<d>>) = 1 OBVIOUS
  <2>2. k \in 0 .. Len(x) + 1 /\ k <= Len(x) BY <1>0
  <2>3. SubSeq(x \o <<c>>, 1, k) = SubSeq(x, 1, k)
    <3>1. PICK u \in Seq(Byte) : u = <<c>> /\ Len(u) = 1 BY <2>1
    <3>2. k \in 0 .. Len(x) + Len(u) BY <3>1, <2>2
    <3>3. SubSeq(x \o u, 1, k) = SubSeq(x, 1, k) BY <2>2, <3>2, PrefixOfConcat
    <3> QED BY <3>1, <3>3
  <2>4. SubSeq(x \o <<d>>, 1, k) = SubSeq(x, 1, k)
    <3>1. PICK u \in Seq(Byte) : u = <<d>> /\ Len(u) = 1 BY <2>1
    <3>2. k \in 0 .. Len(x) + Len(u) BY <3>1, <2>2
    <3>3. SubSeq(x \o u, 1, k) = SubSeq(x, 1, k) BY <2>2, <3>2, PrefixOfConcat
    <3> QED BY <3>1, <3>3
  <2> QED BY <2>3, <2>4
<1> QED BY <1>1, <1>2, <1>3, <1>4

\* gp_arr_erase() and gp_str_erase()
LEMMA ErasedHolds ==
  ASSUME NEW a, IsArray(a), NEW p \in Nat, NEW n \in Nat, p + n <= Len(a.data)
  PROVE  Holds(a, Returns([a EXCEPT !.data = Between(@, 0, p) \o Between(@, p + n, Length(a))], 0),
               Spliced(a.data, p, n, << >>))
<1> DEFINE d == a.data
           w == Spliced(d, p, n, << >>)
<1>1. d \in Seq(Byte) /\ Len(d) \in Nat BY DEF IsArray, ArrayRecord
<1>2. PICK e \in Seq(Byte) : e = << >> /\ Len(e) = 0
  <2>1. << >> \in Seq(Byte) /\ Len(<< >>) = 0 OBVIOUS
  <2> QED BY <2>1
<1>3. w \in Seq(Byte) /\ Len(w) = Len(d) - n
  <2>1. p + n <= Len(d) OBVIOUS
  <2> HIDE DEF d
  <2>2. Spliced(d, p, n, e) \in Seq(Byte) /\ Len(Spliced(d, p, n, e)) = Len(d) - n + Len(e)
    BY <1>1, <2>1, SplicedTypes
  <2> QED BY <1>1, <1>2, <2>2
<1>4. Len(w) <= Len(a.data)
  <2>1. Len(d) - n <= Len(d) BY <1>1
  <2> HIDE DEF d
  <2>2. Len(w) <= Len(d) BY <1>3, <2>1
  <2> HIDE DEF w
  <2> QED BY <2>2 DEF d
<1>5. Between(d, 0, p) \o Between(d, p + n, Length(a)) = w
  <2>1. Between(d, 0, p) = Before(d, p) BY DEF Between, Before
  <2>2. Between(d, p + n, Length(a)) = Behind(d, p + n) BY DEF Between, Behind, Length
  <2> DEFINE x == Before(d, p)
  <2>3. x \o << >> = x
    <3>1. p <= Len(d) /\ p \in Nat BY <1>1
    <3>2. x \in Seq(Byte) BY <3>1, <1>1, Parts
    <3> HIDE DEF x
    <3> QED BY <3>2
  <2> QED BY <2>1, <2>2, <2>3 DEF Spliced, Joined
<1> HIDE DEF w
<1>6. Holds(a, Returns([a EXCEPT !.data = w], 0), w) BY <1>3, <1>4, ShorterHolds
<1>7. [a EXCEPT !.data = Between(@, 0, p) \o Between(@, p + n, Length(a))] = [a EXCEPT !.data = w]
  BY <1>5
<1> QED BY <1>6, <1>7 DEF w

\* What gp_arr_new() and gp_str_new() return, and what buffers of the client are made into
LEMMA NewArraysAreArrays ==
  ASSUME NEW a \in NewArrays
  PROVE  IsArray(a) /\ a.data = << >>
<1>1. Sizes \subseteq Nat \ {0} /\ Capacities \subseteq Nat BY DynamicStringAssumption, MaxSizeInt
<1>2. << >> \in Seq(Byte) /\ Len(<< >>) = 0 OBVIOUS
<1>3. ASSUME NEW size \in Sizes, NEW n \in Capacities, a = New(size, n) PROVE IsArray(a) /\ a.data = << >>
  <2> DEFINE need == size * n + IsChar(size)
             bytes == RoundToAligned(need, AllocAlignment)
             block == bytes \div size
  <2>1. size \in Nat \ {0} /\ n \in Nat /\ size * n \in Nat /\ IsChar(size) \in {0, 1}
    BY <1>1, ProductOrder DEF IsChar
  <2>2. need \in Nat BY <2>1
  <2>3. AllocAlignment \in Nat \ {0} /\ AllocAlignment >= 2 BY AllocAlignmentAssumption
  <2>4. bytes \in need .. need + AllocAlignment - 1 /\ bytes % AllocAlignment = 0
    <3>1. need \in Int BY <2>2
    <3> HIDE DEF need
    <3> QED BY <3>1, <2>3, Rounding
  <2>5. bytes \in Nat /\ need <= bytes BY <2>2, <2>3, <2>4
  <2>6. block \in Nat
    <3> HIDE DEF bytes
    <3> QED BY <2>1, <2>5
  <2>7. block - IsChar(size) \in Nat /\ (size = 1 => block - IsChar(size) > 0)
    <3>1. CASE size = 1
      <4>1. block = bytes
        <5> HIDE DEF bytes
        <5> QED BY <3>1, <2>5
      <4>2. need = n + 1 BY <3>1, <2>1 DEF IsChar
      <4>3. bytes # 1
        <5>1. 1 % AllocAlignment = 1 BY <2>3
        <5> HIDE DEF bytes
        <5> QED BY <2>4, <5>1
      <4> HIDE DEF bytes, need, block
      <4> QED BY <4>1, <4>2, <4>3, <2>1, <2>5, <3>1 DEF IsChar
    <3>2. CASE size # 1
      <4> HIDE DEF block
      <4> QED BY <3>2, <2>6 DEF IsChar
    <3> QED BY <3>1, <3>2
  <2>8. a = [data |-> << >>, capacity |-> block - IsChar(size), block |-> block,
             size |-> size, allocator |-> TRUE, allocation |-> TRUE]
    BY <1>3 DEF New
  <2> HIDE DEF block
  <2>9. block - IsChar(size) + IsChar(size) <= block BY <2>6, <2>1
  <2>10. a \in ArrayRecord(Seq(Byte)) BY <2>8, <2>7, <2>6, <2>1, <1>2 DEF ArrayRecord
  <2> QED BY <2>7, <2>8, <2>9, <2>10, <1>2 DEF IsArray
<1>4. ASSUME NEW size \in Sizes, NEW n \in Capacities \ {0}, NEW alc \in BOOLEAN, a = Buffered(size, n, alc)
      PROVE  IsArray(a) /\ a.data = << >>
  <2>1. size \in Nat \ {0} /\ n \in Nat /\ n > 0 /\ IsChar(size) \in {0, 1} BY <1>1 DEF IsChar
  <2>2. a = [data |-> << >>, capacity |-> n, block |-> n + IsChar(size),
             size |-> size, allocator |-> alc, allocation |-> FALSE]
    BY <1>4 DEF Buffered
  <2>3. n + IsChar(size) \in Nat /\ n + IsChar(size) <= n + IsChar(size) BY <2>1
  <2>4. a \in ArrayRecord(Seq(Byte)) BY <2>1, <2>2, <2>3, <1>2 DEF ArrayRecord
  <2> QED BY <2>1, <2>2, <2>3, <2>4, <1>2 DEF IsArray
<1> QED BY <1>3, <1>4 DEF NewArrays

\* gp_str_println(): the last space becomes the newline where it was stored.
LEMMA LineHolds ==
  ASSUME IsArray(str), NEW first \in Seq(Byte), NEW second \in Seq(Byte), NEW excess \in Nat,
         NEW r, r = Spaced(Spaced(Empty, first, excess), second, excess),
         Len(first \o << 32 >> \o second \o << 10 >>) + excess <= MaxSize
  PROVE  Holds(str, Returns(IF r.trunced = 0 THEN [r.arr EXCEPT !.data[Length(r.arr)] = 10] ELSE r.arr,
                            r.trunced),
               first \o << 32 >> \o second \o << 10 >>)
<1>1. PICK f \in Nat, g \in Nat : f = Len(first) /\ g = Len(second) OBVIOUS
<1>2. 32 \in Byte /\ 10 \in Byte BY DEF Byte
<1>3. PICK space \in Seq(Byte) : space = << 32 >> /\ Len(space) = 1
  <2>1. << 32 >> \in Seq(Byte) /\ Len(<< 32 >>) = 1 BY <1>2
  <2> QED BY <2>1
<1>4. PICK u \in Seq(Byte) : u = first \o space /\ Len(u) = f + 1
  <2>1. first \o space \in Seq(Byte) /\ Len(first \o space) = Len(first) + Len(space)
    BY ConcatProperties
  <2> QED BY <2>1, <1>1, <1>3
<1>5. PICK x \in Seq(Byte) : x = u \o second /\ Len(x) = f + 1 + g
  <2>1. u \o second \in Seq(Byte) /\ Len(u \o second) = Len(u) + Len(second)
    BY ConcatProperties
  <2> QED BY <2>1, <1>1, <1>4
<1> DEFINE w == x \o << 32 >>
           v == x \o << 10 >>
<1>6. /\ w \in Seq(Byte) /\ v \in Seq(Byte) /\ Len(w) = Len(x) + 1 /\ Len(v) = Len(x) + 1
      /\ [w EXCEPT ![Len(x) + 1] = 10] = v
      /\ \A k \in 0 .. Len(x) : SubSeq(w, 1, k) = SubSeq(v, 1, k)
  BY <1>2, LastReplaced
<1>7. f + 1 + g + 1 + excess <= MaxSize
  <2>1. first \o << 32 >> \o second \o << 10 >> = v BY <1>3, <1>4, <1>5
  <2> HIDE DEF v
  <2>2. Len(v) = f + 1 + g + 1 BY <1>5, <1>6
  <2> QED BY <2>1, <2>2
<1>8. PICK e \in Seq(Byte) : e = << >> /\ Len(e) = 0 /\ e \o first = first
  <2>1. << >> \in Seq(Byte) /\ Len(<< >>) = 0 /\ << >> \o first = first OBVIOUS
  <2> QED BY <2>1
<1>9. Holds(str, Spaced(Empty, first, excess), u)
  <2>1. Holds(str, Empty, e) BY <1>8, Emptied DEF Empty
  <2>2. Len(e) + Len(first) + excess + 1 <= MaxSize BY <1>1, <1>7, <1>8, MaxSizeInt
  <2>3. Holds(str, Spaced(Empty, first, excess), e \o first \o << 32 >>) BY <2>1, <2>2, SpacedHolds
  <2> QED BY <2>3, <1>3, <1>4, <1>8
<1>10. Holds(str, r, w)
  <2>1. Len(u) + Len(second) + excess + 1 <= MaxSize BY <1>1, <1>4, <1>7, MaxSizeInt
  <2>2. Holds(str, Spaced(Spaced(Empty, first, excess), second, excess), u \o second \o << 32 >>)
    BY <1>9, <2>1, SpacedHolds
  <2> QED BY <2>2, <1>5
<1>11. PICK n \in Nat : n = Len(x) + 1 /\ Len(w) = n /\ Len(v) = n /\ Len(x) = n - 1
  <2> HIDE DEF w, v
  <2>1. Len(x) \in Nat OBVIOUS
  <2> QED BY <2>1, <1>6
<1> HIDE DEF w, v
<1>12. IsArray(r.arr) /\ SameKind(str, r.arr) /\ r.arr.data = SubSeq(w, 1, n - r.trunced)
       /\ r.trunced = Dropped(str, n) /\ r.trunced \in 0 .. n
  <2>1. r.trunced \in 0 .. Len(w) BY <1>6, <1>10, HoldsTypes
  <2> QED BY <1>10, <1>11, <2>1 DEF Holds
<1> DEFINE line == IF r.trunced = 0 THEN [r.arr EXCEPT !.data[Length(r.arr)] = 10] ELSE r.arr
<1>13. IsArray(line) /\ SameKind(str, line) /\ line.data = SubSeq(v, 1, n - r.trunced)
  <2>1. CASE r.trunced = 0
    <3>1. r.arr.data = w
      <4>1. SubSeq(w, 1, Len(w)) = w BY <1>6, PrefixFacts
      <4>2. n - r.trunced = n BY <2>1
      <4> QED BY <4>1, <4>2, <1>11, <1>12
    <3>2. SubSeq(v, 1, n - r.trunced) = v
      <4>1. SubSeq(v, 1, Len(v)) = v BY <1>6, PrefixFacts
      <4>2. n - r.trunced = n BY <2>1
      <4> QED BY <4>1, <4>2, <1>11
    <3> DEFINE b == [r.arr EXCEPT !.data = v]
    <3>3. line = b
      <4>1. Length(r.arr) = n BY <3>1, <1>11 DEF Length
      <4>2. line = [r.arr EXCEPT !.data = [@ EXCEPT ![n] = 10]] BY <2>1, <4>1
      <4>3. [r.arr.data EXCEPT ![n] = 10] = v BY <3>1, <1>6, <1>11
      <4> QED BY <4>2, <4>3
    <3>4. Len(v) <= r.arr.capacity
      <4>1. Len(r.arr.data) <= r.arr.capacity BY <1>12 DEF IsArray
      <4> QED BY <4>1, <3>1, <1>11
    <3>5. IsArray(b) /\ SameKind(r.arr, b) /\ b.data = v BY <1>6, <1>12, <3>4, WithData
    <3> HIDE DEF b, line
    <3>6. SameKind(str, b) BY <1>12, <3>5, KindsCompose
    <3> QED BY <3>2, <3>3, <3>5, <3>6
  <2>2. CASE r.trunced # 0
    <3>1. n - r.trunced \in 0 .. Len(x) BY <2>2, <1>11, <1>12
    <3>2. SubSeq(w, 1, n - r.trunced) = SubSeq(v, 1, n - r.trunced) BY <3>1, <1>6
    <3> QED BY <2>2, <3>2, <1>12
  <2> QED BY <2>1, <2>2
<1> HIDE DEF line
<1>14. Holds(str, Returns(line, r.trunced), v)
  BY <1>11, <1>12, <1>13 DEF Holds, Returns
<1>15. first \o << 32 >> \o second \o << 10 >> = v BY <1>3, <1>4, <1>5 DEF v
<1> QED BY <1>14, <1>15 DEF line

\* The recursive function in FlattenSeq of module SequencesExt
FlatOf(s) ==
  LET flatten[i \in 1 .. Len(s)] == IF i = 1 THEN s[i] ELSE flatten[i - 1] \o s[i]
  IN  flatten

\* f satisfies its equation up to n.
FlatTo(f, s, n) == f = [i \in 1 .. n |-> IF i = 1 THEN s[i] ELSE f[i - 1] \o s[i]]

\* There is such a function.
LEMMA FlatExists ==
  ASSUME NEW s, NEW n \in Nat
  PROVE  \E f : FlatTo(f, s, n)
<1> DEFINE T == {m \in Nat : \E f : FlatTo(f, s, m)}
<1>1. 0 \in T
  <2>1. FlatTo([i \in 1 .. 0 |-> s], s, 0)
    <3>1. 1 .. 0 = {} OBVIOUS
    <3> QED BY <3>1 DEF FlatTo
  <2> QED BY <2>1
<1>2. ASSUME NEW m \in Nat, m \in T PROVE m + 1 \in T
  <2>1. PICK f : FlatTo(f, s, m) BY <1>2
  <2> DEFINE g == [i \in 1 .. m + 1 |->
                     IF i # m + 1 THEN f[i] ELSE IF i = 1 THEN s[i] ELSE f[m] \o s[m + 1]]
  <2>2. ASSUME NEW i \in 1 .. m + 1
        PROVE  g[i] = IF i = 1 THEN s[i] ELSE g[i - 1] \o s[i]
    <3>1. CASE i # m + 1
      <4>1. i \in 1 .. m /\ (i # 1 => i - 1 \in 1 .. m + 1 /\ i - 1 # m + 1) BY <3>1
      <4>2. g[i] = f[i] /\ (i # 1 => g[i - 1] = f[i - 1]) BY <4>1, <3>1
      <4>3. f[i] = IF i = 1 THEN s[i] ELSE f[i - 1] \o s[i] BY <2>1, <4>1 DEF FlatTo
      <4> HIDE DEF g
      <4> QED BY <4>2, <4>3
    <3>2. CASE i = m + 1 /\ i # 1
      <4>1. i - 1 = m /\ m \in 1 .. m + 1 /\ m # m + 1 BY <3>2
      <4>2. g[i] = f[m] \o s[m + 1] /\ g[m] = f[m] BY <4>1, <3>2
      <4> HIDE DEF g
      <4> QED BY <4>1, <4>2, <3>2
    <3>3. CASE i = m + 1 /\ i = 1 BY <3>3
    <3> QED BY <3>1, <3>2, <3>3
  <2>3. FlatTo(g, s, m + 1) BY <2>2 DEF FlatTo
  <2> HIDE DEF g
  <2>4. m + 1 \in Nat OBVIOUS
  <2> QED BY <2>3, <2>4
<1> HIDE DEF T
<1>3. Nat \subseteq T BY <1>1, <1>2, Induction
<1> QED BY <1>3 DEF T

\* The function its definition says it is
LEMMA FlatSteps ==
  ASSUME NEW s, NEW n \in Nat, n = Len(s)
  PROVE  /\ n > 0 => FlatOf(s)[1] = s[1] /\ TextOf(s) = FlatOf(s)[n]
         /\ \A i \in 1 .. n : i # 1 => FlatOf(s)[i] = FlatOf(s)[i - 1] \o s[i]
         /\ n = 0 => TextOf(s) = s
<1> DEFINE c == FlatOf(s)
<1>0. PICK f : FlatTo(f, s, n) BY FlatExists
<1>1. f = [i \in 1 .. Len(s) |-> IF i = 1 THEN s[i] ELSE f[i - 1] \o s[i]]
  BY <1>0 DEF FlatTo
<1>2. c = [i \in 1 .. Len(s) |-> IF i = 1 THEN s[i] ELSE c[i - 1] \o s[i]]
  BY Zenon, <1>1 DEF FlatOf
<1>3. TextOf(s) = IF Len(s) = 0 THEN s ELSE c[Len(s)]
  BY Zenon DEF TextOf, FlattenSeq, FlatOf, c
<1> HIDE DEF c
<1>4. n > 0 => c[1] = s[1] BY <1>2
<1>5. ASSUME NEW i \in 1 .. n, i # 1 PROVE c[i] = c[i - 1] \o s[i]
  BY <1>2, <1>5
<1>6. n > 0 => TextOf(s) = c[n]
  <2>1. n > 0 => ~ (Len(s) = 0) OBVIOUS
  <2> QED BY <1>3, <2>1
<1>7. n = 0 => TextOf(s) = s
  <2>1. n = 0 => Len(s) = 0 OBVIOUS
  <2> QED BY <1>3, <2>1
<1>8. \A i \in 1 .. n : i # 1 => c[i] = c[i - 1] \o s[i] BY <1>5
<1> QED BY <1>4, <1>6, <1>7, <1>8 DEF c

\* A text of sequences of bytes is a sequence of bytes, no shorter than its beginnings.
LEMMA FlatTypes ==
  ASSUME NEW s \in Seq(Seq(Byte))
  PROVE  /\ \A i \in 1 .. Len(s) : FlatOf(s)[i] \in Seq(Byte)
         /\ \A i, j \in 1 .. Len(s) : i <= j => Len(FlatOf(s)[i]) <= Len(FlatOf(s)[j])
         /\ TextOf(s) \in Seq(Byte)
<1> DEFINE c == FlatOf(s)
           T == {i \in Nat : i + 1 <= Len(s) =>
                   /\ c[i + 1] \in Seq(Byte)
                   /\ \A k \in 1 .. i + 1 : Len(c[k]) <= Len(c[i + 1])}
<1>0. PICK n \in Nat : n = Len(s) OBVIOUS
<1>1. \A i \in 1 .. n : s[i] \in Seq(Byte) BY <1>0
<1>2. /\ n > 0 => c[1] = s[1] /\ TextOf(s) = c[n]
      /\ \A i \in 1 .. n : i # 1 => c[i] = c[i - 1] \o s[i]
      /\ n = 0 => TextOf(s) = s
  BY <1>0, FlatSteps
<1> HIDE DEF c
<1>3. 0 \in T
  <2>1. ASSUME 0 + 1 <= Len(s)
        PROVE  c[0 + 1] \in Seq(Byte) /\ \A k \in 1 .. 0 + 1 : Len(c[k]) <= Len(c[0 + 1])
    <3>1. c[1] = s[1] /\ 1 \in 1 .. n /\ 0 + 1 = 1 BY <2>1, <1>0, <1>2
    <3>2. c[1] \in Seq(Byte) BY <3>1, <1>1
    <3>3. Len(c[1]) \in Nat BY <3>2
    <3>4. \A k \in 1 .. 1 : Len(c[k]) <= Len(c[1])
      <4>1. \A k \in 1 .. 1 : k = 1 OBVIOUS
      <4>2. Len(c[1]) <= Len(c[1]) BY <3>3
      <4> QED BY <4>1, <4>2
    <3> QED BY <3>1, <3>2, <3>4
  <2> QED BY <2>1
<1>4. ASSUME NEW i \in Nat, i \in T PROVE i + 1 \in T
  <2> DEFINE j == i + 1
  <2>1. ASSUME j + 1 <= Len(s)
        PROVE  c[j + 1] \in Seq(Byte) /\ \A k \in 1 .. j + 1 : Len(c[k]) <= Len(c[j + 1])
    <3>1. j \in Nat /\ j + 1 \in 1 .. n /\ j + 1 # 1 /\ (j + 1) - 1 = j /\ j <= Len(s) BY <2>1, <1>0
    <3>2. c[j] \in Seq(Byte) /\ \A k \in 1 .. j : Len(c[k]) <= Len(c[j]) BY <3>1, <1>4
    <3> HIDE DEF j
    <3>3. c[j + 1] = c[j] \o s[j + 1] /\ s[j + 1] \in Seq(Byte) BY <3>1, <1>1, <1>2
    <3> DEFINE x == c[j]
               y == s[j + 1]
    <3>4. x \in Seq(Byte) /\ y \in Seq(Byte) BY <3>2, <3>3
    <3> HIDE DEF x, y
    <3>5. x \o y \in Seq(Byte) /\ Len(x \o y) = Len(x) + Len(y) /\ Len(x) \in Nat /\ Len(y) \in Nat
      BY <3>4, ConcatProperties
    <3>6. c[j + 1] \in Seq(Byte) /\ Len(c[j]) <= Len(c[j + 1]) /\ Len(c[j]) \in Nat
          /\ Len(c[j + 1]) \in Nat
      <4>1. c[j + 1] = x \o y /\ c[j] = x BY <3>3 DEF x, y
      <4>2. Len(x) <= Len(x \o y) /\ Len(x \o y) \in Nat BY <3>5
      <4> QED BY <4>1, <4>2, <3>5
    <3>7. ASSUME NEW k \in 1 .. j + 1 PROVE Len(c[k]) <= Len(c[j + 1])
      <4>1. CASE k = j + 1 BY <4>1, <3>6
      <4>2. CASE k # j + 1
        <5>1. k \in 1 .. j /\ k \in 1 .. n BY <4>2, <3>1
        <5>2. Len(c[k]) <= Len(c[j]) BY <5>1, <3>2
        <5> QED BY <5>2, <3>6
      <4> QED BY <4>1, <4>2
    <3> QED BY <3>6, <3>7
  <2> QED BY <2>1
<1> HIDE DEF T
<1>5. Nat \subseteq T BY <1>3, <1>4, Induction
<1>6. ASSUME NEW i \in 1 .. n
      PROVE  c[i] \in Seq(Byte) /\ \A k \in 1 .. i : Len(c[k]) <= Len(c[i])
  <2>1. i - 1 \in T /\ (i - 1) + 1 = i /\ i <= Len(s) BY <1>0, <1>5
  <2> QED BY <2>1 DEF T
<1>7. TextOf(s) \in Seq(Byte)
  <2>1. CASE n = 0
    <3>1. s = << >> BY <2>1, <1>0
    <3>2. << >> \in Seq(Byte) OBVIOUS
    <3> QED BY <2>1, <3>1, <3>2, <1>2
  <2>2. CASE n # 0 BY <2>2, <1>2, <1>6
  <2> QED BY <2>1, <2>2
<1>8. ASSUME NEW i \in 1 .. n, NEW j \in 1 .. n, i <= j PROVE Len(c[i]) <= Len(c[j])
  <2>1. i \in 1 .. j BY <1>8
  <2> QED BY <2>1, <1>6
<1>9. (\A i \in 1 .. n : c[i] \in Seq(Byte))
      /\ (\A i, j \in 1 .. n : i <= j => Len(c[i]) <= Len(c[j]))
  BY <1>6, <1>8
<1> QED BY <1>0, <1>7, <1>9 DEF c

\* Codepoints appended one after another are held as if they were appended at once.
LEMMA TakenHolds ==
  ASSUME NEW a, IsArray(a), a.data = << >>, NEW s \in Seq(Seq(Byte)), Len(TextOf(s)) <= MaxSize
  PROVE  Holds(a, TakenOf(a, s)[Len(s)], TextOf(s))
<1> DEFINE c == TakenOf(a, s)
           t == FlatOf(s)
           T == {i \in Nat : i + 1 <= Len(s) => Holds(a, c[i + 1], t[i + 1])}
<1>1. PICK n \in Nat : n = Len(s) OBVIOUS
<1>2. c[0] = Returns(a, 0) /\ \A i \in 1 .. n : c[i] = AppendCodepoint(c[i - 1], s[i])
  BY <1>1, TakenSteps
<1>3. /\ n > 0 => t[1] = s[1] /\ TextOf(s) = t[n]
      /\ \A i \in 1 .. n : i # 1 => t[i] = t[i - 1] \o s[i]
      /\ n = 0 => TextOf(s) = s
  BY <1>1, FlatSteps
<1>4. /\ \A i \in 1 .. n : t[i] \in Seq(Byte)
      /\ \A i, j \in 1 .. n : i <= j => Len(t[i]) <= Len(t[j])
      /\ \A i \in 1 .. n : s[i] \in Seq(Byte)
  <2>1. /\ \A i \in 1 .. Len(s) : FlatOf(s)[i] \in Seq(Byte)
        /\ \A i, j \in 1 .. Len(s) : i <= j => Len(FlatOf(s)[i]) <= Len(FlatOf(s)[j])
    BY FlatTypes
  <2>2. \A i \in 1 .. Len(s) : s[i] \in Seq(Byte) OBVIOUS
  <2>3. 1 .. n = 1 .. Len(s) BY <1>1
  <2> HIDE DEF t
  <2>4. \A i, j \in 1 .. n : i <= j => Len(t[i]) <= Len(t[j]) BY <2>1, <2>3, Zenon DEF t
  <2> QED BY <2>1, <2>2, <2>3, <2>4 DEF t
<1> HIDE DEF c, t
<1>5. \A i \in 1 .. n : Len(t[i]) <= MaxSize
  <2>1. ASSUME NEW i \in 1 .. n PROVE Len(t[i]) <= MaxSize
    <3>1. n \in 1 .. n /\ i <= n OBVIOUS
    <3>2. Len(t[i]) <= Len(t[n]) /\ t[i] \in Seq(Byte) /\ t[n] \in Seq(Byte) BY <3>1, <1>4
    <3>3. Len(t[n]) <= MaxSize BY <3>1, <1>3
    <3>4. Len(t[i]) \in Nat /\ Len(t[n]) \in Nat BY <3>2
    <3> QED BY <3>2, <3>3, <3>4, MaxSizeInt
  <2> QED BY <2>1
<1>6. ASSUME NEW r, NEW w \in Seq(Byte), Holds(a, r, w), NEW e \in Seq(Byte), Len(w \o e) <= MaxSize
      PROVE  Holds(a, AppendCodepoint(r, e), w \o e)
  <2> DEFINE p == AppendAll(r.arr, e)
  <2>1. r.arr.data \in Seq(Byte) /\ Len(r.arr.data) = Len(w) - r.trunced /\ r.trunced \in 0 .. Len(w)
        /\ IsArray(r.arr)
    BY <1>6, HoldsTypes DEF Holds
  <2>2. Len(r.arr.data) + Len(e) <= MaxSize
    <3>1. PICK x \in Nat, y \in Nat, z \in Nat : x = Len(w) /\ y = Len(e) /\ z = Len(r.arr.data) BY <2>1
    <3>2. z <= x /\ x + y <= MaxSize
      <4>1. Len(w \o e) = Len(w) + Len(e) BY ConcatProperties
      <4>2. x + y <= MaxSize BY <4>1, <3>1, <1>6
      <4> QED BY <4>2, <3>1, <2>1
    <3>3. z + y <= MaxSize BY <3>2, MaxSizeInt
    <3> QED BY <3>1, <3>3
  <2>3. Holds(r.arr, p, r.arr.data \o e) BY <2>1, <2>2, AppendHolds
  <2> HIDE DEF p
  <2>4. Holds(a, Returns(p.arr, r.trunced + p.trunced), w \o e) BY <1>6, <2>3, Continued
  <2> QED BY <2>4 DEF AppendCodepoint, p
<1>7. Holds(a, c[0], << >>)
  <2>1. Holds(a, Returns([a EXCEPT !.data = << >>], 0), << >>) BY Emptied
  <2>2. [a EXCEPT !.data = << >>] = a BY DEF IsArray, ArrayRecord
  <2> QED BY <2>1, <2>2, <1>2
<1>8. 0 \in T
  <2>1. ASSUME 0 + 1 <= Len(s) PROVE Holds(a, c[0 + 1], t[0 + 1])
    <3>1. 1 \in 1 .. n /\ 1 - 1 = 0 /\ 0 + 1 = 1 /\ n > 0 BY <2>1, <1>1
    <3>2. c[1] = AppendCodepoint(c[0], s[1]) /\ t[1] = s[1] /\ s[1] \in Seq(Byte)
          /\ Len(t[1]) <= MaxSize
      BY <3>1, <1>2, <1>3, <1>4, <1>5
    <3>3. PICK w \in Seq(Byte) : w = << >>
      <4>1. << >> \in Seq(Byte) OBVIOUS
      <4> QED BY <4>1
    <3> DEFINE e == s[1]
    <3>4. e \in Seq(Byte) BY <3>2
    <3> HIDE DEF e
    <3>5. w \o e = e BY <3>3, <3>4
    <3>6. Len(w \o e) <= MaxSize BY <3>2, <3>5 DEF e
    <3>7. Holds(a, c[0], w) BY <1>7, <3>3
    <3>8. Holds(a, AppendCodepoint(c[0], e), w \o e) BY <1>6, <3>4, <3>6, <3>7
    <3> QED BY <3>1, <3>2, <3>5, <3>8 DEF e
  <2> QED BY <2>1
<1>9. ASSUME NEW i \in Nat, i \in T PROVE i + 1 \in T
  <2> DEFINE j == i + 1
  <2>1. ASSUME j + 1 <= Len(s) PROVE Holds(a, c[j + 1], t[j + 1])
    <3>1. j \in 1 .. n /\ j + 1 \in 1 .. n /\ j + 1 # 1 /\ (j + 1) - 1 = j /\ j <= Len(s)
      BY <2>1, <1>1
    <3>2. Holds(a, c[j], t[j]) BY <3>1, <1>9
    <3> HIDE DEF j
    <3>3. c[j + 1] = AppendCodepoint(c[j], s[j + 1]) /\ t[j + 1] = t[j] \o s[j + 1]
          /\ s[j + 1] \in Seq(Byte) /\ t[j] \in Seq(Byte) /\ Len(t[j + 1]) <= MaxSize
      BY <3>1, <1>2, <1>3, <1>4, <1>5
    <3> DEFINE w == t[j]
               e == s[j + 1]
               r == c[j]
    <3>4. w \in Seq(Byte) /\ e \in Seq(Byte) /\ Holds(a, r, w) /\ Len(w \o e) <= MaxSize
      BY <3>2, <3>3
    <3> HIDE DEF w, e, r
    <3>5. Holds(a, AppendCodepoint(r, e), w \o e) BY <3>4, <1>6
    <3> QED BY <3>3, <3>5 DEF w, e, r
  <2> QED BY <2>1
<1> HIDE DEF T
<1>10. Nat \subseteq T BY <1>8, <1>9, Induction
<1>11. CASE n = 0
  <2>1. s = << >> /\ TextOf(s) = s BY <1>11, <1>1, <1>3
  <2> QED BY <2>1, <1>1, <1>7, <1>11 DEF c
<1>12. CASE n # 0
  <2>1. n - 1 \in T /\ (n - 1) + 1 = n /\ n <= Len(s) BY <1>1, <1>10, <1>12
  <2>2. Holds(a, c[n], t[n]) BY <2>1 DEF T
  <2> QED BY <2>2, <1>1, <1>3, <1>12 DEF c
<1> QED BY <1>11, <1>12

\* What a file consists of
Codepoint == Seq(Byte) \ {<< >>}

\* A word and what is left of the file after it are parts of the file.
LEMMA WordParts ==
  ASSUME NEW f \in Seq(Codepoint)
  PROVE  /\ Word(f).word \in Seq(Codepoint)
         /\ Word(f).rest \in Seq(Codepoint)
         /\ \E k \in 0 .. Len(f) : Word(f).rest = SubSeq(f, k + 1, Len(f))
<1> DEFINE words == {i \in 1 .. Len(f) : f[i] \notin Spaces}
           first == Min(words)
           ends == {i \in first .. Len(f) : f[i] \in Spaces}
           last == Min(ends)
<1>0. Len(f) \in Nat OBVIOUS
<1>1. CASE words = {}
  <2>1. Word(f).word = << >> /\ Word(f).rest = << >> BY <1>1 DEF Word
  <2>2. << >> \in Seq(Codepoint) /\ SubSeq(f, Len(f) + 1, Len(f)) = << >> BY <1>0
  <2>3. Len(f) \in 0 .. Len(f) BY <1>0
  <2> QED BY <2>1, <2>2, <2>3
<1>2. CASE words # {}
  <2>1. words \subseteq Nat OBVIOUS
  <2>2. first \in words
    <3> HIDE DEF words
    <3> QED BY <2>1, <1>2, MinIsLeast
  <2>3. first \in 1 .. Len(f) BY <2>2
  <2> HIDE DEF first
  <2>4. CASE ends = {}
    <3>1. Word(f) = [word |-> SubSeq(f, first, Len(f)), rest |-> << >>]
      BY <1>2, <2>4 DEF Word, first
    <3>2. SubSeq(f, first, Len(f)) \in Seq(Codepoint) /\ << >> \in Seq(Codepoint)
          /\ SubSeq(f, Len(f) + 1, Len(f)) = << >>
      BY <1>0, <2>3
    <3>3. Len(f) \in 0 .. Len(f) BY <1>0
    <3> QED BY <3>1, <3>2, <3>3
  <2>5. CASE ends # {}
    <3>1. ends \subseteq Nat BY <2>3
    <3>2. last \in ends
      <4> HIDE DEF ends
      <4> QED BY <3>1, <2>5, MinIsLeast
    <3>3. last \in first .. Len(f) /\ last \in 1 .. Len(f) BY <3>2, <2>3
    <3>4. Word(f) = [word |-> SubSeq(f, first, last - 1), rest |-> SubSeq(f, last + 1, Len(f))]
      BY <1>2, <2>5 DEF Word, first
    <3> HIDE DEF last
    <3>5. SubSeq(f, first, last - 1) \in Seq(Codepoint) /\ SubSeq(f, last + 1, Len(f)) \in Seq(Codepoint)
      BY <1>0, <2>3, <3>3
    <3>6. last \in 0 .. Len(f) BY <3>3
    <3> QED BY <3>4, <3>5, <3>6
  <2> QED BY <2>4, <2>5
<1> QED BY <1>1, <1>2

\* What DynamicStringAssumption says of the bounds
LEMMA Bounds ==
  /\ MaxLength \in Nat /\ MaxEstimate \in Nat /\ MaxSize \in Nat
  /\ MaxLength + MaxEstimate < MaxSize /\ MaxLength < MaxSize
<1>1. MaxLength \in Nat /\ MaxEstimate \in Nat /\ MaxLength + MaxEstimate < MaxSize
  BY DynamicStringAssumption
<1>2. MaxSize \in Int BY MaxSizeInt
<1> QED BY <1>1, <1>2

\* A step that leaves an array, and is one of AbstractSequence
Good == IsArray(str)' /\ [Sequence!Next]_(Sequence!vars)

\* A call that holds what was asked for is an Edit of AbstractSequence.
LEMMA Edited ==
  ASSUME IsArray(str), NEW r, NEW p \in Nat, NEW n \in Nat,
         NEW by \in Seq(Byte), p + n <= Len(str.data),
         Holds(str, r, Spliced(str.data, p, n, by)),
         str' = r.arr, trunced' = r.trunced, asked' = Request(p, n, by)
  PROVE  Good
<1> DEFINE w == Spliced(str.data, p, n, by)
<1>1. IsArray(str)' BY DEF Holds, IsArray, ArrayRecord, IsChar
<1>2. str.allocator \in BOOLEAN /\ str.capacity \in Nat BY DEF IsArray, ArrayRecord
<1>3. SameKind(str, r.arr) /\ r.arr.data = SubSeq(w, 1, Len(w) - r.trunced)
      /\ r.trunced = Dropped(str, Len(w))
  BY DEF Holds
<1>4. asked' = [at |-> p, count |-> n, by |-> by, room |-> 0] BY DEF Request, Sequence!Request
<1>5. Sequence!Splice(str.data, p, n, by) = w
  BY DEF Sequence!Splice, Sequence!Prefix, Spliced, Joined, Before, Behind
<1> HIDE DEF w
<1>6. Sequence!Excess(Len(w)) = Dropped(str, Len(w))
  BY <1>2 DEF Sequence!Excess, Sequence!Unlimited, Dropped
<1>7. (IF str.allocator THEN -1 ELSE str.capacity)' = IF str.allocator THEN -1 ELSE str.capacity
  BY <1>2, <1>3 DEF SameKind
<1>8. Sequence!Edit
  <2> DEFINE q == asked'
             whole == Sequence!Splice(str.data, q.at, q.count, q.by)
  <2>1. q.at = p /\ q.count = n /\ q.by = by BY <1>4
  <2>2. q = Sequence!Request(q.at, q.count, q.by) BY <1>4, <2>1 DEF Sequence!Request
  <2>3. whole = w BY <1>5, <2>1
  <2>4. q.at + q.count <= Len(str.data) BY <2>1
  <2>5. trunced' = Sequence!Excess(Len(whole)) BY <1>3, <1>6, <2>3
  <2>6. str.data' = Sequence!Prefix(whole, Len(whole) - trunced')
    BY <1>3, <2>3 DEF Sequence!Prefix
  <2> HIDE DEF whole
  <2>7. UNCHANGED (IF str.allocator THEN -1 ELSE str.capacity) BY <1>7
  <2> HIDE DEF q
  <2> QED BY <2>2, <2>4, <2>5, <2>6, <2>7 DEF Sequence!Edit, whole, q
<1> QED BY <1>1, <1>8 DEF Good, Sequence!Next

\* All is replaced.
LEMMA AllReplaced ==
  ASSUME IsArray(str), NEW r, NEW by \in Seq(Byte), Calls(r, Everything(by)),
         Len(by) <= MaxLength => Holds(str, r, by)
  PROVE  Good
<1>1. str.data \in Seq(Byte) /\ Len(str.data) \in Nat /\ Len(by) \in Nat BY DEF IsArray, ArrayRecord
<1>2. Request(0, Length(str), by).count = Len(str.data) /\ Request(0, Length(str), by).by = by
  BY DEF Request, Sequence!Request, Length
<1>3. Len(by) <= MaxLength
  <2>1. Len(str.data) - Len(str.data) + Len(by) <= MaxLength BY <1>2 DEF Calls, Everything, Length
  <2> QED BY <2>1, <1>1
<1>4. Holds(str, r, by) BY <1>3
<1>5. Spliced(str.data, 0, Len(str.data), by) = by BY <1>1, SplicedCases
<1>6. str' = r.arr /\ trunced' = r.trunced /\ asked' = Request(0, Len(str.data), by)
  BY DEF Calls, Everything, Length
<1>7. 0 + Len(str.data) <= Len(str.data) BY <1>1
<1> QED BY <1>1, <1>4, <1>5, <1>6, <1>7, Edited

\* Something is added at the end.
LEMMA Added ==
  ASSUME IsArray(str), NEW r, NEW by \in Seq(Byte), Calls(r, Request(Length(str), 0, by)),
         Len(str.data) + Len(by) <= MaxLength => Holds(str, r, str.data \o by)
  PROVE  Good
<1>1. str.data \in Seq(Byte) /\ Len(str.data) \in Nat /\ Len(by) \in Nat BY DEF IsArray, ArrayRecord
<1>2. Request(Length(str), 0, by).count = 0 /\ Request(Length(str), 0, by).by = by
  BY DEF Request, Sequence!Request, Length
<1>3. Len(str.data) + Len(by) <= MaxLength
  <2>1. Len(str.data) - 0 + Len(by) <= MaxLength BY <1>2 DEF Calls, Length
  <2> QED BY <2>1, <1>1
<1>4. Holds(str, r, str.data \o by) BY <1>3
<1>5. Spliced(str.data, Len(str.data), 0, by) = str.data \o by BY <1>1, SplicedCases
<1>6. str' = r.arr /\ trunced' = r.trunced /\ asked' = Request(Len(str.data), 0, by)
  BY DEF Calls, Length
<1>7. Len(str.data) + 0 <= Len(str.data) BY <1>1
<1> QED BY <1>1, <1>4, <1>5, <1>6, <1>7, Edited

\* Some elements are replaced.
LEMMA SomeReplaced ==
  ASSUME IsArray(str), NEW r, NEW p \in Nat, NEW n \in Nat, NEW by \in Seq(Byte),
         Calls(r, Request(p, n, by)), p + n <= Len(str.data),
         Len(str.data) - n + Len(by) <= MaxLength => Holds(str, r, Spliced(str.data, p, n, by))
  PROVE  Good
<1>1. Request(p, n, by).count = n /\ Request(p, n, by).by = by BY DEF Request, Sequence!Request
<1>2. Len(str.data) - n + Len(by) <= MaxLength BY <1>1 DEF Calls, Length
<1>3. str' = r.arr /\ trunced' = r.trunced /\ asked' = Request(p, n, by) BY DEF Calls
<1> QED BY <1>2, <1>3, Edited

\* Room is made.
LEMMA RoomMade ==
  ASSUME IsArray(str), NEW n \in 0 .. MaxSize, Calls(Reserve(str, n), Sequence!Room(n))
  PROVE  Good
<1> DEFINE r == Reserve(str, n)
<1>1. IsArray(r.arr) /\ SameKind(str, r.arr) /\ r.arr.data = str.data /\ r.trunced = Dropped(str, n)
  BY Reserved
<1>2. str.allocator \in BOOLEAN /\ str.capacity \in Nat /\ n \in Nat BY Bounds DEF IsArray, ArrayRecord
<1>3. str' = r.arr /\ trunced' = r.trunced /\ asked' = Sequence!Room(n) BY DEF Calls
<1> HIDE DEF r
<1>4. IsArray(str)' BY <1>1, <1>3 DEF IsArray, ArrayRecord, IsChar
<1>5. Sequence!Excess(n) = Dropped(str, n)
  BY <1>2 DEF Sequence!Excess, Sequence!Unlimited, Dropped
<1>6. (IF str.allocator THEN -1 ELSE str.capacity)' = IF str.allocator THEN -1 ELSE str.capacity
  BY <1>1, <1>2, <1>3 DEF SameKind
<1>7. asked'.room = n BY <1>3 DEF Sequence!Room
<1>8. Sequence!Reserve
  BY <1>1, <1>2, <1>3, <1>5, <1>6, <1>7 DEF Sequence!Reserve, Sequence!Room
<1> QED BY <1>4, <1>8 DEF Good, Sequence!Next

\* A full array without allocator takes nothing past its end.
LEMMA Refused ==
  ASSUME IsArray(str), Full(str), NEW p \in Nat, Len(str.data) <= p, NEW n, NEW by \in Seq(Byte),
         NEW lost \in 0 .. Len(by), Calls(Returns(str, lost), Request(p, n, by))
  PROVE  Good
<1>1. str' = str /\ trunced' = lost /\ asked' = [at |-> p, count |-> n, by |-> by, room |-> 0]
  BY DEF Calls, Returns, Request, Sequence!Request
<1>2. ~ str.allocator /\ Len(str.data) = str.capacity BY DEF Full, Length
<1>3. Sequence!Refuse
  BY <1>1, <1>2 DEF Sequence!Refuse, Sequence!Request
<1>4. IsArray(str)' BY <1>1 DEF IsArray
<1> QED BY <1>3, <1>4 DEF Good, Sequence!Next

\* Nothing is changed and nothing was asked for.
LEMMA Kept ==
  ASSUME IsArray(str), Calls(Returns(str, 0), Keep)
  PROVE  Good
<1>1. PICK e \in Seq(Byte) : e = << >> /\ Len(e) = 0
  <2>1. << >> \in Seq(Byte) /\ Len(<< >>) = 0 OBVIOUS
  <2> QED BY <2>1
<1>2. str' = str /\ trunced' = 0 /\ asked' = Request(0, 0, e) BY <1>1 DEF Calls, Returns, Keep
<1>3. Spliced(str.data, 0, 0, e) = str.data
  <2> DEFINE d == str.data
  <2>1. d \in Seq(Byte) BY DEF IsArray, ArrayRecord
  <2> HIDE DEF d
  <2>2. Before(d, 0) = << >> /\ Behind(d, 0 + 0) = d BY <2>1 DEF Before, Behind
  <2>3. (<< >> \o << >>) \o d = d BY <2>1
  <2> QED BY <2>2, <2>3, <1>1 DEF Spliced, Joined, d
<1>4. Holds(str, Returns(str, 0), str.data)
  <2>1. str.data \in Seq(Byte) /\ Len(str.data) <= str.capacity BY DEF IsArray, ArrayRecord
  <2>2. Holds(str, Returns([str EXCEPT !.data = str.data], 0), str.data) BY <2>1, Within
  <2>3. [str EXCEPT !.data = str.data] = str BY DEF IsArray, ArrayRecord
  <2> QED BY <2>2, <2>3
<1>5. 0 + 0 <= Len(str.data) BY DEF IsArray, ArrayRecord
<1>6. Returns(str, 0).arr = str /\ Returns(str, 0).trunced = 0 BY DEF Returns
<1> QED BY <1>2, <1>3, <1>4, <1>5, <1>6, Edited

\* gp_arr_filter() in place
LEMMA FilterInPlaceHolds ==
  ASSUME NEW a, IsArray(a), NEW keep
  PROVE  Holds(a, FilterInPlace(a, keep), Chosen(a.data, keep))
<1>1. a.data \in Seq(Byte) BY DEF IsArray, ArrayRecord
<1> DEFINE c == Chosen(a.data, keep)
<1>2. c \in Seq(Byte) /\ Len(c) <= Len(a.data) BY <1>1, ChosenIsSequence
<1>3. FilterInPlace(a, keep) = Returns([a EXCEPT !.data = c], 0) BY DEF FilterInPlace
<1> HIDE DEF c
<1> QED BY <1>2, <1>3, ShorterHolds DEF c

\* Every call on an array is a step of AbstractSequence.
LEMMA ArrayStep ==
  ASSUME IsArray(str), ArrayNext
  PROVE  Good
<1>1. str.data \in Seq(Byte) /\ Len(str.data) \in Nat /\ Len(str.data) <= str.capacity
      /\ str.capacity \in Nat /\ str.size \in Nat
  BY DEF IsArray, ArrayRecord
<1>2. Sources \subseteq Seq(Byte) /\ Capacities \subseteq 0 .. MaxSize BY DynamicStringAssumption
<1>3. ASSUME NEW x \in Int, x <= MaxLength PROVE x <= MaxSize
  BY <1>3, Bounds
<1>4. ASSUME NEW n \in Capacities, ReserveCapacity(n) PROVE Good
  BY <1>2, <1>4, RoomMade DEF ReserveCapacity
<1>5. ASSUME NEW src \in Sources, CopyFrom(src) PROVE Good
  <2>1. src \in Seq(Byte) /\ Len(src) \in Int BY <1>2
  <2>2. Len(src) <= MaxLength => Holds(str, Copy(str, src), src) BY <2>1, <1>3, CopyHolds
  <2> QED BY <1>5, <2>1, <2>2, AllReplaced DEF CopyFrom
<1>6. ASSUME NEW src \in Sources, AppendFrom(src) PROVE Good
  <2>1. src \in Seq(Byte) /\ Len(src) \in Nat BY <1>2
  <2>2. Len(str.data) + Len(src) <= MaxLength => Holds(str, AppendAll(str, src), str.data \o src)
    <3>1. Len(str.data) + Len(src) \in Int BY <2>1, <1>1
    <3> QED BY <2>1, <3>1, <1>3, AppendHolds
  <2> QED BY <1>6, <2>1, <2>2, Added DEF AppendFrom
<1>7. ASSUME NEW src \in Sources, MapFrom(src) PROVE Good
  <2> DEFINE m == Mapped(Image, src)
  <2>1. m \in Seq(Byte) /\ Len(m) \in Int
    <3>1. src \in Seq(Byte) BY <1>2
    <3>2. Len(src) \in Nat BY <3>1
    <3> QED BY <3>1, <3>2, MappedTypes
  <2>2. MapOf(str, src, Image) = Copy(str, m) BY DEF MapOf
  <2> HIDE DEF m
  <2>3. Len(m) <= MaxLength => Holds(str, Copy(str, m), m) BY <2>1, <1>3, CopyHolds
  <2> QED BY <1>7, <2>1, <2>2, <2>3, AllReplaced DEF MapFrom, m
<1>8. ASSUME NEW src \in Sources, FilterFrom(src) PROVE Good
  <2> DEFINE m == Chosen(src, Wanted)
  <2>1. src \in Seq(Byte) BY <1>2
  <2>2. m \in Seq(Byte) /\ Len(m) \in Int
    <3>1. m \in Seq(Byte) BY <2>1, ChosenIsSequence
    <3> HIDE DEF m
    <3> QED BY <3>1
  <2>3. Len(m) <= MaxLength => Holds(str, FilterOf(str, src, Wanted), m)
    <3>1. Len(m) <= MaxLength => Len(m) <= MaxSize BY <2>2, <1>3
    <3> QED BY <2>1, <3>1, FilterHolds
  <2> HIDE DEF m
  <2> QED BY <1>8, <2>2, <2>3, AllReplaced DEF FilterFrom, m
<1>9. ASSUME NEW src \in Sources, NEW end \in 0 .. Len(src), NEW start \in 0 .. end,
             SliceFrom(src, start, end)
      PROVE  Good
  <2> DEFINE m == Between(src, start, end)
  <2>1. src \in Seq(Byte) BY <1>2
  <2>2. m \in Seq(Byte) /\ Len(m) \in Int
    <3>1. m \in Seq(Byte) BY <2>1, BetweenTypes
    <3> HIDE DEF m
    <3> QED BY <3>1
  <2>3. SliceOf(str, src, start, end) = Copy(str, m) BY DEF SliceOf
  <2> HIDE DEF m
  <2>4. Len(m) <= MaxLength => Holds(str, Copy(str, m), m) BY <2>2, <1>3, CopyHolds
  <2> QED BY <1>9, <2>2, <2>3, <2>4, AllReplaced DEF SliceFrom, m
<1>10. ASSUME NEW src \in Sources, NEW position \in 0 .. MaxLength, InsertFrom(position, src) PROVE Good
  <2>1. src \in Seq(Byte) /\ Len(src) \in Nat /\ position \in Nat BY <1>2, Bounds
  <2>2. CASE Full(str) /\ position >= Len(str.data)
    <3>1. Insert(str, position, src) = Returns(str, Len(src)) BY <2>2 DEF Insert, Length
    <3>2. Calls(Returns(str, Len(src)), Request(position, 0, src)) BY <1>10, <3>1 DEF InsertFrom
    <3>3. Len(str.data) <= position /\ Len(src) \in 0 .. Len(src) BY <2>1, <2>2, <1>1
    <3> QED BY <2>1, <2>2, <3>2, <3>3, Refused
  <2>3. CASE ~ (Full(str) /\ position >= Len(str.data))
    <3>1. position <= Len(str.data) /\ position + 0 <= Len(str.data)
      <4>1. position <= Len(str.data)
        <5>1. position <= Len(str.data) \/ Full(str) BY <1>10 DEF InsertFrom, Length
        <5> QED BY <5>1, <2>3, <2>1, <1>1
      <4> QED BY <4>1, <2>1
    <3>2. Len(str.data) - 0 + Len(src) <= MaxLength
            => Holds(str, Insert(str, position, src), Spliced(str.data, position, 0, src))
      <4>1. Len(str.data) - 0 + Len(src) = Len(str.data) + Len(src) /\ Len(str.data) + Len(src) \in Int
        BY <2>1, <1>1
      <4>2. Len(str.data) + Len(src) <= MaxLength => Len(str.data) + Len(src) <= MaxSize
        BY <4>1, <1>3
      <4> QED BY <4>1, <4>2, <2>1, <2>3, <3>1, InsertHolds
    <3>3. 0 \in Nat OBVIOUS
    <3> QED BY <1>10, <2>1, <3>1, <3>2, <3>3, SomeReplaced DEF InsertFrom
  <2> QED BY <2>2, <2>3
<1>11. ASSUME NEW src \in Sources, Len(src) = 1, PushElement(src[1]) PROVE Good
  <2> DEFINE e == src[1]
  <2>1. e \in Byte
    <3>1. src \in Seq(Byte) BY <1>2
    <3> QED BY <3>1, <1>11
  <2> HIDE DEF e
  <2>2. PICK by \in Seq(Byte) : by = <<e>> /\ Len(by) = 1
    <3>1. <<e>> \in Seq(Byte) /\ Len(<<e>>) = 1 BY <2>1
    <3> QED BY <3>1
  <2>3. Calls(Push(str, e), Request(Length(str), 0, by)) BY <1>11, <2>2 DEF PushElement, e
  <2>4. Len(str.data) + Len(by) <= MaxLength => Holds(str, Push(str, e), str.data \o by)
    <3>1. Len(str.data) + 1 <= MaxLength => Len(str.data) + 1 <= MaxSize BY <1>1, <1>3
    <3> QED BY <2>1, <2>2, <3>1, PushHolds
  <2> QED BY <2>3, <2>4, Added
<1>12. ASSUME NEW end \in 0 .. Length(str), NEW start \in 0 .. end, SliceItself(start, end) PROVE Good
  <2> DEFINE m == Between(str.data, start, end)
             d == str.data
  <2>1. m \in Seq(Byte) /\ Len(m) = end - start
    <3>1. d \in Seq(Byte) /\ end \in 0 .. Len(d) BY <1>1 DEF Length
    <3> HIDE DEF d
    <3>2. Between(d, start, end) \in Seq(Byte) /\ Len(Between(d, start, end)) = end - start
      BY <3>1, BetweenTypes
    <3> QED BY <3>2 DEF d
  <2>2. Len(m) <= Len(str.data)
    <3>1. end \in 0 .. Len(str.data) BY DEF Length
    <3>2. end - start <= Len(str.data) BY <3>1, <1>1
    <3> HIDE DEF m
    <3> QED BY <3>2, <2>1
  <2>3. SliceInPlace(str, start, end) = Returns([str EXCEPT !.data = m], 0) BY DEF SliceInPlace
  <2> HIDE DEF m
  <2>4. Holds(str, SliceInPlace(str, start, end), m) BY <2>1, <2>2, <2>3, ShorterHolds
  <2>5. Calls(SliceInPlace(str, start, end), Everything(m)) BY <1>12 DEF SliceItself, m
  <2> QED BY <2>1, <2>4, <2>5, AllReplaced
<1>13. ASSUME NEW position \in 0 .. MaxLength, NEW count \in 0 .. MaxLength, EraseFrom(position, count)
       PROVE  Good
  <2>1. position \in Nat /\ count \in Nat BY Bounds
  <2>2. PICK e \in Seq(Byte) : e = << >> /\ Len(e) = 0
    <3>1. << >> \in Seq(Byte) /\ Len(<< >>) = 0 OBVIOUS
    <3> QED BY <3>1
  <2>3. CASE position + count <= Len(str.data)
    <3>1. Calls(Erase(str, position, count), Request(position, count, e))
      BY <1>13, <2>2, <2>3 DEF EraseFrom, Length
    <3>2. ~ (count # 0 /\ Full(str) /\ position >= Length(str)) BY <2>1, <2>3, <1>1 DEF Length
    <3>3. Holds(str, Erase(str, position, count), Spliced(str.data, position, count, e))
      <4>1. Holds(str, Returns([str EXCEPT !.data = Between(@, 0, position)
                                             \o Between(@, position + count, Length(str))], 0),
                  Spliced(str.data, position, count, << >>))
        BY <2>1, <2>3, ErasedHolds
      <4> QED BY <3>2, <4>1, <2>2 DEF Erase
    <3> QED BY <2>1, <2>3, <3>1, <3>3, SomeReplaced
  <2>4. CASE ~ (position + count <= Len(str.data))
    <3>1. count > 0 /\ position >= Length(str) /\ Full(str) BY <1>13, <2>4 DEF EraseFrom, Length
    <3>2. Erase(str, position, count) = Returns(str, 0) BY <3>1, <2>1 DEF Erase
    <3>3. Calls(Returns(str, 0), Keep) BY <1>13, <2>4, <3>2 DEF EraseFrom, Length
    <3> QED BY <3>3, Kept
  <2> QED BY <2>3, <2>4
<1>14. ASSUME PopElement PROVE Good
  <2> DEFINE l == Len(str.data) - 1
             d == str.data
  <2>1. l \in Nat /\ l + 1 <= Len(str.data) /\ Len(str.data) > 0 BY <1>14, <1>1 DEF PopElement, Length
  <2>2. PICK e \in Seq(Byte) : e = << >> /\ Len(e) = 0
    <3>1. << >> \in Seq(Byte) /\ Len(<< >>) = 0 OBVIOUS
    <3> QED BY <3>1
  <2>3. Spliced(str.data, l, 1, e) = SubSeq(str.data, 1, l) BY <1>1, <2>1, <2>2, SplicedCases
  <2>4. SubSeq(str.data, 1, l) \in Seq(Byte) /\ Len(SubSeq(str.data, 1, l)) <= Len(str.data)
    <3>1. d \in Seq(Byte) /\ l \in 0 .. Len(d) /\ Len(d) \in Nat BY <1>1, <2>1
    <3> HIDE DEF d, l
    <3>2. SubSeq(d, 1, l) \in Seq(Byte) /\ Len(SubSeq(d, 1, l)) = l BY <3>1, PrefixFacts
    <3> DEFINE s == SubSeq(d, 1, l)
    <3>3. s \in Seq(Byte) /\ Len(s) = l BY <3>2
    <3> HIDE DEF s
    <3>4. Len(s) <= Len(d) BY <3>1, <3>3
    <3> QED BY <3>3, <3>4 DEF s, d
  <2>5. Pop(str) = Returns([str EXCEPT !.data = SubSeq(str.data, 1, l)], 0)
    BY DEF Pop, Take, Between
  <2>6. Holds(str, Pop(str), Spliced(str.data, l, 1, e)) BY <2>3, <2>4, <2>5, ShorterHolds
  <2>7. Calls(Pop(str), Request(l, 1, e)) BY <1>14, <2>2 DEF PopElement, Length
  <2>8. 1 \in Nat OBVIOUS
  <2> HIDE DEF l
  <2> QED BY <2>1, <2>6, <2>7, <2>8, SomeReplaced
<1>15. ASSUME Terminate PROVE Good
  <2>1. CASE str.size = 1
    <3>1. Calls(Returns(str, 0), Keep) BY <1>15, <2>1 DEF Terminate, NullTerminate
    <3> QED BY <3>1, Kept
  <2>2. CASE str.size # 1
    <3>1. Calls(Reserve(str, Length(str) + 1), Sequence!Room(Length(str) + 1))
      BY <1>15, <2>2 DEF Terminate, NullTerminate
    <3>2. Length(str) + 1 \in 0 .. MaxSize
      <4>1. Len(str.data) <= MaxLength
        <5>1. Sequence!Room(Length(str) + 1).count = 0 /\ Sequence!Room(Length(str) + 1).by = << >>
          BY DEF Sequence!Room
        <5>2. Len(<< >>) = 0 OBVIOUS
        <5>3. Len(str.data) - 0 + 0 <= MaxLength BY <3>1, <5>1, <5>2 DEF Calls, Length
        <5> QED BY <5>3, <1>1
      <4> QED BY <4>1, <1>1, Bounds DEF Length
    <3> QED BY <3>1, <3>2, RoomMade
  <2> QED BY <2>1, <2>2
<1>16. ASSUME MapItself PROVE Good
  <2> DEFINE m == Mapped(Image, str.data)
  <2>1. m \in Seq(Byte) /\ Len(m) = Len(str.data) BY <1>1, MappedTypes
  <2>2. MapInPlace(str, Image) = Returns([str EXCEPT !.data = m], 0) BY DEF MapInPlace
  <2> HIDE DEF m
  <2>3. Len(m) <= Len(str.data) BY <2>1, <1>1
  <2>4. Holds(str, MapInPlace(str, Image), m) BY <2>1, <2>2, <2>3, ShorterHolds
  <2>5. Calls(MapInPlace(str, Image), Everything(m)) BY <1>16 DEF MapItself, m
  <2> QED BY <2>1, <2>4, <2>5, AllReplaced
<1>17. ASSUME FilterItself PROVE Good
  <2> DEFINE m == Chosen(str.data, Wanted)
  <2>1. m \in Seq(Byte) BY <1>1, ChosenIsSequence
  <2>2. Holds(str, FilterInPlace(str, Wanted), m) BY FilterInPlaceHolds
  <2> HIDE DEF m
  <2>3. Calls(FilterInPlace(str, Wanted), Everything(m)) BY <1>17 DEF FilterItself, m
  <2> QED BY <2>1, <2>2, <2>3, AllReplaced
<1> QED BY <1>4, <1>5, <1>6, <1>7, <1>8, <1>9, <1>10, <1>11, <1>12, <1>13, <1>14, <1>15, <1>16, <1>17
        DEF ArrayNext

\* A codepoint is of four bytes at most.
LEMMA LeadLengths ==
  ASSUME NEW b
  PROVE  LeadLength(b) \in 0 .. 4
BY DEF LeadLength

\* Where a codepoint ends that starts at i, or i if it is cut off
After(s, i) ==
  LET n == IF LeadLength(s[i + 1]) = 0 THEN 1 ELSE LeadLength(s[i + 1])
  IN  IF i = Len(s) \/ i + n > Len(s) THEN i ELSE i + n

\* What is truncated is a part of the string.
LEMMA TailStarts ==
  ASSUME NEW s \in Seq(Byte)
  PROVE  /\ \A i \in 0 .. Len(s) : After(s, i) \in i .. Len(s)
         /\ TailStart(s) = After(s, After(s, After(s, IF Len(s) < 3 THEN 0 ELSE Len(s) - 3)))
         /\ TailStart(s) \in 0 .. Len(s)
<1>0. Len(s) \in Nat OBVIOUS
<1>1. ASSUME NEW i \in 0 .. Len(s) PROVE After(s, i) \in i .. Len(s)
  <2>1. LeadLength(s[i + 1]) \in 0 .. 4 BY LeadLengths
  <2> QED BY <1>0, <2>1 DEF After
<1>2. TailStart(s) = After(s, After(s, After(s, IF Len(s) < 3 THEN 0 ELSE Len(s) - 3)))
  BY Zenon DEF TailStart, After
<1>3. ASSUME NEW i \in 0 .. Len(s) PROVE After(s, i) \in 0 .. Len(s)
  BY <1>0, <1>1
<1>4. (IF Len(s) < 3 THEN 0 ELSE Len(s) - 3) \in 0 .. Len(s) BY <1>0
<1> QED BY <1>1, <1>2, <1>3, <1>4

\* Every call that only strings have is a step of AbstractSequence.
LEMMA StringOnlyStep ==
  ASSUME IsArray(str), StringOnlyNext
  PROVE  Good
<1>1. str.data \in Seq(Byte) /\ Len(str.data) \in Nat /\ Len(str.data) <= str.capacity
      /\ str.capacity \in Nat /\ str.size \in Nat
  BY DEF IsArray, ArrayRecord
<1>2. Sources \subseteq Seq(Byte) BY DynamicStringAssumption
<1>3. ASSUME NEW src \in Sources, NEW position \in 0 .. MaxLength, NEW count \in 0 .. MaxLength,
             ReplaceFrom(position, count, src)
      PROVE  Good
  <2>1. src \in Seq(Byte) /\ Len(src) \in Nat /\ position \in Nat /\ count \in Nat BY <1>2, Bounds
  <2> DEFINE left == Length(str) - position
             asks == IF left < 0 THEN 0 ELSE IF count < left THEN count ELSE left
  <2>2. /\ Full(str) \/ position < Len(str.data) \/ (count = 0 /\ position = Len(str.data))
        /\ Calls(Replacement(position, count, src), Request(position, asks, src))
    BY <1>3 DEF ReplaceFrom, Length
  <2>3. CASE Full(str) /\ position >= Len(str.data)
    <3> DEFINE lost == IF Len(src) > count THEN Len(src) - count ELSE 0
    <3>1. Replacement(position, count, src) = Returns(str, lost) BY <2>3 DEF Replacement, Length
    <3>2. lost \in 0 .. Len(src) BY <2>1
    <3>3. Len(str.data) <= position BY <2>1, <2>3, <1>1
    <3> HIDE DEF lost, asks
    <3>4. Calls(Returns(str, lost), Request(position, asks, src)) BY <2>2, <3>1
    <3> QED BY <2>1, <2>3, <3>2, <3>3, <3>4, Refused
  <2>4. CASE ~ (Full(str) /\ position >= Len(str.data))
    <3>1. position <= Len(str.data) BY <2>1, <2>2, <2>4, <1>1
    <3>2. PICK n \in Nat :
            n = IF position + count > Len(str.data) THEN Len(str.data) - position ELSE count
      <4>1. (IF position + count > Len(str.data) THEN Len(str.data) - position ELSE count) \in Nat
        BY <2>1, <3>1, <1>1
      <4> QED BY <4>1
    <3>3. asks = n BY <2>1, <3>1, <3>2, <1>1 DEF Length
    <3> HIDE DEF asks
    <3>4. Len(str.data) - n + Len(src) <= MaxLength => Len(str.data) - n + Len(src) <= MaxSize
      BY <2>1, <1>1, Bounds
    <3>5. Len(str.data) - n + Len(src) <= MaxLength
            => Holds(str, Replacement(position, count, src), Spliced(str.data, position, n, src))
      BY <2>1, <2>4, <3>1, <3>2, <3>4, ReplacementHolds
    <3>6. position + n <= Len(str.data) BY <2>1, <3>1, <3>2, <1>1
    <3>7. Calls(Replacement(position, count, src), Request(position, n, src)) BY <2>2, <3>3
    <3> QED BY <2>1, <3>5, <3>6, <3>7, SomeReplaced
  <2> QED BY <2>3, <2>4
<1>4. ASSUME NEW src \in Sources, NEW count \in 0 .. 2, RepeatFrom(count, src) PROVE Good
  <2>1. src \in Seq(Byte) /\ count \in Nat BY <1>2
  <2> DEFINE m == Copies(count, src)
  <2>2. m \in Seq(Byte) BY <2>1, CopiesTypes
  <2>3. Len(m) <= MaxLength => Holds(str, Repeated(count, src), m)
    <3>1. Len(m) <= MaxLength => Len(m) <= MaxSize
      <4> HIDE DEF m
      <4>1. Len(m) \in Nat BY <2>2
      <4> QED BY <4>1, Bounds
    <3> QED BY <3>1, <2>1, RepeatedHolds
  <2>4. Calls(Repeated(count, src), Everything(m)) BY <1>4 DEF RepeatFrom
  <2> HIDE DEF m
  <2> QED BY <2>2, <2>3, <2>4, AllReplaced
<1>5. ASSUME NEW first \in Sources, NEW second \in Sources, NEW excess \in 0 .. MaxEstimate,
             PrintObjects(first, second, excess)
      PROVE  Good
  <2>1. first \in Seq(Byte) /\ second \in Seq(Byte) /\ excess \in Nat /\ excess <= MaxEstimate
    BY <1>2, Bounds
  <2> DEFINE m == first \o second
             r == Printed(Printed(Empty, first, Len(first) + excess), second, Len(second) + excess)
  <2>2. m \in Seq(Byte) BY <2>1
  <2>3. Len(m) <= MaxLength => Holds(str, r, m)
    <3>1. Len(m) <= MaxLength => Len(m) + excess <= MaxSize
      <4> HIDE DEF m
      <4>1. Len(m) \in Nat BY <2>2
      <4> QED BY <4>1, <2>1, Bounds
    <3> QED BY <3>1, <2>1, ObjectsHold
  <2>4. Calls(r, Everything(m)) BY <1>5 DEF PrintObjects
  <2> HIDE DEF m, r
  <2> QED BY <2>2, <2>3, <2>4, AllReplaced
<1>6. ASSUME NEW first \in Sources, NEW second \in Sources, NEW excess \in 0 .. MaxEstimate,
             PrintLine(first, second, excess)
      PROVE  Good
  <2>1. first \in Seq(Byte) /\ second \in Seq(Byte) /\ excess \in Nat /\ excess <= MaxEstimate
    BY <1>2, Bounds
  <2> DEFINE m == first \o << 32 >> \o second \o << 10 >>
             line(q) == Returns(IF q.trunced = 0 THEN [q.arr EXCEPT !.data[Length(q.arr)] = 10] ELSE q.arr,
                                q.trunced)
  <2>2. m \in Seq(Byte)
    <3>1. << 32 >> \in Seq(Byte) /\ << 10 >> \in Seq(Byte) BY DEF Byte
    <3> QED BY <2>1, <3>1
  <2>3. PICK q : q = Spaced(Spaced(Empty, first, excess), second, excess) OBVIOUS
  <2>4. Len(m) <= MaxLength => Holds(str, line(q), m)
    <3>1. Len(m) <= MaxLength => Len(m) + excess <= MaxSize
      <4> HIDE DEF m
      <4>1. Len(m) \in Nat BY <2>2
      <4> QED BY <4>1, <2>1, Bounds
    <3> QED BY <3>1, <2>1, <2>3, LineHolds
  <2>5. Calls(line(q), Everything(m)) BY <1>6, <2>3 DEF PrintLine
  <2> HIDE DEF m, line
  <2> QED BY <2>2, <2>4, <2>5, AllReplaced
<1>7. ASSUME TruncateInvalidTail PROVE Good
  <2>1. PICK k \in 0 .. Len(str.data) : k = TailStart(str.data) BY <1>1, TailStarts
  <2>2. /\ str' = [str EXCEPT !.data = SubSeq(@, 1, k)]
        /\ trunced' = Len(str.data) - k
        /\ asked' = Request(k, Len(str.data) - k, << >>)
    BY <1>7, <2>1 DEF TruncateInvalidTail, Between, Length
  <2>3. PICK s \in Seq(Byte) : s = SubSeq(str.data, 1, k) /\ Len(s) <= str.capacity
    <3> DEFINE d == str.data
    <3>1. d \in Seq(Byte) /\ k \in 0 .. Len(d) BY <1>1
    <3> HIDE DEF d
    <3>2. PICK t \in Seq(Byte) : t = SubSeq(d, 1, k) /\ Len(t) = k
      <4>1. SubSeq(d, 1, k) \in Seq(Byte) /\ Len(SubSeq(d, 1, k)) = k BY <3>1, PrefixFacts
      <4> QED BY <4>1
    <3> QED BY <3>2, <1>1 DEF d
  <2>4. IsArray([str EXCEPT !.data = s]) /\ SameKind(str, [str EXCEPT !.data = s])
        /\ [str EXCEPT !.data = s].data = s
    BY <2>3, WithData
  <2>5. str' = [str EXCEPT !.data = s] BY <2>2, <2>3
  <2>6. IsArray(str)' BY <2>4, <2>5 DEF IsArray
  <2>7. (IF str.allocator THEN -1 ELSE str.capacity)' = IF str.allocator THEN -1 ELSE str.capacity
    BY <2>4, <2>5 DEF SameKind
  <2>8. Sequence!Cut
    <3>1. asked'.at = k /\ asked'.count = Len(str.data) - k
          /\ asked' = Sequence!Request(k, Len(str.data) - k, << >>)
      BY <2>2 DEF Request, Sequence!Request
    <3>2. str.data' = Sequence!Prefix(str.data, k) BY <2>3, <2>4, <2>5 DEF Sequence!Prefix
    <3> QED BY <2>2, <2>7, <3>1, <3>2 DEF Sequence!Cut
  <2> QED BY <2>6, <2>8 DEF Good, Sequence!Next
<1> QED BY <1>3, <1>4, <1>5, <1>6, <1>7 DEF StringOnlyNext

\* Another array is a new start.
LEMMA AnotherStep ==
  ASSUME Another
  PROVE  Good
<1>1. PICK a \in NewArrays : str' = a /\ trunced' = 0 /\ asked' = Sequence!Fresh BY DEF Another
<1>2. IsArray(a) /\ a.data = << >> BY NewArraysAreArrays
<1>3. IsArray(str)' BY <1>1, <1>2 DEF IsArray
<1>4. (IF a.allocator THEN -1 ELSE a.capacity) \in Nat \cup {-1} BY <1>2 DEF IsArray, ArrayRecord
<1>5. Sequence!Renew BY <1>1, <1>2, <1>4 DEF Sequence!Renew, Sequence!Unlimited
<1> QED BY <1>3, <1>5 DEF Good, Sequence!Next

\* What is left of a file is whole codepoints, the first of which may have lost some bytes.
FileOK == file \in Seq(Codepoint)

\* There is a byte to read unless the file is at its end.
LEMMA NextBytes ==
  ASSUME FileOK, file # << >>
  PROVE  NextByte \in Byte
<1>1. file[1] \in Codepoint /\ Head(file) = file[1] BY DEF FileOK
<1> DEFINE c == file[1]
<1>2. c \in Seq(Byte) /\ c # << >> BY <1>1 DEF Codepoint
<1> HIDE DEF c
<1>3. Head(c) \in Byte BY <1>2
<1> QED BY <1>1, <1>3 DEF NextByte, c

\* Reading a byte leaves a file.
LEMMA Advanced ==
  ASSUME FileOK, file # << >>, Advance
  PROVE  FileOK'
<1>1. Head(file) \in Codepoint /\ Tail(file) \in Seq(Codepoint) BY DEF FileOK
<1> DEFINE c == Head(file)
           t == Tail(file)
<1>2. c \in Seq(Byte) /\ c # << >> /\ t \in Seq(Codepoint) BY <1>1 DEF Codepoint
<1>3. file' = IF Len(c) = 1 THEN t ELSE <<Tail(c)>> \o t BY DEF Advance
<1> HIDE DEF c, t
<1>4. CASE Len(c) = 1 BY <1>2, <1>3, <1>4 DEF FileOK
<1>5. CASE Len(c) # 1
  <2> DEFINE d == Tail(c)
  <2>1. d \in Codepoint
    <3>1. Len(c) \in Nat /\ Len(c) # 0 BY <1>2
    <3>2. d \in Seq(Byte) /\ Len(d) = Len(c) - 1 BY <1>2
    <3>3. Len(d) # 0 BY <3>1, <3>2, <1>5
    <3> HIDE DEF d
    <3>4. d # << >> BY <3>3
    <3> QED BY <3>2, <3>4 DEF Codepoint
  <2>2. file' = <<d>> \o t BY <1>3, <1>5
  <2> HIDE DEF d
  <2>3. <<d>> \in Seq(Codepoint) BY <2>1
  <2>4. <<d>> \o t \in Seq(Codepoint) BY <2>3, <1>2
  <2> QED BY <2>2, <2>4 DEF FileOK
<1> QED BY <1>4, <1>5

\* Every step of a read is a step of AbstractSequence, or changes nothing of the sequence.
LEMMA FileStep ==
  ASSUME IsArray(str), FileOK, FileNext
  PROVE  Good /\ FileOK'
<1>1. str.data \in Seq(Byte) /\ Len(str.data) \in Nat /\ Len(str.data) <= str.capacity
      /\ str.capacity \in Nat /\ str.size \in Nat /\ str.allocator \in BOOLEAN
  BY DEF IsArray, ArrayRecord
<1>2. ASSUME UNCHANGED stringVars PROVE Good
  <2>1. str' = str /\ trunced' = trunced /\ asked' = asked BY <1>2 DEF stringVars
  <2> QED BY <2>1 DEF Good, IsArray, Sequence!vars
<1>3. ASSUME NEW function, NEW delimiter, StartReading(function, delimiter) PROVE Good /\ FileOK'
  <2>1. IsString /\ file # << >> /\ str' = [str EXCEPT !.data = <<NextByte>>] /\ trunced' = 0
        /\ asked' = Everything(<<NextByte>>) /\ Advance
    BY <1>3 DEF StartReading
  <2>2. PICK by \in Seq(Byte) : by = <<NextByte>> /\ Len(by) = 1
    <3>1. NextByte \in Byte BY <2>1, NextBytes
    <3>2. <<NextByte>> \in Seq(Byte) /\ Len(<<NextByte>>) = 1 BY <3>1
    <3> QED BY <3>2
  <2>3. str.capacity >= 1 BY <2>1, <1>1 DEF IsArray, IsString
  <2> DEFINE r == Returns([str EXCEPT !.data = by], 0)
  <2>4. Holds(str, r, by) BY <2>2, <2>3, <1>1, Within
  <2>5. Spliced(str.data, 0, Len(str.data), by) = by BY <1>1, SplicedCases
  <2>6. str' = r.arr /\ trunced' = r.trunced /\ asked' = Request(0, Len(str.data), by)
    BY <2>1, <2>2 DEF Returns, Everything, Length
  <2> HIDE DEF r
  <2>7. 0 + Len(str.data) <= Len(str.data) /\ 0 \in Nat BY <1>1
  <2>8. Good BY <1>1, <2>4, <2>5, <2>6, <2>7, Edited
  <2> QED BY <2>1, <2>8, Advanced
<1>4. ASSUME ReadByte PROVE Good /\ FileOK'
  <2>1. HasSpace /\ file # << >> /\ str' = [str EXCEPT !.data = Append(@, NextByte)] /\ trunced' = 0
        /\ asked' = Request(Length(str), 0, <<NextByte>>) /\ Advance
    BY <1>4 DEF ReadByte
  <2>2. PICK by \in Seq(Byte) : by = <<NextByte>> /\ Len(by) = 1
    <3>1. NextByte \in Byte BY <2>1, NextBytes
    <3>2. <<NextByte>> \in Seq(Byte) /\ Len(<<NextByte>>) = 1 BY <3>1
    <3> QED BY <3>2
  <2> DEFINE d == str.data
  <2>3. PICK s \in Seq(Byte) : s = d \o by /\ s = Append(d, NextByte) /\ Len(s) = Len(d) + 1
    <3>1. d \in Seq(Byte) /\ NextByte \in Byte BY <1>1, <2>1, NextBytes
    <3> HIDE DEF d
    <3>2. d \o by \in Seq(Byte) /\ d \o by = Append(d, NextByte) /\ Len(d \o by) = Len(d) + 1
      BY <2>2, <3>1
    <3> QED BY <3>2
  <2> DEFINE r == Returns([str EXCEPT !.data = s], 0)
  <2>4. Len(s) <= str.capacity BY <2>1, <2>3, <1>1 DEF HasSpace, Length
  <2>5. Holds(str, r, s) BY <2>4, Within
  <2>6. Spliced(str.data, Len(str.data), 0, by) = s BY <1>1, <2>3, SplicedCases
  <2>7. str' = r.arr /\ trunced' = r.trunced /\ asked' = Request(Len(str.data), 0, by)
    BY <2>1, <2>2, <2>3 DEF Returns, Length
  <2> HIDE DEF r
  <2>8. Len(str.data) + 0 <= Len(str.data) /\ 0 \in Nat BY <1>1
  <2>9. Good BY <1>1, <2>5, <2>6, <2>7, <2>8, Edited
  <2> QED BY <2>1, <2>9, Advanced
<1>5. ASSUME GrowForRead PROVE Good /\ FileOK'
  <2>1. FileOK' BY <1>5 DEF GrowForRead, FileOK
  <2>2. trunced' = trunced /\ asked' = asked BY <1>5 DEF GrowForRead
  <2>3. CASE str.allocator
    <3>1. PICK n \in 0 .. MaxSize : n = str.capacity + 1
      <4>1. str.capacity < MaxSize BY <1>5, <2>3 DEF GrowForRead
      <4>2. str.capacity + 1 \in 0 .. MaxSize BY <4>1, <1>1, Bounds
      <4> QED BY <4>2
    <3>2. str' = Reserve(str, n).arr BY <1>5, <2>3, <3>1 DEF GrowForRead
    <3>3. IsArray(str') /\ SameKind(str, str') /\ str'.data = str.data BY <3>2, Reserved
    <3>4. IsArray(str)' BY <3>3 DEF IsArray, ArrayRecord, IsChar
    <3>5. UNCHANGED Sequence!vars BY <2>2, <2>3, <3>3 DEF Sequence!vars, SameKind
    <3> QED BY <2>1, <3>4, <3>5 DEF Good
  <2>4. CASE ~ str.allocator
    <3>1. str' = str BY <1>5, <2>4 DEF GrowForRead
    <3> QED BY <1>2, <2>1, <2>2, <3>1 DEF stringVars
  <2> QED BY <2>3, <2>4
<1>6. ASSUME EndReading PROVE Good /\ FileOK'
  BY <1>2, <1>6 DEF EndReading, FileOK
<1>7. ASSUME ReadStrip PROVE Good /\ FileOK'
  <2> DEFINE b == [str EXCEPT !.data = << >>]
  <2>1. PICK s, rest : s = Word(file).word /\ rest = Word(file).rest OBVIOUS
  <2>2. s \in Seq(Codepoint) /\ rest \in Seq(Codepoint) BY <2>1, WordParts DEF FileOK
  <2>3. s \in Seq(Seq(Byte)) BY <2>2 DEF Codepoint
  <2> DEFINE r == TakenOf(b, s)[Len(s)]
             m == TextOf(s)
  <2>4. IF r.trunced = 0 THEN Calls(r, Everything(m)) /\ file' = rest
        ELSE UNCHANGED <<stringVars, file>>
    BY Zenon, <1>7, <2>1 DEF ReadStrip, TakenOf, Empty
  <2>5. m \in Seq(Byte) BY <2>3, FlatTypes
  <2>6. IsArray(b) /\ SameKind(str, b) /\ b.data = << >> BY Emptied
  <2>7. Len(m) <= MaxLength => Holds(str, r, m)
    <3>1. SUFFICES ASSUME Len(m) <= MaxLength PROVE Holds(str, r, m) OBVIOUS
    <3>2. PICK k \in Nat : k = Len(m) BY <2>5
    <3>3. Len(m) <= MaxSize BY <3>1, <3>2, Bounds
    <3> HIDE DEF b
    <3>4. Holds(b, r, m) BY <2>3, <2>6, <3>3, TakenHolds
    <3> HIDE DEF r, m
    <3>5. Dropped(str, k) = Dropped(b, k)
      BY <2>6, <1>1 DEF b, Dropped
    <3>6. SameKind(str, r.arr) BY <2>6, <3>4, KindsCompose DEF Holds
    <3> QED BY <3>2, <3>4, <3>5, <3>6 DEF Holds
  <2> HIDE DEF r, m, b
  <2>8. CASE r.trunced = 0
    <3>1. Good BY <2>4, <2>5, <2>7, <2>8, AllReplaced
    <3> QED BY <2>2, <2>4, <2>8, <3>1 DEF FileOK
  <2>9. CASE r.trunced # 0
    BY <1>2, <2>4, <2>9 DEF FileOK
  <2> QED BY <2>8, <2>9
<1>8. ASSUME OpenAnother PROVE Good /\ FileOK'
  BY <1>2, <1>8, FileInputAssumption DEF OpenAnother, FileOK, Codepoint
<1> QED BY <1>3, <1>4, <1>5, <1>6, <1>7, <1>8 DEF FileNext

\* The inductive invariant of the arrays: the string is one, and there is a file to read.
StringInv == IsArray(str) /\ FileOK

\* Whatever is called in whatever order, and wherever a read has got to, the invariant holds.
THEOREM StringInvariant == Spec => []StringInv
<1>1. Init => StringInv
  BY NewArraysAreArrays, FileInputAssumption DEF Init, StringInit, FileInit, StringInv, FileOK, Codepoint
<1>2. StringInv /\ [Next]_vars => StringInv'
  <2> SUFFICES ASSUME StringInv, [Next]_vars PROVE StringInv' OBVIOUS
  <2>1. CASE StringCalls
    <3>1. FileOK' BY <2>1 DEF StringCalls, fileVars, FileOK, StringInv
    <3>2. CASE ArrayNext BY <3>1, <3>2, ArrayStep DEF StringInv, Good
    <3>3. CASE StringOnlyNext BY <3>1, <3>3, StringOnlyStep DEF StringInv, Good
    <3>4. CASE Another BY <3>1, <3>4, AnotherStep DEF StringInv, Good
    <3> QED BY <2>1, <3>2, <3>3, <3>4 DEF StringCalls, StringNext
  <2>2. CASE FileNext BY <2>2, FileStep DEF StringInv, Good
  <2>3. CASE UNCHANGED vars
    BY <2>3 DEF vars, stringVars, fileVars, StringInv, FileOK, IsArray
  <2> QED BY <2>1, <2>2, <2>3 DEF Next
<1> QED BY <1>1, <1>2, PTL DEF Spec

\* HasRoom: the elements of a string or an array are within its capacity, and the capacity with
\* the byte that a null terminator needs is within its memory.
THEOREM StringsHaveRoom == Spec => []HasRoom
<1>1. StringInv => HasRoom BY DEF StringInv, IsArray, HasRoom, Length
<1> QED BY <1>1, StringInvariant, PTL

\* ImplementsSequence: the contents are what was asked for, or the longest prefix of it that an
\* array without allocator has room for, and the call returns how much it dropped.
THEOREM StringsImplementSequence == Spec => ImplementsSequence
<1>1. Init => Sequence!Init
  <2> SUFFICES ASSUME Init PROVE Sequence!Init OBVIOUS
  <2>1. str \in NewArrays /\ trunced = 0 /\ asked = Sequence!Fresh BY DEF Init, StringInit
  <2>2. IsArray(str) /\ str.data = << >> BY <2>1, NewArraysAreArrays
  <2>3. (IF str.allocator THEN -1 ELSE str.capacity) \in Nat \cup {-1} BY <2>2 DEF IsArray, ArrayRecord
  <2> QED BY <2>1, <2>2, <2>3 DEF Sequence!Init, Sequence!Unlimited
<1>2. StringInv /\ [Next]_vars => [Sequence!Next]_(Sequence!vars)
  <2> SUFFICES ASSUME StringInv, [Next]_vars PROVE [Sequence!Next]_(Sequence!vars) OBVIOUS
  <2>1. CASE StringCalls
    <3>2. CASE ArrayNext BY <3>2, ArrayStep DEF StringInv, Good
    <3>3. CASE StringOnlyNext BY <3>3, StringOnlyStep DEF StringInv, Good
    <3>4. CASE Another BY <3>4, AnotherStep DEF StringInv, Good
    <3> QED BY <2>1, <3>2, <3>3, <3>4 DEF StringCalls, StringNext
  <2>2. CASE FileNext BY <2>2, FileStep DEF StringInv, Good
  <2>3. CASE UNCHANGED vars
    BY <2>3 DEF vars, stringVars, Sequence!vars
  <2> QED BY <2>1, <2>2, <2>3 DEF Next
<1> QED BY <1>1, <1>2, StringInvariant, PTL DEF Spec, ImplementsSequence, Sequence!Spec

\* A codepoint starts or the text ends after the first i bytes.
Boundary(w, i) == i = Len(w) \/ Leads(w, i + 1)

\* In front of every byte of whole codepoints there is a first one, which may be the byte itself.
LEMMA LastLead ==
  ASSUME NEW w, IsWhole(w), NEW k \in Nat, 1 <= k, k <= Len(w)
  PROVE  \E p \in 1 .. k : Leads(w, p) /\ \A j \in p + 1 .. k : ~ Leads(w, j)
<1> DEFINE S == {d \in Nat : d < k /\ Leads(w, k - d)}
<1>0. Len(w) \in Nat /\ Leads(w, 1)
  <2>1. Len(w) \in Nat BY DEF IsWhole
  <2> QED BY <2>1 DEF IsWhole
<1>1. S \subseteq Nat /\ S # {}
  <2>1. k - 1 \in Nat /\ k - 1 < k /\ k - (k - 1) = 1 OBVIOUS
  <2>2. k - 1 \in S BY <2>1, <1>0
  <2> QED BY <2>2
<1>2. PICK d \in S : \A x \in S : d <= x
  <2> HIDE DEF S
  <2> QED BY <1>1, Least
<1>3. d \in Nat /\ d < k /\ Leads(w, k - d) OBVIOUS
<1>4. k - d \in 1 .. k BY <1>3
<1>5. ASSUME NEW j \in (k - d) + 1 .. k PROVE ~ Leads(w, j)
  <2>1. SUFFICES ASSUME Leads(w, j) PROVE FALSE OBVIOUS
  <2>2. k - j \in Nat /\ k - j < d /\ k - j < k /\ k - (k - j) = j BY <1>3
  <2>3. k - j \in S BY <2>1, <2>2
  <2>4. d <= k - j BY <2>3, <1>2
  <2> QED BY <2>2, <2>4, <1>3
<1> QED BY <1>3, <1>4, <1>5

\* A position is a boundary or inside a codepoint that ends behind it.
LEMMA Enclosing ==
  ASSUME NEW w, IsWhole(w), NEW k \in 0 .. Len(w), ~ Boundary(w, k)
  PROVE  \E p \in 1 .. k, l \in 1 .. 4 :
           /\ Leads(w, p) /\ l = LeadLength(w[p])
           /\ k < p + l - 1 /\ p + l - 1 <= Len(w) /\ Boundary(w, p + l - 1)
<1>1. PICK n \in Nat : n = Len(w) BY DEF IsWhole
<1>2. k \in Nat /\ k < n /\ ~ Leads(w, k + 1) BY <1>1 DEF Boundary
<1>3. 1 <= k
  <2>1. n > 0 => Leads(w, 1) BY <1>1 DEF IsWhole
  <2>2. k # 0 BY <2>1, <1>2
  <2> QED BY <2>2, <1>2
<1>4. PICK p \in 1 .. k : Leads(w, p) /\ \A j \in p + 1 .. k : ~ Leads(w, j)
  BY <1>1, <1>2, <1>3, LastLead
<1>5. PICK l \in 1 .. 4 : l = LeadLength(w[p])
  <2>1. LeadLength(w[p]) \in 0 .. 4 BY LeadLengths
  <2>2. LeadLength(w[p]) # 0 BY <1>4 DEF Leads
  <2> QED BY <2>1, <2>2
<1>6. /\ p + l - 1 <= n
      /\ p + l <= n => Leads(w, p + l)
  <2>1. p \in 1 .. Len(w) BY <1>1, <1>2
  <2> QED BY <2>1, <1>1, <1>4, <1>5 DEF IsWhole
<1>7. k < p + l - 1
  <2>1. SUFFICES ASSUME p + l - 1 <= k PROVE FALSE BY <1>2
  <2>2. p + l <= n BY <2>1, <1>2
  <2>3. Leads(w, p + l) BY <2>2, <1>6
  <2>4. CASE p + l = k + 1 BY <2>3, <2>4, <1>2
  <2>5. CASE p + l # k + 1
    <3>1. p + l \in p + 1 .. k BY <2>1, <2>5
    <3> QED BY <3>1, <2>3, <1>4
  <2> QED BY <2>4, <2>5
<1>8. Boundary(w, p + l - 1)
  <2>1. CASE p + l <= n
    <3>1. (p + l - 1) + 1 = p + l OBVIOUS
    <3> QED BY <3>1, <2>1, <1>6 DEF Boundary
  <2>2. CASE ~ (p + l <= n)
    <3>1. p + l - 1 = n BY <2>2, <1>6, <1>1
    <3> QED BY <3>1, <1>1 DEF Boundary
  <2> QED BY <2>1, <2>2
<1> QED BY <1>1, <1>4, <1>5, <1>6, <1>7, <1>8

\* The beginnings of whole codepoints are those that end at a boundary.
LEMMA WholePrefixes ==
  ASSUME NEW w, IsWhole(w), NEW k \in 0 .. Len(w)
  PROVE  IsWhole(SubSeq(w, 1, k)) <=> Boundary(w, k)
<1> DEFINE t == SubSeq(w, 1, k)
<1>1. PICK n \in Nat : n = Len(w) /\ w \in Seq(Byte) BY DEF IsWhole
<1>2. t \in Seq(Byte) /\ Len(t) = k /\ k \in Nat /\ k <= n
  BY <1>1, PrefixFacts
<1>3. \A i \in 1 .. k : t[i] = w[i] BY <1>1
<1> HIDE DEF t
<1>4. \A i \in 1 .. k : Leads(t, i) <=> Leads(w, i) BY <1>3 DEF Leads
<1>5. ASSUME Boundary(w, k) PROVE IsWhole(t)
  <2>1. Len(t) > 0 => Leads(t, 1)
    <3>1. SUFFICES ASSUME k > 0 PROVE Leads(t, 1) BY <1>2
    <3>2. Leads(w, 1) BY <3>1, <1>1, <1>2 DEF IsWhole
    <3>3. 1 \in 1 .. k BY <3>1, <1>2
    <3> QED BY <3>2, <3>3, <1>4
  <2>2. ASSUME NEW i \in 1 .. k, Leads(t, i)
        PROVE  /\ i + LeadLength(t[i]) - 1 <= k
               /\ \A j \in i + 1 .. i + LeadLength(t[i]) - 1 : ~ Leads(t, j)
               /\ i + LeadLength(t[i]) <= k => Leads(t, i + LeadLength(t[i]))
    <3>1. PICK l \in 0 .. 4 : l = LeadLength(t[i]) /\ l = LeadLength(w[i]) BY <1>3, LeadLengths
    <3>2. i \in 1 .. Len(w) /\ Leads(w, i) BY <1>1, <1>2, <1>4, <2>2
    <3>3. /\ i + l - 1 <= n
          /\ \A j \in i + 1 .. i + l - 1 : ~ Leads(w, j)
          /\ i + l <= n => Leads(w, i + l)
      BY <3>1, <3>2, <1>1 DEF IsWhole
    <3>4. i + l - 1 <= k
      <4>1. SUFFICES ASSUME k < i + l - 1 PROVE FALSE BY <1>2
      <4>2. k < n /\ k + 1 \in i + 1 .. i + l - 1 BY <4>1, <3>3, <1>2
      <4>3. ~ Leads(w, k + 1) BY <4>2, <3>3
      <4> QED BY <4>2, <4>3, <1>5, <1>1 DEF Boundary
    <3>5. ASSUME NEW j \in i + 1 .. i + l - 1 PROVE ~ Leads(t, j)
      <4>1. j \in 1 .. k BY <3>4, <1>2
      <4> QED BY <4>1, <3>3, <1>4
    <3>6. i + l <= k => Leads(t, i + l)
      <4>1. SUFFICES ASSUME i + l <= k PROVE Leads(t, i + l) OBVIOUS
      <4>2. i + l \in 1 .. k /\ i + l <= n BY <4>1, <1>2
      <4> QED BY <4>2, <3>3, <1>4
    <3> QED BY <3>1, <3>4, <3>5, <3>6
  <2> QED BY <2>1, <2>2, <1>2 DEF IsWhole
<1>6. ASSUME IsWhole(t), ~ Boundary(w, k) PROVE FALSE
  <2>1. PICK p \in 1 .. k, l \in 1 .. 4 : Leads(w, p) /\ l = LeadLength(w[p]) /\ k < p + l - 1
    BY <1>6, Enclosing
  <2>2. Leads(t, p) /\ LeadLength(t[p]) = l BY <2>1, <1>3, <1>4
  <2>3. p \in 1 .. Len(t) BY <1>2
  <2>4. p + LeadLength(t[p]) - 1 <= Len(t) BY <2>2, <2>3, <1>6 DEF IsWhole
  <2>5. p + l - 1 <= k BY <2>2, <2>4, <1>2
  <2> QED BY <2>1, <2>5, <1>2
<1> QED BY <1>5, <1>6 DEF t

\* The last boundary of w within its first n bytes
LastBoundary(w, n, i) == Boundary(w, i) /\ \A b \in i + 1 .. n : ~ Boundary(w, b)

\* A step goes on to the last boundary, by a byte at least, and not past it.
LEMMA TailSteps ==
  ASSUME NEW w, IsWhole(w), NEW s \in Seq(Byte), Len(s) <= Len(w), \A i \in 1 .. Len(s) : s[i] = w[i],
         NEW i \in 0 .. Len(s), \E b \in i .. Len(s) : Boundary(w, b)
  PROVE  /\ LastBoundary(w, Len(s), i) => After(s, i) = i
         /\ ~ LastBoundary(w, Len(s), i) =>
              i < After(s, i) /\ \E b \in After(s, i) .. Len(s) : Boundary(w, b)
<1>1. PICK n \in Nat, N \in Nat : n = Len(w) /\ N = Len(s) /\ N <= n BY DEF IsWhole
<1>2. PICK l \in 0 .. 4 : l = LeadLength(s[i + 1]) BY LeadLengths
<1>3. i \in Nat /\ i <= N BY <1>1
<1>4. After(s, i) = IF i = N \/ i + (IF l = 0 THEN 1 ELSE l) > N THEN i ELSE i + (IF l = 0 THEN 1 ELSE l)
  BY <1>1, <1>2 DEF After
<1>5. i < N => i + 1 \in 1 .. Len(w) /\ s[i + 1] = w[i + 1] /\ (Leads(w, i + 1) <=> l # 0)
  BY <1>1, <1>2, <1>3 DEF Leads
<1>6. ASSUME i < N, Leads(w, i + 1)
      PROVE  /\ i + l <= n /\ l # 0
             /\ \A b \in i + 1 .. i + l - 1 : ~ Boundary(w, b)
             /\ Boundary(w, i + l)
  <2>1. l = LeadLength(w[i + 1]) BY <1>2, <1>5, <1>6
  <2>2. i + 1 \in 1 .. Len(w) BY <1>5, <1>6
  <2>3. /\ (i + 1) + l - 1 <= n
        /\ \A j \in (i + 1) + 1 .. (i + 1) + l - 1 : ~ Leads(w, j)
        /\ (i + 1) + l <= n => Leads(w, (i + 1) + l)
    BY <2>1, <2>2, <1>1, <1>6 DEF IsWhole
  <2>4. i + l <= n BY <2>3, <1>3
  <2>5. ASSUME NEW b \in i + 1 .. i + l - 1 PROVE ~ Boundary(w, b)
    <3>1. b + 1 \in (i + 1) + 1 .. (i + 1) + l - 1 /\ b # n BY <2>4, <1>3, <1>1
    <3> QED BY <3>1, <2>3, <1>1 DEF Boundary
  <2>6. Boundary(w, i + l)
    <3>1. CASE i + l = n BY <3>1, <1>1 DEF Boundary
    <3>2. CASE i + l # n
      <4>1. (i + 1) + l <= n /\ (i + 1) + l = (i + l) + 1 BY <3>2, <2>4, <1>3
      <4> QED BY <4>1, <2>3 DEF Boundary
    <3> QED BY <3>1, <3>2
  <2> QED BY <2>4, <2>5, <2>6, <1>5, <1>6
<1>7. ASSUME LastBoundary(w, Len(s), i) PROVE After(s, i) = i
  <2>1. CASE i = N BY <2>1, <1>4
  <2>2. CASE i # N
    <3>1. i < N /\ i # n BY <2>2, <1>1, <1>3
    <3>2. Leads(w, i + 1) BY <3>1, <1>7, <1>1 DEF LastBoundary, Boundary
    <3>3. l # 0 /\ Boundary(w, i + l) BY <3>1, <3>2, <1>6
    <3>4. ~ (i + l <= N)
      <4>1. SUFFICES ASSUME i + l <= N PROVE FALSE OBVIOUS
      <4>2. i + l \in i + 1 .. N BY <4>1, <3>3, <1>3
      <4> QED BY <4>2, <3>3, <1>7, <1>1 DEF LastBoundary
    <3> QED BY <3>3, <3>4, <1>3, <1>4
  <2> QED BY <2>1, <2>2
<1>8. ASSUME ~ LastBoundary(w, Len(s), i)
      PROVE  i < After(s, i) /\ \E b \in After(s, i) .. N : Boundary(w, b)
  <2>1. PICK b \in i .. N : Boundary(w, b) BY <1>1
  <2>2. CASE ~ Boundary(w, i)
    <3>1. b # i /\ i < N BY <2>1, <2>2, <1>3
    <3>2. ~ Leads(w, i + 1) BY <2>2 DEF Boundary
    <3>3. l = 0 BY <3>1, <3>2, <1>5
    <3>4. After(s, i) = i + 1 BY <3>1, <3>3, <1>3, <1>4
    <3>5. b \in i + 1 .. N BY <2>1, <3>1
    <3> QED BY <2>1, <3>4, <3>5, <1>3
  <2>3. CASE Boundary(w, i)
    <3>1. PICK c \in i + 1 .. N : Boundary(w, c) BY <2>3, <1>8, <1>1 DEF LastBoundary
    <3>2. i < N /\ i # n BY <3>1, <1>1, <1>3
    <3>3. Leads(w, i + 1) BY <2>3, <3>2, <1>1 DEF Boundary
    <3>4. l # 0 /\ \A x \in i + 1 .. i + l - 1 : ~ Boundary(w, x) BY <3>2, <3>3, <1>6
    <3>5. i + l <= c
      <4>1. c \notin i + 1 .. i + l - 1 BY <3>1, <3>4
      <4> QED BY <4>1, <3>1, <1>3
    <3>6. After(s, i) = i + l BY <3>1, <3>4, <3>5, <1>3, <1>4
    <3>7. c \in i + l .. N BY <3>1, <3>5, <1>3
    <3> QED BY <3>1, <3>4, <3>6, <3>7, <1>3
  <2> QED BY <2>2, <2>3
<1> QED BY <1>1, <1>7, <1>8

\* TailStart of a beginning of whole codepoints is the last boundary within it: one of
\* the last four positions is a boundary, as a codepoint is of four bytes at most.
LEMMA TailStartIsLastBoundary ==
  ASSUME NEW w, IsWhole(w), NEW s \in Seq(Byte), Len(s) <= Len(w), \A i \in 1 .. Len(s) : s[i] = w[i]
  PROVE  LastBoundary(w, Len(s), TailStart(s)) /\ TailStart(s) \in 0 .. Len(s)
<1>1. PICK n \in Nat, N \in Nat : n = Len(w) /\ N = Len(s) /\ N <= n BY DEF IsWhole
<1> DEFINE Q(i) == i \in 0 .. N /\ \E b \in i .. N : Boundary(w, b)
           D(i) == LastBoundary(w, N, i)
<1>2. ASSUME NEW i, Q(i)
      PROVE  After(s, i) \in 0 .. N /\ Q(After(s, i)) /\ (D(i) => D(After(s, i)))
             /\ (~ D(i) => i + 1 <= After(s, i))
  <2>1. i \in 0 .. Len(s) /\ \E b \in i .. Len(s) : Boundary(w, b) BY <1>1, <1>2
  <2>2. /\ D(i) => After(s, i) = i
        /\ ~ D(i) => i < After(s, i) /\ \E b \in After(s, i) .. N : Boundary(w, b)
    BY <2>1, <1>1, TailSteps
  <2>3. After(s, i) \in i .. N BY <2>1, <1>1, TailStarts
  <2> QED BY <2>1, <2>2, <2>3, <1>2
<1> DEFINE f == IF N < 3 THEN 0 ELSE N - 3
<1>3. f \in 0 .. N BY <1>1
<1>4. Q(f)
  <2>1. CASE Boundary(w, f)
    <3>1. f \in f .. N BY <1>3
    <3> QED BY <2>1, <3>1, <1>3
  <2>2. CASE ~ Boundary(w, f)
    <3>1. f \in 0 .. Len(w) BY <1>1, <1>3
    <3> HIDE DEF f
    <3>2. PICK p \in 1 .. f, l \in 1 .. 4 : f < p + l - 1 /\ Boundary(w, p + l - 1)
      BY <2>2, <3>1, Enclosing
    <3>3. p + l - 1 \in f .. N
      <4>1. f >= 1 /\ f \in Nat BY <3>2, <1>3
      <4>2. f = N - 3 BY <4>1, <1>1 DEF f
      <4> QED BY <3>2, <4>1, <4>2, <1>1
    <3> QED BY <3>2, <3>3, <1>3
  <2> QED BY <2>1, <2>2
<1>5. PICK a, b, c : a = After(s, f) /\ b = After(s, a) /\ c = After(s, b) OBVIOUS
<1>6. TailStart(s) = c BY <1>1, <1>5, TailStarts
<1> HIDE DEF f
<1>7. Q(a) /\ (D(f) => D(a)) /\ (~ D(f) => f + 1 <= a) BY <1>2, <1>4, <1>5
<1>8. Q(b) /\ (D(a) => D(b)) /\ (~ D(a) => a + 1 <= b) BY <1>2, <1>5, <1>7
<1>9. Q(c) /\ (D(b) => D(c)) /\ (~ D(b) => b + 1 <= c) BY <1>2, <1>5, <1>8
<1>10. D(c)
  <2>1. SUFFICES ASSUME ~ D(c) PROVE FALSE OBVIOUS
  <2>2. f + 1 <= a /\ a + 1 <= b /\ b + 1 <= c BY <2>1, <1>7, <1>8, <1>9
  <2>3. a \in Nat /\ b \in Nat /\ c \in Nat /\ f \in Nat /\ c <= N BY <1>1, <1>3, <1>7, <1>8, <1>9
  <2>4. f + 3 <= c BY <2>2, <2>3
  <2>5. c = N BY <2>3, <2>4, <1>1 DEF f
  <2>6. PICK x \in c .. N : Boundary(w, x) BY <1>9
  <2>7. x = N /\ N + 1 .. N = {} BY <2>5, <2>6, <1>1
  <2>8. D(N) BY <2>6, <2>7 DEF LastBoundary
  <2> QED BY <2>1, <2>5, <2>8
<1> QED BY <1>1, <1>6, <1>9, <1>10

\* TailIsWhole: a string that is cut off anywhere is cut back to whole codepoints, and no further
\* than the codepoint that was cut off.
THEOREM TailsAreWhole ==
  ASSUME WholesAreTexts
  PROVE  Spec => []TailIsWhole
<1>1. StringInv => TailIsWhole
  <2> SUFFICES ASSUME StringInv, NEW w \in Wholes, IsPrefix(str.data, w)
               PROVE  /\ Between(str.data, 0, TailStart(str.data)) \in Wholes
                      /\ \A t \in Wholes : IsPrefix(t, str.data) =>
                           Len(t) <= Len(Between(str.data, 0, TailStart(str.data)))
    BY DEF TailIsWhole
  <2>1. PICK s \in Seq(Byte) : s = str.data BY DEF StringInv, IsArray, ArrayRecord
  <2>2. IsWhole(w) /\ w \in Seq(Byte) /\ IsPrefix(s, w) BY <2>1 DEF WholesAreTexts, IsWhole
  <2>3. Len(s) <= Len(w) /\ s = SubSeq(w, 1, Len(s))
    BY <2>2, PrefixFacts DEF IsPrefix
  <2>4. \A i \in 1 .. Len(s) : s[i] = w[i]
    <3>1. PICK N \in Nat, n \in Nat : N = Len(s) /\ n = Len(w) BY <2>2
    <3>2. N <= n /\ s = SubSeq(w, 1, N) BY <2>3, <3>1
    <3>3. \A i \in 1 .. N : SubSeq(w, 1, N)[i] = w[i] BY <2>2, <3>1, <3>2
    <3> QED BY <3>1, <3>2, <3>3
  <2>5. PICK k \in 0 .. Len(s) : k = TailStart(s) /\ LastBoundary(w, Len(s), k)
    BY <2>2, <2>3, <2>4, TailStartIsLastBoundary
  <2>6. PICK N \in Nat, n \in Nat : N = Len(s) /\ n = Len(w) /\ N <= n /\ k \in 0 .. N /\ k <= n
    <3>1. PICK N \in Nat : N = Len(s) OBVIOUS
    <3>2. PICK n \in Nat : n = Len(w) BY <2>2
    <3>3. N <= n /\ k \in 0 .. N BY <2>3, <3>1, <3>2
    <3>4. k <= n BY <3>3
    <3> QED BY <3>1, <3>2, <3>3, <3>4
  <2>7. PICK x \in Seq(Byte) : x = SubSeq(w, 1, k) /\ x = SubSeq(s, 1, k) /\ Len(x) = k
    <3>1. N \in 0 .. Len(w) /\ k \in 0 .. N /\ k \in 0 .. Len(w) BY <2>6
    <3>2. SubSeq(SubSeq(w, 1, N), 1, k) = SubSeq(w, 1, k) BY <2>2, <3>1, PrefixFacts
    <3>3. SubSeq(w, 1, k) \in Seq(Byte) /\ Len(SubSeq(w, 1, k)) = k BY <2>2, <3>1, PrefixFacts
    <3>4. SubSeq(s, 1, k) = SubSeq(w, 1, k) BY <3>2, <2>3, <2>6
    <3> QED BY <3>3, <3>4
  <2>8. x \in Wholes
    <3>1. k \in 0 .. Len(w) BY <2>6
    <3>2. IsWhole(x) BY <2>2, <2>5, <2>7, <3>1, WholePrefixes DEF LastBoundary
    <3> QED BY <3>1, <3>2, <2>7 DEF WholesAreTexts
  <2>9. ASSUME NEW t \in Wholes, IsPrefix(t, s) PROVE Len(t) <= k
    <3>1. IsWhole(t) /\ t \in Seq(Byte) BY DEF WholesAreTexts, IsWhole
    <3>2. PICK m \in Nat : m = Len(t) BY <3>1
    <3>3. m <= N /\ t = SubSeq(s, 1, m) BY <3>1, <3>2, <2>6, <2>9, PrefixFacts DEF IsPrefix
    <3>4. m \in 0 .. Len(w) BY <3>2, <3>3, <2>6
    <3>5. t = SubSeq(w, 1, m)
      <4>1. N \in 0 .. Len(w) /\ m \in 0 .. N BY <3>3, <2>6
      <4>2. SubSeq(SubSeq(w, 1, N), 1, m) = SubSeq(w, 1, m) BY <2>2, <4>1, PrefixFacts
      <4> QED BY <4>2, <3>3, <2>3, <2>6
    <3>6. Boundary(w, m) BY <2>2, <3>1, <3>4, <3>5, WholePrefixes
    <3>7. m \notin k + 1 .. N BY <3>6, <2>5, <2>6 DEF LastBoundary
    <3> QED BY <3>2, <3>3, <3>7, <2>6
  <2>10. Between(str.data, 0, TailStart(str.data)) = x BY <2>1, <2>5, <2>7 DEF Between
  <2> QED BY <2>1, <2>7, <2>8, <2>9, <2>10
<1> QED BY <1>1, StringInvariant, PTL

\* Delimiter d is nowhere broken off by its own beginning in x.
Clear(x, d) == d \in Seq(Byte) \ {<< >>} /\ ~ Restarts(x, d)

\* What a text ends with is as clear as the text.
LEMMA ClearBehind ==
  ASSUME NEW x \in Seq(Byte), NEW y \in Seq(Byte), NEW d, Clear(x \o y, d)
  PROVE  Clear(y, d)
<1> SUFFICES ASSUME Restarts(y, d) PROVE FALSE BY DEF Clear
<1>0. PICK l \in Nat, m \in Nat, L \in Nat : l = Len(x) /\ m = Len(y) /\ L = Len(d) BY DEF Clear
<1>1. PICK k \in 1 .. L - 1, i \in 1 .. m, n \in 1 .. L :
        At(y, d, k, i - 1) /\ y[i] # d[k + 1] /\ n <= k /\ At(y, d, n, i)
  BY <1>0 DEF Restarts
<1>2. PICK w \in Seq(Byte) : w = x \o y /\ Len(w) = l + m /\ \A j \in 1 .. m : w[l + j] = y[j]
  <2>1. x \o y \in Seq(Byte) /\ Len(x \o y) = l + m /\ \A j \in 1 .. m : (x \o y)[l + j] = y[j]
    BY <1>0
  <2> QED BY <2>1
<1>3. ASSUME NEW a \in Nat, NEW b \in 0 .. m, At(y, d, a, b) PROVE At(w, d, a, l + b)
  <2>1. a <= b /\ \A j \in 1 .. a : y[b - a + j] = d[j] BY <1>3 DEF At
  <2>2. ASSUME NEW j \in 1 .. a PROVE w[(l + b) - a + j] = d[j]
    <3>1. b - a + j \in 1 .. m BY <2>1
    <3>2. (l + b) - a + j = l + (b - a + j) OBVIOUS
    <3>3. w[l + (b - a + j)] = y[b - a + j] BY <3>1, <1>2
    <3> QED BY <3>2, <3>3, <2>1
  <2>3. a <= l + b BY <2>1
  <2> QED BY <2>2, <2>3 DEF At
<1>4. k \in Nat /\ n \in Nat /\ i - 1 \in 0 .. m /\ i \in 0 .. m /\ l + (i - 1) = (l + i) - 1
      /\ l + i \in 1 .. l + m
  OBVIOUS
<1>5. At(w, d, k, (l + i) - 1) /\ At(w, d, n, l + i) BY <1>1, <1>3, <1>4
<1>6. w[l + i] # d[k + 1] BY <1>1, <1>2
<1>7. Restarts(w, d) BY <1>0, <1>1, <1>2, <1>4, <1>5, <1>6 DEF Restarts
<1> QED BY <1>2, <1>7 DEF Clear

\* A sequence is its head and its tail.
LEMMA HeadAndTail ==
  ASSUME NEW B, NEW s \in Seq(B), s # << >>
  PROVE  /\ Head(s) \in B /\ Tail(s) \in Seq(B) /\ <<Head(s)>> \in Seq(B)
         /\ s = <<Head(s)>> \o Tail(s)
         /\ Len(s) = 1 => Tail(s) = << >>
<1> DEFINE b == Head(s)
           t == Tail(s)
<1>1. b \in B /\ b = s[1] /\ t \in Seq(B) /\ Len(t) = Len(s) - 1 /\ Len(s) \in Nat /\ Len(s) > 0
      /\ \A i \in 1 .. Len(s) - 1 : t[i] = s[i + 1]
  OBVIOUS
<1> HIDE DEF b, t
<1>2. <<b>> \in Seq(B) /\ Len(<<b>>) = 1 /\ <<b>>[1] = b BY <1>1
<1>3. PICK w \in Seq(B) : w = <<b>> \o t /\ Len(w) = Len(s) /\ w[1] = s[1]
        /\ \A i \in 2 .. Len(s) : w[i] = s[i]
  <2>1. <<b>> \o t \in Seq(B) /\ Len(<<b>> \o t) = 1 + Len(t) /\ (<<b>> \o t)[1] = b
        /\ \A i \in 2 .. 1 + Len(t) : (<<b>> \o t)[i] = t[i - 1]
    BY <1>1, <1>2, ConcatProperties
  <2>2. 1 + Len(t) = Len(s) BY <1>1
  <2>3. ASSUME NEW i \in 2 .. Len(s) PROVE (<<b>> \o t)[i] = s[i]
    <3>1. i - 1 \in 1 .. Len(s) - 1 /\ (i - 1) + 1 = i BY <1>1
    <3>2. t[i - 1] = s[(i - 1) + 1] BY <3>1, <1>1
    <3> QED BY <2>1, <2>2, <3>1, <3>2
  <2> QED BY <1>1, <2>1, <2>2, <2>3
<1>4. w = s
  <2>1. ASSUME NEW i \in 1 .. Len(s) PROVE w[i] = s[i]
    <3>1. i = 1 \/ i \in 2 .. Len(s) OBVIOUS
    <3> QED BY <3>1, <1>3
  <2>2. Len(w) = Len(s) /\ \A i \in 1 .. Len(w) : w[i] = s[i] BY <2>1, <1>3
  <2> QED BY Zenon, <2>2, SeqEqual
<1>5. Len(s) = 1 => t = << >>
  <2>1. Len(s) = 1 => Len(t) = 0 BY <1>1
  <2> QED BY <2>1, <1>1, EmptySeq
<1> QED BY <1>1, <1>2, <1>3, <1>4, <1>5 DEF b, t

\* s, and then t
Then(s, t) == s \o t

\* It does not matter which of three are joined first.
LEMMA ThenAssociative ==
  ASSUME NEW B, NEW p \in Seq(B), NEW q \in Seq(B), NEW r \in Seq(B)
  PROVE  Then(Then(p, q), r) = Then(p, Then(q, r))
BY DEF Then

\* A text is that of its first codepoint, and then that of the others.
LEMMA TextCons ==
  ASSUME NEW s \in Seq(Seq(Byte)), s # << >>
  PROVE  TextOf(s) = Head(s) \o TextOf(Tail(s))
<1>0. PICK n \in Nat : n = Len(s) /\ n > 0 OBVIOUS
<1>1. PICK u \in Seq(Seq(Byte)) : u = Tail(s) /\ Len(u) = n - 1 /\ \A i \in 1 .. n - 1 : u[i] = s[i + 1]
  <2>1. Tail(s) \in Seq(Seq(Byte)) /\ Len(Tail(s)) = n - 1
        /\ \A i \in 1 .. n - 1 : Tail(s)[i] = s[i + 1]
    BY <1>0
  <2> QED BY <2>1
<1>2. n - 1 \in Nat /\ \A i \in 1 .. n : s[i] \in Seq(Byte) BY <1>0
<1> DEFINE c == FlatOf(s)
           e == FlatOf(u)
           T == {i \in Nat : i + 1 <= n - 1 => c[i + 2] = s[1] \o e[i + 1]}
<1>3. c[1] = s[1] /\ TextOf(s) = c[n] /\ \A i \in 1 .. n : i # 1 => c[i] = c[i - 1] \o s[i]
  BY <1>0, FlatSteps
<1>4. /\ n - 1 > 0 => e[1] = u[1] /\ TextOf(u) = e[n - 1]
      /\ \A i \in 1 .. n - 1 : i # 1 => e[i] = e[i - 1] \o u[i]
      /\ n - 1 = 0 => TextOf(u) = u
  BY <1>1, <1>2, FlatSteps
<1>5. \A i \in 1 .. n - 1 : e[i] \in Seq(Byte) BY <1>1, FlatTypes
<1> HIDE DEF c, e
<1>6. 0 \in T
  <2>0. 0 + 1 = 1 /\ 0 + 2 = 2 OBVIOUS
  <2>1. SUFFICES ASSUME 1 <= n - 1 PROVE c[2] = s[1] \o e[1] BY <2>0
  <2>2. 2 \in 1 .. n /\ 2 # 1 /\ 2 - 1 = 1 /\ 1 \in 1 .. n - 1 /\ 1 + 1 = 2 BY <2>1
  <2>3. c[2] = c[1] \o s[2] BY <2>2, <1>3
  <2>4. u[1] = s[2] BY <2>2, <1>1
  <2>5. n - 1 > 0 BY <2>1, <1>2
  <2>6. e[1] = u[1] BY <2>5, <1>4
  <2> QED BY <2>3, <2>4, <2>6, <1>3
<1>7. ASSUME NEW i \in Nat, i \in T PROVE i + 1 \in T
  <2>0. i + 1 \in Nat OBVIOUS
  <2>1. SUFFICES ASSUME (i + 1) + 1 <= n - 1 PROVE c[(i + 1) + 2] = s[1] \o e[(i + 1) + 1] BY <2>0
  <2>2. i + 1 <= n - 1 /\ i + 1 \in 1 .. n - 1 /\ i + 2 \in 1 .. n - 1 /\ i + 3 \in 1 .. n /\ i + 3 # 1
        /\ i + 2 # 1 /\ (i + 3) - 1 = i + 2 /\ (i + 2) - 1 = i + 1 /\ (i + 2) + 1 = i + 3
    BY <2>1
  <2>3. c[i + 2] = s[1] \o e[i + 1] BY <2>2, <1>7
  <2>4. c[i + 3] = c[i + 2] \o s[i + 3] BY <2>2, <1>3
  <2>5. e[i + 2] = e[i + 1] \o u[i + 2] BY <2>2, <1>4
  <2>6. u[i + 2] = s[i + 3] /\ u[i + 2] \in Seq(Byte) BY <2>2, <1>1, <1>2
  <2>7. s[1] \in Seq(Byte) /\ e[i + 1] \in Seq(Byte) BY <2>2, <1>2, <1>5, <1>0
  <2>8. (s[1] \o e[i + 1]) \o u[i + 2] = s[1] \o (e[i + 1] \o u[i + 2])
    <3> DEFINE p == s[1]
               q == e[i + 1]
               r == u[i + 2]
    <3>1. p \in Seq(Byte) /\ q \in Seq(Byte) /\ r \in Seq(Byte) BY <2>6, <2>7
    <3> HIDE DEF p, q, r
    <3>2. Then(Then(p, q), r) = Then(p, Then(q, r)) BY <3>1, ThenAssociative
    <3> QED BY <3>2 DEF Then, p, q, r
  <2>9. c[i + 3] = s[1] \o e[i + 2] BY <2>3, <2>4, <2>5, <2>6, <2>8
  <2>10. (i + 1) + 2 = i + 3 /\ (i + 1) + 1 = i + 2 OBVIOUS
  <2> QED BY <2>9, <2>10
<1> HIDE DEF T
<1>8. Nat \subseteq T BY <1>6, <1>7, Induction
<1>9. Head(s) = s[1] BY <1>0
<1>10. CASE n = 1
  <2>1. u = << >> /\ TextOf(u) = u BY <1>10, <1>1, <1>4
  <2>2. s[1] \in Seq(Byte) BY <1>2, <1>10
  <2>3. s[1] \o << >> = s[1] BY <2>2
  <2> QED BY <2>1, <2>3, <1>1, <1>3, <1>9, <1>10
<1>11. CASE n # 1
  <2>1. n - 2 \in T /\ n - 1 > 0 BY <1>8, <1>11, <1>0
  <2>2. (n - 2) + 1 <= n - 1 /\ (n - 2) + 2 = n /\ (n - 2) + 1 = n - 1 BY <1>0
  <2>3. c[n] = s[1] \o e[n - 1] BY <2>1, <2>2 DEF T
  <2> QED BY <2>1, <2>3, <1>1, <1>3, <1>4, <1>9
<1> QED BY <1>10, <1>11

\* The next byte is the first of the text, and what is left after it the others.
LEMMA TextAdvances ==
  ASSUME FileOK, file # << >>, Advance
  PROVE  /\ <<NextByte>> \in Seq(Byte) /\ TextOf(file)' \in Seq(Byte)
         /\ TextOf(file) = <<NextByte>> \o TextOf(file)'
<1>1. Head(file) \in Codepoint /\ Tail(file) \in Seq(Codepoint) /\ file \in Seq(Codepoint) BY DEF FileOK
<1>2. \A f \in Seq(Codepoint) : f \in Seq(Seq(Byte)) BY DEF Codepoint
<1> DEFINE c == Head(file)
           t == Tail(file)
           b == Head(c)
           d == Tail(c)
           R == TextOf(t)
<1>3. c \in Seq(Byte) /\ c # << >> /\ t \in Seq(Seq(Byte)) /\ file \in Seq(Seq(Byte))
  BY <1>1, <1>2 DEF Codepoint
<1>4. file' = IF Len(c) = 1 THEN t ELSE <<d>> \o t BY DEF Advance
<1>5. TextOf(file) = c \o R BY <1>3, TextCons
<1>6. NextByte = b BY DEF NextByte
<1>7. R \in Seq(Byte) BY <1>3, FlatTypes
<1> HIDE DEF c, t, R
<1>8. b \in Byte /\ d \in Seq(Byte) /\ c = <<b>> \o d /\ (Len(c) = 1 => d = << >>)
  BY <1>3, HeadAndTail
<1> HIDE DEF b, d
<1>9. <<b>> \in Seq(Byte) BY <1>8
<1>10. Then(Then(<<b>>, d), R) = Then(<<b>>, Then(d, R))
  <2> DEFINE e == <<b>>
  <2>1. e \in Seq(Byte) BY <1>9
  <2> HIDE DEF e
  <2>2. Then(Then(e, d), R) = Then(e, Then(d, R)) BY <1>7, <1>8, <2>1, ThenAssociative
  <2> QED BY <2>2 DEF e
<1>11. d \o R \in Seq(Byte) BY <1>7, <1>8
<1>12. TextOf(file') = d \o R
  <2>1. CASE Len(c) = 1
    <3>1. d = << >> /\ << >> \o R = R BY <2>1, <1>7, <1>8
    <3> QED BY <2>1, <3>1, <1>4 DEF R
  <2>2. CASE Len(c) # 1
    <3> DEFINE g == <<d>> \o t
    <3>1. g \in Seq(Seq(Byte)) /\ g # << >> /\ Head(g) = d /\ Tail(g) = t
      <4>1. <<d>> \in Seq(Seq(Byte)) BY <1>8
      <4>2. Len(<<d>>) = 1 /\ <<d>>[1] = d OBVIOUS
      <4>3. g \in Seq(Seq(Byte)) /\ Len(g) = 1 + Len(t) /\ g[1] = d /\ Len(t) \in Nat
            /\ \A i \in 1 .. Len(t) : g[i + 1] = t[i]
        BY <4>1, <4>2, <1>3
      <4> HIDE DEF g
      <4>4. Tail(g) \in Seq(Seq(Byte)) /\ Len(Tail(g)) = Len(t)
            /\ \A i \in 1 .. Len(t) : Tail(g)[i] = g[i + 1]
        BY <4>3
      <4>5. \A i \in 1 .. Len(t) : Tail(g)[i] = t[i] BY <4>3, <4>4
      <4>6. Tail(g) = t
        <5>1. Len(Tail(g)) = Len(t) /\ \A i \in 1 .. Len(Tail(g)) : Tail(g)[i] = t[i] BY <4>4, <4>5
        <5> QED BY Zenon, <5>1, <4>4, <1>3, SeqEqual
      <4> QED BY <4>3, <4>6
    <3>2. file' = g BY <2>2, <1>4
    <3> HIDE DEF g
    <3>3. TextOf(g) = d \o R BY <3>1, TextCons DEF R
    <3> QED BY <3>2, <3>3
  <2> QED BY <2>1, <2>2
<1>13. (<<b>> \o d) \o R = <<b>> \o (d \o R) BY <1>10 DEF Then
<1> QED BY <1>5, <1>6, <1>8, <1>9, <1>11, <1>12, <1>13

\* What is left behind some codepoints is clear when the whole is.
LEMMA ClearLater ==
  ASSUME NEW f \in Seq(Codepoint), NEW d, Clear(TextOf(f), d), NEW k \in 0 .. Len(f)
  PROVE  Clear(TextOf(SubSeq(f, k + 1, Len(f))), d)
<1>0. PICK n \in Nat : n = Len(f) OBVIOUS
<1> DEFINE G(i) == SubSeq(f, i + 1, n)
           T == {i \in Nat : i <= n => Clear(TextOf(G(i)), d)}
<1>1. 0 \in T
  <2>1. G(0) = f BY <1>0
  <2> QED BY <2>1
<1>2. ASSUME NEW i \in Nat, i \in T PROVE i + 1 \in T
  <2>1. SUFFICES ASSUME i + 1 <= n PROVE Clear(TextOf(G(i + 1)), d) OBVIOUS
  <2>2. Clear(TextOf(G(i)), d) BY <2>1, <1>2
  <2> DEFINE g == G(i)
  <2>3. g \in Seq(Codepoint) /\ Len(g) = n - i /\ \A j \in 1 .. n - i : g[j] = f[i + j] BY <2>1, <1>0
  <2>4. G(i + 1) \in Seq(Codepoint) /\ Len(G(i + 1)) = n - i - 1
        /\ \A j \in 1 .. n - i - 1 : G(i + 1)[j] = f[i + 1 + j]
    BY <2>1, <1>0
  <2> HIDE DEF g, G
  <2>5. n - i \in Nat /\ n - i > 0 /\ g # << >> BY <2>1, <2>3
  <2>6. Tail(g) \in Seq(Codepoint) /\ Len(Tail(g)) = n - i - 1
        /\ \A j \in 1 .. n - i - 1 : Tail(g)[j] = g[j + 1]
    BY <2>3, <2>5
  <2>7. \A j \in 1 .. n - i - 1 : Tail(g)[j] = G(i + 1)[j]
    <3> TAKE j \in 1 .. n - i - 1
    <3>1. j + 1 \in 1 .. n - i /\ i + (j + 1) = i + 1 + j BY <2>5
    <3> QED BY <3>1, <2>3, <2>4, <2>6
  <2>8. Tail(g) = G(i + 1)
    <3>1. Len(Tail(g)) = Len(G(i + 1)) /\ \A j \in 1 .. Len(Tail(g)) : Tail(g)[j] = G(i + 1)[j]
      BY <2>4, <2>6, <2>7
    <3> QED BY Zenon, <3>1, <2>4, <2>6, SeqEqual
  <2>9. g \in Seq(Seq(Byte)) /\ Tail(g) \in Seq(Seq(Byte)) BY <2>3, <2>6 DEF Codepoint
  <2>10. TextOf(g) = Head(g) \o TextOf(Tail(g)) BY <2>5, <2>9, TextCons
  <2>11. Head(g) \in Seq(Byte) /\ TextOf(Tail(g)) \in Seq(Byte)
    <3>1. Head(g) \in Seq(Byte) BY <2>5, <2>9, HeadAndTail
    <3> DEFINE h == Tail(g)
    <3>2. h \in Seq(Seq(Byte)) BY <2>9
    <3> HIDE DEF h
    <3>3. TextOf(h) \in Seq(Byte) BY <3>2, FlatTypes
    <3> QED BY <3>1, <3>3 DEF h
  <2>12. Clear(TextOf(g), d) BY <2>2 DEF g
  <2> QED BY <2>8, <2>10, <2>11, <2>12, ClearBehind
<1> HIDE DEF T, G
<1>3. Nat \subseteq T BY <1>1, <1>2, Induction
<1>4. k \in T /\ k <= n BY <1>0, <1>3
<1> QED BY <1>0, <1>4 DEF T, G

\* m is how much of the beginning of d the end of x is: the longest there is.
Longest(x, d, m) ==
  /\ m \in 0 .. Len(d) /\ At(x, d, m, Len(x))
  /\ \A n \in 1 .. Len(d) : At(x, d, n, Len(x)) => n <= m

\* d ends at no byte of x but the last.
NotBefore(x, d) == \A i \in 1 .. Len(x) - 1 : ~ At(x, d, Len(d), i)

\* What is behind does not bear on what ends in front of it.
LEMMA AtPrefix ==
  ASSUME NEW x \in Seq(Byte), NEW y \in Seq(Byte), NEW d, NEW n \in Nat, NEW i \in 0 .. Len(x)
  PROVE  At(x \o y, d, n, i) <=> At(x, d, n, i)
<1>0. PICK l \in Nat, m \in Nat : l = Len(x) /\ m = Len(y) OBVIOUS
<1>1. \A j \in 1 .. l : (x \o y)[j] = x[j] BY <1>0
<1>2. ASSUME n <= i, NEW j \in 1 .. n PROVE (x \o y)[i - n + j] = x[i - n + j]
  <2>1. i - n + j \in 1 .. l BY <1>0, <1>2
  <2> QED BY <2>1, <1>1
<1> QED BY <1>2 DEF At

\* MatchedAfter: of a clear text, what is matched stays the longest beginning of the delimiter.
LEMMA MatchGoesOn ==
  ASSUME NEW x \in Seq(Byte), NEW b \in Byte, NEW y \in Seq(Byte), NEW d, NEW m,
         Clear((x \o <<b>>) \o y, d), Longest(x, d, m), m # Len(d), NotBefore(x, d)
  PROVE  /\ Longest(x \o <<b>>, d, IF b = d[m + 1] THEN m + 1 ELSE 0)
         /\ NotBefore(x \o <<b>>, d)
<1>0. PICK l \in Nat, L \in Nat : l = Len(x) /\ L = Len(d) BY DEF Clear
<1>1. m \in 0 .. L /\ m # L /\ m \in Nat /\ At(x, d, m, l) /\ L > 0
      /\ \A n \in 1 .. L : At(x, d, n, l) => n <= m
  BY <1>0 DEF Longest
<1>2. PICK w \in Seq(Byte) : w = x \o <<b>> /\ Len(w) = l + 1 /\ w[l + 1] = b
  <2>1. x \o <<b>> \in Seq(Byte) /\ Len(x \o <<b>>) = l + 1 /\ (x \o <<b>>)[l + 1] = b BY <1>0
  <2> QED BY <2>1
<1>3. ASSUME NEW n \in Nat, NEW i \in 0 .. l PROVE At(w, d, n, i) <=> At(x, d, n, i)
  <2>1. <<b>> \in Seq(Byte) /\ i \in 0 .. Len(x) BY <1>0
  <2> QED BY <2>1, <1>2, AtPrefix
<1>4. ASSUME NEW n \in 1 .. L
      PROVE  At(w, d, n, l + 1) <=> At(x, d, n - 1, l) /\ b = d[n]
  <2>1. n \in Nat /\ n - 1 \in Nat /\ l \in 0 .. l BY <1>0
  <2>2. At(x, d, n - 1, l) <=> At(w, d, n - 1, l) BY <2>1, <1>3
  <2>3. At(w, d, n - 1, l) <=> n - 1 <= l /\ \A j \in 1 .. n - 1 : w[l - (n - 1) + j] = d[j] BY DEF At
  <2>4. At(w, d, n, l + 1) <=> n <= l + 1 /\ \A j \in 1 .. n : w[(l + 1) - n + j] = d[j] BY DEF At
  <2>5. \A j \in 1 .. n : (l + 1) - n + j = l - (n - 1) + j OBVIOUS
  <2>6. (l + 1) - n + n = l + 1 /\ n \in 1 .. n /\ (n <= l + 1 <=> n - 1 <= l) BY <2>1
  <2>7. \A j \in 1 .. n : j = n \/ j \in 1 .. n - 1 OBVIOUS
  <2>8. \A j \in 1 .. n - 1 : j \in 1 .. n OBVIOUS
  <2>9. ASSUME At(w, d, n, l + 1) PROVE At(w, d, n - 1, l) /\ b = d[n]
    <3>1. n - 1 <= l /\ w[(l + 1) - n + n] = d[n] BY <2>9, <2>4, <2>6
    <3>2. b = d[n] BY <3>1, <2>6, <1>2
    <3>3. ASSUME NEW j \in 1 .. n - 1 PROVE w[l - (n - 1) + j] = d[j] BY <2>9, <2>4, <2>5, <2>8
    <3> QED BY <3>1, <3>2, <3>3, <2>3
  <2>10. ASSUME At(w, d, n - 1, l), b = d[n] PROVE At(w, d, n, l + 1)
    <3>1. ASSUME NEW j \in 1 .. n PROVE w[(l + 1) - n + j] = d[j]
      <4>1. CASE j = n BY <4>1, <2>6, <2>10, <1>2
      <4>2. CASE j \in 1 .. n - 1 BY <4>2, <2>10, <2>3, <2>5, <2>8
      <4> QED BY <4>1, <4>2, <2>7
    <3> QED BY <3>1, <2>3, <2>4, <2>6, <2>10
  <2> QED BY <2>2, <2>9, <2>10
<1>7. NotBefore(w, d)
  <2>1. SUFFICES ASSUME NEW i \in 1 .. l, At(w, d, L, i) PROVE FALSE
    BY <1>0, <1>2 DEF NotBefore
  <2>2. At(x, d, L, i) BY <2>1, <1>3
  <2>3. CASE i = l
    <3>1. L \in 1 .. L BY <1>1
    <3>2. L <= m BY <3>1, <2>2, <2>3, <1>1
    <3> QED BY <3>2, <1>1
  <2>4. CASE i # l
    <3>1. i \in 1 .. Len(x) - 1 BY <2>4, <1>0
    <3> QED BY <3>1, <2>2, <1>0 DEF NotBefore
  <2> QED BY <2>3, <2>4
<1>5. CASE b = d[m + 1]
  <2>1. m + 1 \in 1 .. L /\ (m + 1) - 1 = m BY <1>1
  <2>2. At(w, d, m + 1, l + 1) BY <2>1, <1>1, <1>4, <1>5
  <2>3. ASSUME NEW n \in 1 .. L, At(w, d, n, l + 1) PROVE n <= m + 1
    <3>1. At(x, d, n - 1, l) BY <2>3, <1>4
    <3>2. CASE n = 1 BY <3>2, <1>1
    <3>3. CASE n # 1
      <4>1. n - 1 \in 1 .. L BY <3>3
      <4>2. n - 1 <= m BY <3>1, <4>1, <1>1
      <4> QED BY <4>2, <1>1
    <3> QED BY <3>2, <3>3
  <2>4. m + 1 \in 0 .. Len(d) BY <2>1, <1>0
  <2>5. \A n \in 1 .. L : At(w, d, n, l + 1) => n <= m + 1 BY <2>3
  <2>6. Longest(w, d, m + 1) BY <2>2, <2>4, <2>5, <1>0, <1>2 DEF Longest
  <2> QED BY <2>6, <1>2, <1>5, <1>7
<1>6. CASE b # d[m + 1]
  <2>1. At(w, d, 0, l + 1)
    <3>1. 0 <= l + 1 /\ 1 .. 0 = {} OBVIOUS
    <3> QED BY <3>1 DEF At
  <2>2. ASSUME NEW n \in 1 .. L, At(w, d, n, l + 1) PROVE FALSE
    <3>1. At(x, d, n - 1, l) /\ b = d[n] BY <2>2, <1>4
    <3>2. n <= m + 1
      <4>1. CASE n = 1 BY <4>1, <1>1
      <4>2. CASE n # 1
        <5>1. n - 1 \in 1 .. L BY <4>2
        <5>2. n - 1 <= m BY <3>1, <5>1, <1>1
        <5> QED BY <5>2, <1>1
      <4> QED BY <4>1, <4>2
    <3>3. n # m + 1 BY <3>1, <1>6
    <3>4. n <= m /\ m \in 1 .. L - 1 /\ m \in Nat /\ l \in 0 .. l BY <3>2, <3>3, <1>1
    <3>5. At(w, d, m, l) BY <3>4, <1>1, <1>3
    <3> DEFINE v == w \o y
    <3>6. v \in Seq(Byte) /\ l + 1 \in 1 .. Len(v) /\ (l + 1) - 1 = l /\ v[l + 1] = b
      <4>1. Len(w) = l + 1 /\ Len(y) \in Nat BY <1>2
      <4>2. v \in Seq(Byte) /\ Len(v) = Len(w) + Len(y) BY <1>2
      <4>3. v[l + 1] = w[l + 1] BY <4>1
      <4> HIDE DEF v
      <4>4. l + 1 \in 1 .. Len(v) BY <4>1, <4>2
      <4> QED BY <4>2, <4>3, <4>4, <1>2
    <3>7. At(v, d, m, l) /\ At(v, d, n, l + 1)
      <4>1. l \in 0 .. Len(w) /\ l + 1 \in 0 .. Len(w) /\ n \in Nat BY <1>2
      <4> QED BY <4>1, <3>4, <3>5, <2>2, <1>2, AtPrefix
    <3> HIDE DEF v
    <3>8. Restarts(v, d) BY <3>1, <3>4, <3>6, <3>7, <1>0, <1>6 DEF Restarts
    <3> QED BY <3>8, <1>2 DEF Clear, v
  <2>3. 0 \in 0 .. Len(d) BY <1>0
  <2>4. \A n \in 1 .. L : At(w, d, n, l + 1) => n <= 0 BY <2>2
  <2>5. Longest(w, d, 0) BY <2>1, <2>3, <2>4, <1>0, <1>2 DEF Longest
  <2> QED BY <2>5, <1>2, <1>6, <1>7
<1> QED BY <1>5, <1>6

\* The text to come is clear of broken delimiters, and so is what a read has taken with it: what
\* it has matched is the longest beginning of the delimiter there is.
ReadOK ==
  /\ \A d \in Delimiters : Clear(TextOf(file), d)
  /\ reading \in {"none", "line", "until", "aborted"}
  /\ Reads => /\ until \in Delimiters \cup {Newline}
              /\ Clear(str.data \o TextOf(file), until)
              /\ Longest(str.data, until, matched)
              /\ NotBefore(str.data, until)

\* A delimiter of one byte cannot be broken off.
LEMMA NewlinesAreClear ==
  ASSUME NEW x PROVE Clear(x, Newline)
<1>1. PICK d \in Seq(Byte) : d = Newline /\ Len(d) = 1 /\ d # << >>
  <2>1. 10 \in Byte BY DEF Byte
  <2>2. <<10>> \in Seq(Byte) /\ Len(<<10>>) = 1 /\ <<10>> # << >> BY <2>1
  <2> QED BY <2>2 DEF Newline
<1>2. 1 .. Len(d) - 1 = {} BY <1>1
<1>3. ~ Restarts(x, d) BY <1>2 DEF Restarts
<1> QED BY <1>1, <1>3 DEF Clear

\* The first byte of a read
LEMMA ReadStarts ==
  ASSUME NEW b \in Byte, NEW d \in Seq(Byte) \ {<< >>}
  PROVE  /\ Longest(<<b>>, d, IF b = d[1] THEN 1 ELSE 0)
         /\ NotBefore(<<b>>, d)
<1>0. PICK L \in Nat : L = Len(d) /\ L >= 1
  <2>1. Len(d) \in Nat /\ Len(d) # 0 BY EmptySeq
  <2> QED BY <2>1
<1>1. PICK x \in Seq(Byte) : x = <<b>> /\ Len(x) = 1 /\ x[1] = b
  <2>1. <<b>> \in Seq(Byte) /\ Len(<<b>>) = 1 /\ <<b>>[1] = b OBVIOUS
  <2> QED BY <2>1
<1>2. NotBefore(x, d)
  <2>1. 1 .. Len(x) - 1 = {} BY <1>1
  <2> QED BY <2>1 DEF NotBefore
<1>3. ASSUME NEW n \in 1 .. L, At(x, d, n, 1) PROVE n = 1 /\ b = d[1]
  <2>1. n <= 1 /\ \A j \in 1 .. n : x[1 - n + j] = d[j] BY <1>3 DEF At
  <2>2. n = 1 /\ 1 \in 1 .. n /\ 1 - n + 1 = 1 BY <2>1
  <2> QED BY <2>1, <2>2, <1>1
<1>4. CASE b = d[1]
  <2>1. At(x, d, 1, 1)
    <3>1. ASSUME NEW j \in 1 .. 1 PROVE x[1 - 1 + j] = d[j]
      <4>1. j = 1 /\ 1 - 1 + j = 1 OBVIOUS
      <4> QED BY <4>1, <1>1, <1>4
    <3>2. 1 <= 1 OBVIOUS
    <3> QED BY <3>1, <3>2 DEF At
  <2>2. 1 \in 0 .. L /\ \A n \in 1 .. L : At(x, d, n, 1) => n <= 1 BY <1>0, <1>3
  <2>3. Longest(x, d, 1) BY <2>1, <2>2, <1>0, <1>1 DEF Longest
  <2> QED BY <2>3, <1>1, <1>2, <1>4
<1>5. CASE b # d[1]
  <2>1. At(x, d, 0, 1)
    <3>1. 0 <= 1 /\ 1 .. 0 = {} OBVIOUS
    <3> QED BY <3>1 DEF At
  <2>2. 0 \in 0 .. L /\ \A n \in 1 .. L : At(x, d, n, 1) => n <= 0 BY <1>0, <1>3, <1>5
  <2>3. Longest(x, d, 0) BY <2>1, <2>2, <1>0, <1>1 DEF Longest
  <2> QED BY <2>3, <1>1, <1>2, <1>5
<1> QED BY <1>4, <1>5

\* ReadOK in the next state
LEMMA StaysOK ==
  ASSUME /\ \A d \in Delimiters : Clear(TextOf(file)', d)
         /\ reading' \in {"none", "line", "until", "aborted"}
         /\ reading' \in {"line", "until"} =>
              /\ until' \in Delimiters \cup {Newline}
              /\ Clear(str'.data \o TextOf(file)', until')
              /\ Longest(str'.data, until', matched')
              /\ NotBefore(str'.data, until')
  PROVE  ReadOK'
BY Zenon DEF ReadOK, Reads, Longest, NotBefore, At, Clear, Restarts, Newline

\* Every step of a read leaves what is to come clear, and what was matched the longest.
LEMMA ReadStep ==
  ASSUME NothingRestarts, StringInv, ReadOK, FileNext
  PROVE  ReadOK'
<1>0. FileOK /\ IsArray(str) /\ str.data \in Seq(Byte) BY DEF StringInv, IsArray, ArrayRecord
<1>1. \A d \in Delimiters : Clear(TextOf(file), d) BY DEF ReadOK
<1>2. file \in Seq(Codepoint) BY <1>0 DEF FileOK
<1>3. ASSUME file # << >>, Advance
      PROVE  /\ NextByte \in Byte /\ TextOf(file)' \in Seq(Byte)
             /\ TextOf(file) = <<NextByte>> \o TextOf(file)'
             /\ \A d \in Delimiters : Clear(TextOf(file)', d)
  <2> DEFINE y == TextOf(file)'
             x == <<NextByte>>
  <2>1. x \in Seq(Byte) /\ y \in Seq(Byte) /\ TextOf(file) = x \o y BY <1>0, <1>3, TextAdvances
  <2>2. NextByte \in Byte BY <1>0, <1>3, NextBytes
  <2> HIDE DEF x, y
  <2>3. \A d \in Delimiters : Clear(y, d) BY <2>1, <1>1, ClearBehind
  <2> QED BY <2>1, <2>2, <2>3 DEF x, y
<1>4. ASSUME NEW function \in {"line", "until"}, NEW d \in Delimiters \cup {Newline},
             StartReading(function, d)
      PROVE  ReadOK'
  <2>1. file # << >> /\ Advance /\ str' = [str EXCEPT !.data = <<NextByte>>] /\ reading' = function
        /\ until' = d /\ matched' = IF NextByte = d[1] THEN 1 ELSE 0
    BY <1>4 DEF StartReading
  <2>2. NextByte \in Byte /\ TextOf(file) = <<NextByte>> \o TextOf(file)'
        /\ \A e \in Delimiters : Clear(TextOf(file)', e)
    BY <1>3, <2>1
  <2>3. Clear(TextOf(file), d) BY <1>1, NewlinesAreClear
  <2>4. str'.data = <<NextByte>> BY <2>1, <1>0 DEF IsArray, ArrayRecord
  <2>5. d \in Seq(Byte) \ {<< >>} BY <2>3 DEF Clear
  <2>6. Longest(<<NextByte>>, d, matched') /\ NotBefore(<<NextByte>>, d)
    BY <2>1, <2>2, <2>5, ReadStarts
  <2>7. reading' \in {"none", "line", "until", "aborted"} BY <2>1
  <2>8. Clear(str'.data \o TextOf(file)', until') BY <2>1, <2>2, <2>3, <2>4
  <2>9. until' \in Delimiters \cup {Newline} BY <2>1
  <2>10. Longest(str'.data, until', matched') /\ NotBefore(str'.data, until') BY <2>1, <2>4, <2>6
  <2> QED BY <2>2, <2>7, <2>8, <2>9, <2>10, StaysOK
<1>5. ASSUME ReadByte PROVE ReadOK'
  <2> DEFINE x == str.data
             y == TextOf(file)'
             b == NextByte
  <2>1. Reads /\ matched # Len(until) /\ file # << >> /\ Advance
        /\ str' = [str EXCEPT !.data = Append(@, NextByte)]
        /\ matched' = (IF b = until[matched + 1] THEN matched + 1 ELSE 0)
        /\ reading' = reading /\ until' = until
    BY <1>5 DEF ReadByte, AtDelimiter, MatchedAfter
  <2>2. b \in Byte /\ y \in Seq(Byte) /\ TextOf(file) = <<b>> \o y /\ x \in Seq(Byte)
        /\ \A e \in Delimiters : Clear(y, e)
    BY <1>3, <2>1, <1>0
  <2>3. str'.data = Append(x, b) BY <2>1, <1>0 DEF IsArray, ArrayRecord
  <2>4. /\ until \in Delimiters \cup {Newline} /\ Clear(x \o TextOf(file), until)
        /\ Longest(x, until, matched) /\ NotBefore(x, until)
        /\ reading \in {"none", "line", "until", "aborted"}
    BY <2>1 DEF ReadOK
  <2> HIDE DEF x, y, b
  <2>5. Append(x, b) = x \o <<b>> /\ <<b>> \in Seq(Byte) BY <2>2
  <2>6. (x \o <<b>>) \o y = x \o (<<b>> \o y)
    <3> DEFINE e == <<b>>
    <3>1. e \in Seq(Byte) BY <2>5
    <3> HIDE DEF e
    <3>2. Then(Then(x, e), y) = Then(x, Then(e, y)) BY <2>2, <3>1, ThenAssociative
    <3> QED BY <3>2 DEF Then, e
  <2>7. Clear((x \o <<b>>) \o y, until) BY <2>2, <2>4, <2>6
  <2>8. Longest(x \o <<b>>, until, matched') /\ NotBefore(x \o <<b>>, until)
    BY <2>1, <2>2, <2>4, <2>7, MatchGoesOn
  <2>9. str'.data = x \o <<b>> BY <2>3, <2>5
  <2>10. Clear(str'.data \o y, until') /\ Longest(str'.data, until', matched') /\ NotBefore(str'.data, until')
    BY <2>1, <2>7, <2>8, <2>9
  <2>11. until' \in Delimiters \cup {Newline} /\ reading' \in {"none", "line", "until", "aborted"}
    BY <2>1, <2>4
  <2> QED BY <2>2, <2>10, <2>11, StaysOK DEF y
<1>10. ASSUME UNCHANGED file PROVE \A d \in Delimiters : Clear(TextOf(file)', d)
  <2>1. TextOf(file)' = TextOf(file) BY <1>10 DEF TextOf
  <2> QED BY <2>1, <1>1
<1>6. ASSUME GrowForRead PROVE ReadOK'
  <2>1. Reads /\ file' = file /\ until' = until /\ matched' = matched BY <1>6 DEF GrowForRead
  <2>2. CASE str.allocator
    <3>1. str' = Reserve(str, str.capacity + 1).arr /\ reading' = reading BY <1>6, <2>2 DEF GrowForRead
    <3>2. str.capacity + 1 \in 0 .. MaxSize
      <4>1. str.capacity \in Nat BY <1>0 DEF IsArray, ArrayRecord
      <4>2. str.capacity < MaxSize BY <1>6, <2>2 DEF GrowForRead
      <4> QED BY <4>1, <4>2, Bounds
    <3>3. str'.data = str.data BY <3>1, <3>2, <1>0, Reserved
    <3>4. TextOf(file)' = TextOf(file) BY <2>1 DEF TextOf
    <3>5. /\ until \in Delimiters \cup {Newline} /\ Clear(str.data \o TextOf(file), until)
          /\ Longest(str.data, until, matched) /\ NotBefore(str.data, until)
          /\ reading \in {"none", "line", "until", "aborted"}
      BY <2>1 DEF ReadOK
    <3>6. /\ until' \in Delimiters \cup {Newline} /\ Clear(str'.data \o TextOf(file)', until')
          /\ Longest(str'.data, until', matched') /\ NotBefore(str'.data, until')
          /\ reading' \in {"none", "line", "until", "aborted"}
      BY <2>1, <3>1, <3>3, <3>4, <3>5
    <3> QED BY <2>1, <3>6, <1>10, StaysOK
  <2>3. CASE ~ str.allocator
    <3>1. reading' = "aborted" BY <1>6, <2>3 DEF GrowForRead
    <3> QED BY <2>1, <3>1, <1>10, StaysOK
  <2> QED BY <2>2, <2>3
<1>7. ASSUME EndReading PROVE ReadOK'
  <2>1. reading' = "none" /\ file' = file BY <1>7 DEF EndReading
  <2> QED BY <2>1, <1>10, StaysOK
<1>8. ASSUME ReadStrip PROVE ReadOK'
  <2>1. file' = file \/ file' = Word(file).rest BY <1>8 DEF ReadStrip
  <2>2. reading' \in {"none", "aborted"} BY <1>8 DEF ReadStrip
  <2>3. \A d \in Delimiters : Clear(TextOf(file)', d)
    <3>1. CASE file' = file BY <3>1, <1>10
    <3>2. CASE file' = Word(file).rest
      <4>1. PICK k \in 0 .. Len(file) : Word(file).rest = SubSeq(file, k + 1, Len(file))
        BY <1>2, WordParts
      <4>2. TextOf(file)' = TextOf(SubSeq(file, k + 1, Len(file))) BY <3>2, <4>1 DEF TextOf
      <4> QED BY <4>2, <1>1, <1>2, ClearLater
    <3> QED BY <2>1, <3>1, <3>2
  <2> QED BY <2>2, <2>3, StaysOK
<1>9. ASSUME OpenAnother PROVE ReadOK'
  <2>1. file' \in Files /\ reading' = "none" BY <1>9 DEF OpenAnother
  <2>2. \A d \in Delimiters : Clear(TextOf(file)', d)
    <3>1. \A f \in Files, d \in Delimiters : Clear(TextOf(f), d)
      BY FileInputAssumption DEF NothingRestarts, Clear
    <3>2. TextOf(file)' = TextOf(file') OBVIOUS
    <3> QED BY <2>1, <3>1, <3>2
  <2> QED BY <2>1, <2>2, StaysOK
<1> QED BY <1>4, <1>5, <1>6, <1>7, <1>8, <1>9 DEF FileNext

\* Ends, by the positions of the bytes
LEMMA EndsAt ==
  ASSUME NEW x \in Seq(Byte), NEW d \in Seq(Byte), NEW i \in 1 .. Len(x)
  PROVE  i \in Ends(x, d) <=> At(x, d, Len(d), i)
<1>0. PICK l \in Nat, L \in Nat : l = Len(x) /\ L = Len(d) OBVIOUS
<1>1. i \in Ends(x, d) <=> i \in L .. l /\ SubSeq(x, i - L + 1, i) = d BY <1>0 DEF Ends
<1>2. CASE ~ (L <= i) BY <1>0, <1>1, <1>2 DEF At
<1>3. CASE L <= i
  <2>1. PICK u \in Seq(Byte) : /\ u = SubSeq(x, i - L + 1, i) /\ Len(u) = L
                               /\ \A j \in 1 .. L : u[j] = x[i - L + j]
    <3>1. i - L + 1 \in 1 .. l + 1 /\ i \in 0 .. l /\ i - (i - L + 1) + 1 = L BY <1>0, <1>3
    <3>2. SubSeq(x, i - L + 1, i) \in Seq(Byte)
      BY <3>1, <1>0, SubSeqProperties
    <3>3. Len(SubSeq(x, i - L + 1, i)) = L BY <3>1, <1>0, <1>3
    <3>4. ASSUME NEW j \in 1 .. L PROVE SubSeq(x, i - L + 1, i)[j] = x[i - L + j]
      <4>1. (i - L + 1) + j - 1 = i - L + j BY <1>0
      <4> QED BY <4>1, <3>1, <3>3, <1>0, <1>3
    <3> QED BY <3>2, <3>3, <3>4
  <2>2. u = d <=> \A j \in 1 .. L : u[j] = d[j]
    <3>1. Len(u) = Len(d) /\ Len(u) = L BY <2>1, <1>0
    <3>2. (\A j \in 1 .. L : u[j] = d[j]) => u = d BY Zenon, <3>1, SeqEqual
    <3> QED BY <3>2
  <2> QED BY <2>1, <2>2, <1>0, <1>1, <1>3 DEF At
<1> QED BY <1>2, <1>3

\* ReadsEndAtDelimiter: what a read has taken ends at the first delimiter, and unless it was found
\* there is none in it, as long as no text breaks a delimiter off with its own beginning.
THEOREM ReadsFindDelimiters ==
  ASSUME NothingRestarts
  PROVE  Spec => []ReadsEndAtDelimiter
<1>1. Init => ReadOK
  <2>1. SUFFICES ASSUME Init PROVE ReadOK OBVIOUS
  <2>2. file \in Files /\ reading = "none" BY <2>1 DEF Init, FileInit
  <2> QED BY <2>2, FileInputAssumption DEF ReadOK, Reads, NothingRestarts, Clear
<1>2. StringInv /\ ReadOK /\ [Next]_vars => ReadOK'
  <2> SUFFICES ASSUME StringInv, ReadOK, [Next]_vars PROVE ReadOK' OBVIOUS
  <2>1. CASE StringCalls
    <3>1. reading = "none" /\ reading' = "none" /\ file' = file BY <2>1 DEF StringCalls, fileVars
    <3> QED BY <3>1 DEF ReadOK, Reads, Clear, TextOf
  <2>2. CASE FileNext BY <2>2, ReadStep
  <2>3. CASE UNCHANGED vars
    <3>1. str' = str /\ file' = file /\ reading' = reading /\ until' = until /\ matched' = matched
      BY <2>3 DEF vars, stringVars, fileVars
    <3>2. TextOf(file)' = TextOf(file) BY <3>1 DEF TextOf
    <3>3. /\ \A d \in Delimiters : Clear(TextOf(file), d)
          /\ reading \in {"none", "line", "until", "aborted"}
          /\ reading \in {"line", "until"} =>
               /\ until \in Delimiters \cup {Newline}
               /\ Clear(str.data \o TextOf(file), until)
               /\ Longest(str.data, until, matched)
               /\ NotBefore(str.data, until)
      BY DEF ReadOK, Reads
    <3> QED BY <3>1, <3>2, <3>3, StaysOK
  <2> QED BY <2>1, <2>2, <2>3 DEF Next
<1>3. StringInv /\ ReadOK => ReadsEndAtDelimiter
  <2>1. SUFFICES ASSUME StringInv, ReadOK, Reads
                 PROVE  /\ Ends(str.data, until) \subseteq {Length(str)}
                        /\ AtDelimiter <=> Ends(str.data, until) # {}
    BY DEF ReadsEndAtDelimiter
  <2> DEFINE x == str.data
  <2>2. Clear(x \o TextOf(file), until) /\ Longest(x, until, matched) /\ NotBefore(x, until)
    BY <2>1 DEF ReadOK
  <2>3. x \in Seq(Byte) BY <2>1 DEF StringInv, IsArray, ArrayRecord
  <2> HIDE DEF x
  <2>4. PICK l \in Nat, L \in Nat : l = Len(x) /\ L = Len(until) /\ L >= 1
    <3>1. until \in Seq(Byte) /\ until # << >> BY <2>2 DEF Clear
    <3>2. Len(until) \in Nat /\ Len(until) # 0 BY <3>1, EmptySeq
    <3> QED BY <3>2, <2>3
  <2>5. matched \in 0 .. L /\ At(x, until, matched, l) /\ \A n \in 1 .. L : At(x, until, n, l) => n <= matched
    BY <2>2, <2>4 DEF Longest
  <2>6. Ends(x, until) \subseteq 1 .. l BY <2>4 DEF Ends
  <2>7. \A i \in 1 .. l : i \in Ends(x, until) <=> At(x, until, L, i)
    <3>1. until \in Seq(Byte) BY <2>2 DEF Clear
    <3> QED BY <3>1, <2>3, <2>4, EndsAt
  <2>8. Ends(x, until) \subseteq {l}
    <3>1. SUFFICES ASSUME NEW i \in Ends(x, until), i # l PROVE FALSE OBVIOUS
    <3>2. i \in 1 .. l - 1 /\ At(x, until, L, i) BY <3>1, <2>6, <2>7
    <3> QED BY <3>2, <2>2, <2>4 DEF NotBefore
  <2>9. ASSUME matched = L PROVE Ends(x, until) # {}
    <3>1. At(x, until, L, l) BY <2>5, <2>9
    <3>2. L <= l BY <3>1 DEF At
    <3>3. l \in 1 .. l BY <3>2, <2>4
    <3> QED BY <3>1, <3>3, <2>7
  <2>10. ASSUME NEW i \in Ends(x, until) PROVE matched = L
    <3>1. i \in 1 .. l /\ i = l /\ L \in 1 .. L BY <2>4, <2>6, <2>8
    <3>2. At(x, until, L, l) BY <3>1, <2>7
    <3>3. L <= matched BY <3>1, <3>2, <2>5
    <3> QED BY <3>3, <2>5
  <2> QED BY <2>4, <2>8, <2>9, <2>10 DEF AtDelimiter, Length, x
<1> QED BY <1>1, <1>2, <1>3, StringInvariant, PTL DEF Spec

=============================================================================
