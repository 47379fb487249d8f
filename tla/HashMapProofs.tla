--------------------------- MODULE HashMapProofs ---------------------------
(***************************************************************************)
(* The hash map of src/hashmap.c is a map, for hashes of every width, any  *)
(* set of keys, elements and capacities.                                   *)
(*                                                                         *)
(* The sizes of arrays and the rotated hashes are recursive functions of   *)
(* the depth: Induction and Iteration of CommonLemmas say what they are.   *)
(*                                                                         *)
(* The first lemmas are arithmetic: rotating a hash by a size_shift that   *)
(* is no more than its bits exchanges two parts of it, so hashes that      *)
(* differ are different on every level, and one that is not zero is zero   *)
(* on none. A size_shift stays even on the way down, so put and get        *)
(* compute the same sizes.                                                 *)
(*                                                                         *)
(* The inductive invariant, TreeInv, says that each array hangs off a      *)
(* bucket of an array in the tree, each bucket in use is on the way of a   *)
(* search for the hash in it, and no hash is in two buckets. It implies    *)
(* that no search is longer than there are arrays, as the arrays on its    *)
(* way are different, so the depths at which put and get stop exist; that  *)
(* put stops at a bucket not in use; and that get passes every bucket      *)
(* above the one with the hash. From this each operation is an operation   *)
(* of the abstract map.                                                    *)
(*                                                                         *)
(* An iterator goes through the buckets in the order in which their names  *)
(* are sorted, a bucket after those below it. The loop that looks for the  *)
(* next one comes to an end because with each round either there is less   *)
(* left of the arrays below, or it goes up (Ways). IteratorInv then says   *)
(* that what was returned are the elements before the iterator, each once, *)
(* and that no put and no remove changes on which side of it one that      *)
(* stays is.                                                               *)
(***************************************************************************)
EXTENDS MapIterator, CommonLemmas, FiniteSetTheorems

\* 63 - __builtin_clzll(n) is the exponent of the greatest power of two that is
\* at most n.
LEMMA Log2Bounds ==
  ASSUME NEW n \in Nat \ {0}
  PROVE  /\ Log2(n) \in Nat
         /\ PowerOfTwo[Log2(n)] <= n
         /\ n < PowerOfTwo[Log2(n) + 1]
<1> DEFINE p == PowerOfTwo
           T == {e \in Nat : n < p[e + 1]}
<1> HIDE DEF p
<1>1. p[0] = 1 /\ \A i \in Nat : p[i] \in Nat /\ i < p[i]
  BY PowersOfTwo, PowersExceed DEF p
<1>2. n \in T
  <2>1. n + 1 \in Nat OBVIOUS
  <2>2. n + 1 < p[n + 1] /\ p[n + 1] \in Nat BY <2>1, <1>1
  <2> QED BY <2>2
<1>3. PICK e \in T : \A y \in T : e <= y
  <2>1. T \subseteq Nat /\ T # {} BY <1>2
  <2> HIDE DEF T
  <2> QED BY <2>1, Least
<1>4. p[e] <= n
  <2>1. CASE e = 0 BY <2>1, <1>1
  <2>2. CASE e # 0
    <3>1. e - 1 \in Nat /\ (e - 1) + 1 = e /\ ~ (e <= e - 1) BY <2>2
    <3>2. e - 1 \notin T BY <1>3, <3>1
    <3>3. ~ (n < p[e]) BY <3>1, <3>2
    <3>4. p[e] \in Nat BY <1>1
    <3> QED BY <3>3, <3>4
  <2> QED BY <2>1, <2>2
<1>5. e \in 0 .. n
  <2>1. e < p[e] /\ p[e] \in Nat BY <1>1
  <2> QED BY <2>1, <1>4
<1>6. Log2(n) \in 0 .. n /\ PowerOfTwo[Log2(n)] <= n /\ n < PowerOfTwo[Log2(n) + 1]
  <2>1. \E x \in 0 .. n : PowerOfTwo[x] <= n /\ n < PowerOfTwo[x + 1]
    BY <1>3, <1>4, <1>5 DEF p
  <2> QED BY <2>1, Zenon DEF Log2
<1> QED BY <1>6

\* gp_max
LEMMA GreaterOfTwo ==
  ASSUME NEW a \in Nat, NEW b \in Nat
  PROVE  Max({a, b}) \in Nat /\ Max({a, b}) >= a /\ Max({a, b}) >= b
           /\ Max({a, b}) \in {a, b}
<1>1. \E x \in {a, b} : \A y \in {a, b} : x >= y OBVIOUS
<1>2. Max({a, b}) \in {a, b} /\ \A y \in {a, b} : Max({a, b}) >= y BY <1>1 DEF Max
<1> QED BY <1>2

\* gp_min
LEMMA LesserOfTwo ==
  ASSUME NEW a \in Nat, NEW b \in Nat
  PROVE  Min({a, b}) \in Nat /\ Min({a, b}) <= a /\ Min({a, b}) <= b
           /\ Min({a, b}) \in {a, b}
<1>1. \E x \in {a, b} : \A y \in {a, b} : x <= y OBVIOUS
<1>2. Min({a, b}) \in {a, b} /\ \A y \in {a, b} : Min({a, b}) <= y BY <1>1 DEF Min
<1> QED BY <1>2

\* What the size_shift of an array can be: even, no less than that of the
\* smallest arrays, and no more than the bits of a hash
ShiftOK(s) == s \in MinShift .. HashBits /\ s % 2 = 0

\* gp_map_new chooses such a size_shift for the root array.
LEMMA RootShiftOK ==
  ASSUME NEW capacity \in Capacities
  PROVE  ShiftOK(RootShift(capacity))
<1>1. PICK c : c = Min({MaxCapacity, Max({MinCapacity, capacity})}) OBVIOUS
<1>2. c \in Nat /\ MinCapacity <= c /\ c <= MaxCapacity
  <2>1. /\ MinCapacity \in Nat /\ MaxCapacity \in Nat /\ capacity \in Nat
        /\ MinCapacity <= MaxCapacity
    <3>1. HashBits \in Nat BY HashMapAssumption
    <3>2. PowerOfTwo[HashBits] \in Nat BY <3>1, Positive
    <3> QED BY <3>2, HashMapAssumption
  <2>2. PICK m : m = Max({MinCapacity, capacity}) OBVIOUS
  <2>3. m \in Nat /\ m >= MinCapacity BY <2>1, <2>2, GreaterOfTwo
  <2>4. c = Min({MaxCapacity, m}) BY <1>1, <2>2
  <2>5. c \in {MaxCapacity, m} /\ c <= MaxCapacity BY <2>1, <2>3, <2>4, LesserOfTwo
  <2> QED BY <2>1, <2>3, <2>5
<1>3. /\ PowerOfTwo[4] <= c /\ c <= PowerOfTwo[HashBits]
      /\ HashBits \in Nat /\ HashBits % 2 = 0
  <2>1. HashBits \in Nat /\ 4 \in Nat BY HashMapAssumption
  <2>2. PowerOfTwo[HashBits] \in Nat /\ PowerOfTwo[4] \in Nat BY <2>1, Positive
  <2> QED BY <1>2, <2>1, <2>2, HashMapAssumption DEF MinShift
<1>4. PICK e : e = Log2(c) OBVIOUS
<1>5. e \in Nat /\ PowerOfTwo[e] <= c /\ c < PowerOfTwo[e + 1]
  <2>1. 4 \in Nat OBVIOUS
  <2>2. PowerOfTwo[4] \in Nat \ {0} BY <2>1, Positive
  <2>3. c \in Nat \ {0} BY <1>2, <1>3, <2>2
  <2> QED BY <2>3, <1>4, Log2Bounds
<1>6. 4 < e + 1
  <2>1. 4 \in Nat /\ e + 1 \in Nat BY <1>5
  <2>2. PowerOfTwo[4] \in Nat /\ PowerOfTwo[e + 1] \in Nat BY <2>1, Positive
  <2>3. PowerOfTwo[4] < PowerOfTwo[e + 1] BY <1>2, <1>3, <1>5, <2>2
  <2> QED BY <2>1, <2>3, PowersReflectOrder
<1>7. e < HashBits + 1
  <2>1. HashBits + 1 \in Nat /\ HashBits \in Nat BY <1>3
  <2>2. PowerOfTwo[HashBits + 1] = 2 * PowerOfTwo[HashBits] BY <2>1, PowersOfTwo
  <2>3. PowerOfTwo[HashBits] \in Nat \ {0} /\ PowerOfTwo[e] \in Nat BY <1>5, <2>1, Positive
  <2>4. PowerOfTwo[e] < PowerOfTwo[HashBits + 1] BY <1>2, <1>3, <1>5, <2>2, <2>3
  <2> QED BY <2>1, <1>5, <2>4, PowersReflectOrder
<1>8. RootShift(capacity) = e + (e % 2) BY <1>1, <1>4 DEF RootShift
<1>9. e + (e % 2) \in 4 .. HashBits /\ (e + (e % 2)) % 2 = 0
  BY <1>3, <1>5, <1>6, <1>7
<1> QED BY <1>8, <1>9 DEF ShiftOK, MinShift

\* Shifting a number h of the width of a * b to the left by a drops h \div b
\* from it.
LEMMA Turn ==
  ASSUME NEW a \in Nat \ {0}, NEW b \in Nat \ {0}, NEW h \in 0 .. a * b - 1
  PROVE  /\ h \div b \in 0 .. a - 1
         /\ h % b \in 0 .. b - 1
         /\ h = b * (h \div b) + (h % b)
         /\ (h * a) % (a * b) = (h % b) * a
<1>1. PICK q, r : q = h \div b /\ r = h % b OBVIOUS
<1>2. h = b * q + r /\ r \in 0 .. b - 1 /\ q \in Int BY <1>1
<1>3. q >= 0
  <2>1. CASE q <= -1
    <3>1. b * q <= b * (-1) BY <1>2, <2>1
    <3> QED BY <3>1, <1>2
  <2> QED BY <2>1, <1>2
<1>4. q <= a - 1
  <2>1. CASE q >= a
    <3>1. b * q >= b * a BY <1>2, <2>1
    <3>2. b * a = a * b OBVIOUS
    <3> QED BY <3>1, <3>2, <1>2
  <2> QED BY <2>1, <1>2
<1>5. h * a = (a * b) * q + r * a
  <2>1. h * a = (b * q + r) * a BY <1>2
  <2>2. (b * q + r) * a = (a * b) * q + r * a BY <1>2
  <2> QED BY <2>1, <2>2
<1>6. r * a \in 0 .. a * b - 1
  <2>1. r * a >= 0 BY <1>2
  <2>2. (b - 1) * a = a * b - a OBVIOUS
  <2>3. r * a <= (b - 1) * a BY <1>2
  <2> QED BY <2>1, <2>2, <2>3, <1>2
<1>7. (h * a) % (a * b) = r * a
  <2>1. PICK w, x, y : w = a * b /\ x = r * a /\ y = h * a OBVIOUS
  <2>2. w \in Nat \ {0} BY <2>1
  <2>3. y = w * q + x /\ x \in 0 .. w - 1 BY <2>1, <1>5, <1>6
  <2>4. y % w = x BY <2>2, <2>3, <1>2
  <2> QED BY <2>1, <2>4
<1>8. h \div b = q /\ h % b = r BY <1>1
<1>9. q \in 0 .. a - 1 BY <1>2, <1>3, <1>4
<1> QED BY <1>2, <1>7, <1>8, <1>9

\* The values of a hash
Words == 0 .. PowerOfTwo[HashBits] - 1

\* The two parts of a hash that is rotated are of the sizes of the powers of
\* two concerned.
LEMMA Sizes ==
  ASSUME NEW s \in 0 .. HashBits
  PROVE  /\ TwoTo[s] = PowerOfTwo[s] /\ TwoTo[s] \in Nat \ {0}
         /\ TwoTo[HashBits - s] = PowerOfTwo[HashBits - s]
         /\ TwoTo[HashBits - s] \in Nat \ {0}
         /\ TwoTo[HashBits] = PowerOfTwo[HashBits]
         /\ PowerOfTwo[HashBits] = TwoTo[HashBits - s] * TwoTo[s]
<1>1. /\ s \in Nat /\ HashBits \in Nat /\ HashBits - s \in 0 .. HashBits
      /\ HashBits \in 0 .. HashBits /\ (HashBits - s) + s = HashBits
  BY HashMapAssumption
<1>2. \A e \in 0 .. HashBits : TwoTo[e] = PowerOfTwo[e] BY DEF TwoTo
<1>3. \A e \in 0 .. HashBits : PowerOfTwo[e] \in Nat \ {0} BY Positive
<1>4. PowerOfTwo[HashBits] = PowerOfTwo[HashBits - s] * PowerOfTwo[s]
  <2>1. HashBits - s \in Nat BY <1>1
  <2>2. PowerOfTwo[(HashBits - s) + s] = PowerOfTwo[HashBits - s] * PowerOfTwo[s]
    BY <1>1, <2>1, PowerOfSum
  <2> QED BY <1>1, <2>2
<1> QED BY <1>1, <1>2, <1>3, <1>4

\* To rotate a hash is to exchange its high and low bits.
LEMMA RotatedParts ==
  ASSUME NEW s \in 0 .. HashBits, NEW h \in Words
  PROVE  \E a, b \in Nat \ {0} :
           /\ a = TwoTo[HashBits - s] /\ b = TwoTo[s]
           /\ PowerOfTwo[HashBits] = a * b
           /\ h \div b \in 0 .. a - 1
           /\ h % b \in 0 .. b - 1
           /\ h = b * (h \div b) + (h % b)
           /\ Rotated(h, s) = (h % b) * a + (h \div b)
<1>1. PICK a, b : a = TwoTo[HashBits - s] /\ b = TwoTo[s] OBVIOUS
<1>2. /\ a \in Nat \ {0} /\ b \in Nat \ {0} /\ PowerOfTwo[HashBits] = a * b
      /\ TwoTo[HashBits] = a * b
  BY <1>1, Sizes
<1>3. h \in 0 .. a * b - 1 BY <1>2 DEF Words
<1>4. /\ h \div b \in 0 .. a - 1
      /\ h % b \in 0 .. b - 1
      /\ h = b * (h \div b) + (h % b)
      /\ (h * a) % (a * b) = (h % b) * a
  BY <1>2, <1>3, Turn
<1>5. Rotated(h, s) = ((h * a) % (a * b)) + (h \div b) BY <1>1, <1>2 DEF Rotated
<1> QED BY <1>1, <1>2, <1>4, <1>5

\* A number put together from high and low bits can be taken apart again.
LEMMA Combined ==
  ASSUME NEW a \in Nat \ {0}, NEW b \in Nat \ {0},
         NEW q \in 0 .. a - 1, NEW r \in 0 .. b - 1
  PROVE  /\ r * a + q \in 0 .. a * b - 1
         /\ (r * a + q) % a = q
         /\ (r * a + q) \div a = r
<1>1. PICK x : x = r * a OBVIOUS
<1>2. r * a <= (b - 1) * a /\ (b - 1) * a = a * b - a /\ r * a >= 0 /\ x \in Int BY <1>1
<1>3. PICK y : y = a * b OBVIOUS
<1>4. x + q \in 0 .. y - 1 /\ y \in Int BY <1>1, <1>2, <1>3
<1>5. (r * a + q) % a = q OBVIOUS
<1>6. (r * a + q) \div a = r OBVIOUS
<1> QED BY <1>1, <1>3, <1>4, <1>5, <1>6

\* A rotated hash is a hash.
LEMMA RotatedType ==
  ASSUME NEW s \in 0 .. HashBits, NEW h \in Words
  PROVE  Rotated(h, s) \in Words
<1>1. PICK a, b \in Nat \ {0} :
           /\ PowerOfTwo[HashBits] = a * b
           /\ h \div b \in 0 .. a - 1
           /\ h % b \in 0 .. b - 1
           /\ Rotated(h, s) = (h % b) * a + (h \div b)
  BY RotatedParts
<1>2. (h % b) * a + (h \div b) \in 0 .. a * b - 1 BY <1>1, Combined
<1> QED BY <1>1, <1>2 DEF Words

\* Different hashes are different when they are rotated.
LEMMA RotatedInjective ==
  ASSUME NEW s \in 0 .. HashBits, NEW h \in Words, NEW g \in Words,
         Rotated(h, s) = Rotated(g, s)
  PROVE  h = g
<1>1. PICK a, b \in Nat \ {0} :
           /\ a = TwoTo[HashBits - s] /\ b = TwoTo[s]
           /\ h \div b \in 0 .. a - 1
           /\ h % b \in 0 .. b - 1
           /\ h = b * (h \div b) + (h % b)
           /\ Rotated(h, s) = (h % b) * a + (h \div b)
  BY RotatedParts
<1>2. /\ g \div b \in 0 .. a - 1
      /\ g % b \in 0 .. b - 1
      /\ g = b * (g \div b) + (g % b)
      /\ Rotated(g, s) = (g % b) * a + (g \div b)
  BY <1>1, RotatedParts
<1>3. PICK q, r, t, u : /\ q = h \div b /\ r = h % b /\ t = g \div b /\ u = g % b OBVIOUS
<1>4. /\ q \in 0 .. a - 1 /\ t \in 0 .. a - 1 /\ r \in 0 .. b - 1 /\ u \in 0 .. b - 1
      /\ r * a + q = u * a + t
  BY <1>1, <1>2, <1>3
<1>5. q = t /\ r = u
  <2>1. (r * a + q) % a = q /\ (r * a + q) \div a = r BY <1>4, Combined
  <2>2. (u * a + t) % a = t /\ (u * a + t) \div a = u BY <1>4, Combined
  <2> QED BY <1>4, <2>1, <2>2
<1>6. h = b * q + r /\ g = b * t + u BY <1>1, <1>2, <1>3
<1> QED BY <1>5, <1>6

\* Zero stays zero.
LEMMA RotatedZero ==
  ASSUME NEW s \in 0 .. HashBits
  PROVE  0 \in Words /\ Rotated(0, s) = 0
<1>1. PICK a, b, c : a = TwoTo[HashBits - s] /\ b = TwoTo[s] /\ c = TwoTo[HashBits] OBVIOUS
<1>2. /\ a \in Nat \ {0} /\ b \in Nat \ {0} /\ c \in Nat \ {0} /\ c = PowerOfTwo[HashBits]
  <2>1. HashBits \in 0 .. HashBits BY HashMapAssumption
  <2> QED BY <1>1, <2>1, Sizes
<1>3. 0 * a = 0 /\ 0 % c = 0 /\ 0 \div b = 0 BY <1>2
<1>4. Rotated(0, s) = ((0 * a) % c) + (0 \div b) BY <1>1 DEF Rotated
<1> QED BY <1>2, <1>3, <1>4 DEF Words

\* Put, get and remove compute the same size for the children of a bucket, and
\* it is one an array can have: this is what the root being an even power of
\* two is for.
LEMMA ShiftDown ==
  ASSUME NEW s, ShiftOK(s)
  PROVE  /\ ShiftOK(PutShift(s))
         /\ PutShift(s) = GetShift(s)
<1>1. s \in 4 .. HashBits /\ s % 2 = 0 /\ HashBits \in Nat
  BY HashMapAssumption DEF ShiftOK, MinShift
<1>2. s - 2 \in Nat /\ 4 \in Nat BY <1>1
<1>3. PICK m : m = Max({s - 2, 4}) OBVIOUS
<1>4. m >= s - 2 /\ m >= 4 /\ m \in {s - 2, 4} BY <1>2, <1>3, GreaterOfTwo
<1>5. PutShift(s) = m BY <1>3 DEF PutShift, MinShift
<1>6. m = IF s > 4 THEN s - 2 ELSE s BY <1>1, <1>4
<1>7. m \in 4 .. HashBits /\ m % 2 = 0 BY <1>1, <1>6
<1> QED BY <1>5, <1>6, <1>7 DEF ShiftOK, MinShift, GetShift

\* The levels of a search for hash h in a map whose root array has size_shift s
Path(s, h) ==
  LET level[d \in Nat] ==
        IF d = 0
        THEN [array |-> Root, shift |-> s, hash |-> h]
        ELSE LET up == level[d - 1] IN
             [ array |-> Bucket(up),
               shift |-> PutShift(up.shift),
               hash  |-> Rotated(up.hash, up.shift) ]
  IN  level

\* What the search looks at on the d-th level
Level(s, h, d) == Path(s, h)[d]

\* What a level is
IsLevel(l) ==
  /\ l = [array |-> l.array, shift |-> l.shift, hash |-> l.hash]
  /\ l.array \in Seq(Nat)
  /\ ShiftOK(l.shift)
  /\ l.hash \in Words

\* The level below level l
Below(l) == [ array |-> Bucket(l),
              shift |-> PutShift(l.shift),
              hash  |-> Rotated(l.hash, l.shift) ]

\* A size_shift is no more than the bits of a hash.
LEMMA ShiftBits ==
  ASSUME NEW s, ShiftOK(s)
  PROVE  s \in 0 .. HashBits /\ s \in Nat
BY HashMapAssumption DEF ShiftOK, MinShift

\* The name of a bucket is the name of its array with its index in it, which is
\* inside the array.
LEMMA BucketProperties ==
  ASSUME NEW l, IsLevel(l)
  PROVE  /\ Bucket(l) \in Seq(Nat)
         /\ Len(Bucket(l)) = Len(l.array) + 1
         /\ ArrayOf(Bucket(l)) = l.array
         /\ IndexOf(Bucket(l)) = l.hash % TwoTo[l.shift]
         /\ l.hash % TwoTo[l.shift] \in Nat
         /\ l.hash % TwoTo[l.shift] < TwoTo[l.shift]
         /\ \A i \in 1 .. Len(l.array) : Bucket(l)[i] = l.array[i]
<1>1. l.shift \in 0 .. HashBits BY ShiftBits DEF IsLevel
<1>2. PICK t, i, a : t = TwoTo[l.shift] /\ i = l.hash % t /\ a = l.array OBVIOUS
<1>3. t \in Nat \ {0} BY <1>1, <1>2, Sizes
<1>4. i \in Nat /\ i < t BY <1>2, <1>3 DEF IsLevel, Words
<1>5. a \in Seq(Nat) BY <1>2 DEF IsLevel
<1>6. PICK b : b = Append(a, i) OBVIOUS
<1>7. /\ b \in Seq(Nat) /\ Len(b) = Len(a) + 1 /\ b[Len(a) + 1] = i
      /\ \A j \in 1 .. Len(a) : b[j] = a[j]
  BY <1>4, <1>5, <1>6
<1>8. SubSeq(b, 1, Len(b) - 1) = a
  <2>1. Len(b) - 1 = Len(a) /\ Len(a) \in Nat BY <1>5, <1>7
  <2>2. SubSeq(b, 1, Len(a)) \in Seq(Nat) /\ Len(SubSeq(b, 1, Len(a))) = Len(a)
    BY <1>7, <2>1
  <2>3. \A j \in 1 .. Len(a) : SubSeq(b, 1, Len(a))[j] = a[j] BY <1>7, <2>1
  <2> QED BY <1>5, <2>1, <2>2, <2>3, SeqEqual
<1>9. Bucket(l) = b BY <1>2, <1>6 DEF Bucket
<1> QED BY <1>2, <1>4, <1>7, <1>8, <1>9 DEF ArrayOf, IndexOf

\* Below a level there is a level.
LEMMA BelowIsLevel ==
  ASSUME NEW l, IsLevel(l)
  PROVE  IsLevel(Below(l))
<1>1. l.shift \in 0 .. HashBits /\ ShiftOK(l.shift) BY ShiftBits DEF IsLevel
<1>2. ShiftOK(PutShift(l.shift)) BY <1>1, ShiftDown
<1>3. Rotated(l.hash, l.shift) \in Words BY <1>1, RotatedType DEF IsLevel
<1>4. Bucket(l) \in Seq(Nat) BY BucketProperties
<1> QED BY <1>2, <1>3, <1>4 DEF IsLevel, Below

\* At the top there is a level.
LEMMA RootIsLevel ==
  ASSUME NEW s, ShiftOK(s), NEW h \in Words
  PROVE  IsLevel([array |-> Root, shift |-> s, hash |-> h])
<1>1. << >> \in Seq(Nat) OBVIOUS
<1> QED BY <1>1 DEF IsLevel, Root

\* Path is the function its recursive definition says it is.
LEMMA PathEquation ==
  ASSUME NEW s, ShiftOK(s), NEW h \in Words
  PROVE  /\ Path(s, h) = [d \in Nat |->
              IF d = 0 THEN [array |-> Root, shift |-> s, hash |-> h]
              ELSE Below(Path(s, h)[d - 1])]
         /\ \A d \in Nat : IsLevel(Level(s, h, d))
         /\ Level(s, h, 0) = [array |-> Root, shift |-> s, hash |-> h]
         /\ \A d \in Nat : Level(s, h, d + 1) = Below(Level(s, h, d))
<1> DEFINE root == [array |-> Root, shift |-> s, hash |-> h]
           A == {l \in [array : Seq(Nat), shift : Nat, hash : Words] : IsLevel(l)}
           G == [l \in A |-> Below(l)]
<1>1. \A l : l \in A <=> IsLevel(l)
  <2>1. ASSUME NEW l, IsLevel(l) PROVE l \in A
    <3>1. l.shift \in Nat BY <2>1, ShiftBits DEF IsLevel
    <3>2. l \in [array : Seq(Nat), shift : Nat, hash : Words] BY <2>1, <3>1 DEF IsLevel
    <3> QED BY <2>1, <3>2
  <2> QED BY <2>1
<1> HIDE DEF A
<1>2. \A l \in A : Below(l) \in A BY <1>1, BelowIsLevel
<1>3. G \in [A -> A] /\ \A l \in A : G[l] = Below(l) BY <1>2
<1>4. root \in A BY <1>1, RootIsLevel
<1> HIDE DEF G, root
<1>5. PICK f \in [Nat -> A] : f[0] = root /\ \A n \in Nat : f[n + 1] = G[f[n]]
  <2>1. G \in [A -> A] BY <1>3
  <2>2. root \in A BY <1>4
  <2> QED BY <2>1, <2>2, Iteration
<1>6. f = [d \in Nat |-> IF d = 0 THEN root ELSE Below(f[d - 1])]
  <2>1. ASSUME NEW n \in Nat PROVE f[n] = IF n = 0 THEN root ELSE Below(f[n - 1])
    <3>1. CASE n = 0 BY <3>1, <1>5
    <3>2. CASE n # 0
      <4>1. n - 1 \in Nat /\ (n - 1) + 1 = n BY <3>2
      <4>2. f[(n - 1) + 1] = G[f[n - 1]] BY <4>1, <1>5
      <4>3. f[n - 1] \in A BY <4>1
      <4> QED BY <4>1, <4>2, <4>3, <1>3, <3>2
    <3> QED BY <3>1, <3>2
  <2> QED BY <2>1
<1>7. Path(s, h) = [d \in Nat |-> IF d = 0 THEN root ELSE Below(Path(s, h)[d - 1])]
  <2>1. f = [d \in Nat |-> IF d = 0 THEN [array |-> Root, shift |-> s, hash |-> h]
                           ELSE [ array |-> Bucket(f[d - 1]),
                                  shift |-> PutShift(f[d - 1].shift),
                                  hash  |-> Rotated(f[d - 1].hash, f[d - 1].shift) ]]
    BY Zenon, <1>6 DEF Below, root
  <2> QED BY Zenon, <2>1 DEF Path, Below, root
<1> DEFINE p == Path(s, h)
<1>8. p = [d \in Nat |-> IF d = 0 THEN root ELSE Below(p[d - 1])] BY <1>7
<1> HIDE DEF p
<1>9. p[0] = root /\ \A d \in Nat : p[d + 1] = Below(p[d])
  <2>1. p[0] = root BY <1>8
  <2>2. ASSUME NEW n \in Nat PROVE p[n + 1] = Below(p[n])
    <3>1. n + 1 \in Nat /\ n + 1 # 0 /\ (n + 1) - 1 = n OBVIOUS
    <3> QED BY <1>8, <3>1
  <2> QED BY <2>1, <2>2
<1>10. \A d \in Nat : IsLevel(p[d])
  <2> DEFINE T == {n \in Nat : IsLevel(p[n])}
  <2>1. 0 \in T BY <1>9, <1>4, <1>1
  <2>2. \A n \in Nat : n \in T => n + 1 \in T BY <1>9, BelowIsLevel
  <2> HIDE DEF T
  <2>3. Nat \subseteq T BY <2>1, <2>2, Induction
  <2> QED BY <2>3 DEF T
<1> QED BY <1>7, <1>9, <1>10 DEF p, root, Level

\* The search begins at the root, with the hash as it is.
LEMMA LevelBegins ==
  ASSUME NEW s, ShiftOK(s), NEW h \in Words
  PROVE  /\ Level(s, h, 0).array = Root
         /\ Level(s, h, 0).shift = s
         /\ Level(s, h, 0).hash = h
<1>1. Level(s, h, 0) = [array |-> Root, shift |-> s, hash |-> h] BY PathEquation
<1> QED BY <1>1

\* The search goes on to the children of the bucket, with the hash rotated.
LEMMA LevelSteps ==
  ASSUME NEW s, ShiftOK(s), NEW h \in Words, NEW d \in Nat
  PROVE  /\ IsLevel(Level(s, h, d))
         /\ Level(s, h, d + 1).array = Bucket(Level(s, h, d))
         /\ Level(s, h, d + 1).shift = PutShift(Level(s, h, d).shift)
         /\ Level(s, h, d + 1).hash = Rotated(Level(s, h, d).hash, Level(s, h, d).shift)
<1>1. \A n \in Nat : IsLevel(Level(s, h, n)) /\ Level(s, h, n + 1) = Below(Level(s, h, n))
  BY PathEquation
<1>2. IsLevel(Level(s, h, d)) /\ Level(s, h, d + 1) = Below(Level(s, h, d)) BY <1>1
<1> QED BY <1>2 DEF Below

\* The name of the array on the d-th level has d indices.
LEMMA PathLength ==
  ASSUME NEW s, ShiftOK(s), NEW h \in Words, NEW d \in Nat
  PROVE  Len(Level(s, h, d).array) = d
<1> DEFINE T == {n \in Nat : Len(Level(s, h, n).array) = n}
<1>1. 0 \in T
  <2>1. Len(<< >>) = 0 OBVIOUS
  <2> QED BY <2>1, LevelBegins DEF Root
<1>2. ASSUME NEW n \in Nat, n \in T PROVE n + 1 \in T
  <2>1. Level(s, h, n + 1).array = Bucket(Level(s, h, n)) /\ IsLevel(Level(s, h, n))
    BY LevelSteps
  <2>2. Len(Level(s, h, n + 1).array) = n + 1 BY <1>2, <2>1, BucketProperties
  <2> QED BY <2>2
<1> HIDE DEF T
<1>3. Nat \subseteq T BY <1>1, <1>2, Induction
<1> QED BY <1>3 DEF T

\* The size of an array depends on its depth only.
LEMMA SameShifts ==
  ASSUME NEW s, ShiftOK(s), NEW h \in Words, NEW g \in Words, NEW d \in Nat
  PROVE  Level(s, h, d).shift = Level(s, g, d).shift
<1> DEFINE T == {n \in Nat : Level(s, h, n).shift = Level(s, g, n).shift}
<1>1. 0 \in T BY LevelBegins
<1>2. ASSUME NEW n \in Nat, n \in T PROVE n + 1 \in T
  <2>1. /\ Level(s, h, n + 1).shift = PutShift(Level(s, h, n).shift)
        /\ Level(s, g, n + 1).shift = PutShift(Level(s, g, n).shift)
    BY LevelSteps
  <2> QED BY <1>2, <2>1
<1> HIDE DEF T
<1>3. Nat \subseteq T BY <1>1, <1>2, Induction
<1> QED BY <1>3 DEF T

\* Two hashes are different on every level.
LEMMA PathInjective ==
  ASSUME NEW s, ShiftOK(s), NEW h \in Words, NEW g \in Words, NEW d \in Nat,
         Level(s, h, d).hash = Level(s, g, d).hash
  PROVE  h = g
<1> DEFINE T == {n \in Nat : Level(s, h, n).hash = Level(s, g, n).hash => h = g}
<1>1. 0 \in T BY LevelBegins
<1>2. ASSUME NEW n \in Nat, n \in T PROVE n + 1 \in T
  <2>1. /\ Level(s, h, n + 1).hash = Rotated(Level(s, h, n).hash, Level(s, h, n).shift)
        /\ Level(s, g, n + 1).hash = Rotated(Level(s, g, n).hash, Level(s, g, n).shift)
    BY LevelSteps
  <2>2. /\ Level(s, h, n).hash \in Words /\ Level(s, g, n).hash \in Words
        /\ ShiftOK(Level(s, h, n).shift)
    BY LevelSteps DEF IsLevel
  <2>3. Level(s, h, n).shift \in 0 .. HashBits BY <2>2, ShiftBits
  <2>4. Level(s, h, n).shift = Level(s, g, n).shift BY SameShifts
  <2>5. Level(s, h, n + 1).hash = Level(s, g, n + 1).hash
          => Level(s, h, n).hash = Level(s, g, n).hash
    BY <2>1, <2>2, <2>3, <2>4, RotatedInjective
  <2> QED BY <1>2, <2>5
<1> HIDE DEF T
<1>3. Nat \subseteq T BY <1>1, <1>2, Induction
<1> QED BY <1>3 DEF T

\* A hash that is not zero is not zero on any level, so that its bucket is
\* never taken for a free one.
LEMMA PathNonzero ==
  ASSUME NEW s, ShiftOK(s), NEW h \in Words, h # 0, NEW d \in Nat
  PROVE  Level(s, h, d).hash # 0
<1>0. 0 \in Words
  <2>1. s \in 0 .. HashBits BY ShiftBits
  <2> QED BY <2>1, RotatedZero
<1> DEFINE T == {n \in Nat : Level(s, 0, n).hash = 0}
<1>1. 0 \in T BY <1>0, LevelBegins
<1>2. ASSUME NEW n \in Nat, n \in T PROVE n + 1 \in T
  <2>1. Level(s, 0, n + 1).hash = Rotated(Level(s, 0, n).hash, Level(s, 0, n).shift)
    BY <1>0, LevelSteps
  <2>2. ShiftOK(Level(s, 0, n).shift) BY <1>0, LevelSteps DEF IsLevel
  <2>3. Level(s, 0, n).shift \in 0 .. HashBits BY <2>2, ShiftBits
  <2> QED BY <1>2, <2>1, <2>3, RotatedZero
<1> HIDE DEF T
<1>3. Nat \subseteq T BY <1>1, <1>2, Induction
<1>4. Level(s, 0, d).hash = 0 BY <1>3 DEF T
<1> QED BY <1>0, <1>4, PathInjective

\* What put looks at
LEMMA PutSearchIsPath == \A h : PutSearch(h) = Path(shift, h)
BY Zenon DEF PutSearch, Search, Path

\* Get and remove look at what put looks at.
LEMMA GetSearchIsPath ==
  ASSUME ShiftOK(shift), NEW h \in Words
  PROVE  \A d \in Nat : GetSearch(h)[d] = Level(shift, h, d)
<1> DEFINE root == [array |-> Root, shift |-> shift, hash |-> h]
           Onward(l) == [ array |-> Bucket(l),
                         shift |-> GetShift(l.shift),
                         hash  |-> Rotated(l.hash, l.shift) ]
           p == [d \in Nat |-> Level(shift, h, d)]
           q == GetSearch(h)
<1>1. \A d \in Nat : /\ IsLevel(Level(shift, h, d))
                     /\ Level(shift, h, d + 1) = Below(Level(shift, h, d))
  BY PathEquation
<1>2. Level(shift, h, 0) = root BY PathEquation
<1>3. \A d \in Nat : Below(Level(shift, h, d)) = Onward(Level(shift, h, d))
  <2>1. ASSUME NEW d \in Nat PROVE Below(Level(shift, h, d)) = Onward(Level(shift, h, d))
    <3>1. ShiftOK(Level(shift, h, d).shift) BY <1>1 DEF IsLevel
    <3>2. PutShift(Level(shift, h, d).shift) = GetShift(Level(shift, h, d).shift)
      BY <3>1, ShiftDown
    <3> QED BY <3>2 DEF Below
  <2> QED BY <2>1
<1> HIDE DEF root, Onward
<1>4. p = [d \in Nat |-> IF d = 0 THEN root ELSE Onward(p[d - 1])]
  <2>1. ASSUME NEW n \in Nat
        PROVE  p[n] = IF n = 0 THEN root ELSE Onward(p[n - 1])
    <3>1. CASE n = 0 BY <3>1, <1>2
    <3>2. CASE n # 0
      <4>1. n - 1 \in Nat /\ (n - 1) + 1 = n BY <3>2
      <4>2. Level(shift, h, (n - 1) + 1) = Onward(Level(shift, h, n - 1))
        BY <4>1, <1>1, <1>3
      <4> QED BY <4>1, <4>2, <3>2
    <3> QED BY <3>1, <3>2
  <2> QED BY <2>1
<1> HIDE DEF p
<1>5. q = [d \in Nat |-> IF d = 0 THEN root ELSE Onward(q[d - 1])]
  <2>1. p = [d \in Nat |-> IF d = 0 THEN [array |-> Root, shift |-> shift, hash |-> h]
                           ELSE [ array |-> Bucket(p[d - 1]),
                                  shift |-> GetShift(p[d - 1].shift),
                                  hash  |-> Rotated(p[d - 1].hash, p[d - 1].shift) ]]
    BY Zenon, <1>4 DEF Onward, root
  <2> QED BY Zenon, <2>1 DEF GetSearch, Search, Onward, root
<1> HIDE DEF q
<1>6. p[0] = q[0] BY <1>4, <1>5
<1>7. ASSUME NEW n \in Nat, p[n] = q[n] PROVE p[n + 1] = q[n + 1]
  <2>1. n + 1 \in Nat /\ n + 1 # 0 /\ (n + 1) - 1 = n OBVIOUS
  <2>2. p[n + 1] = Onward(p[n]) BY <2>1, <1>4
  <2>3. q[n + 1] = Onward(q[n]) BY <2>1, <1>5
  <2> QED BY <2>2, <2>3, <1>7
<1> DEFINE T == {n \in Nat : p[n] = q[n]}
<1>8. 0 \in T BY <1>6
<1>9. \A n \in Nat : n \in T => n + 1 \in T BY <1>7
<1> HIDE DEF T
<1>10. Nat \subseteq T BY <1>8, <1>9, Induction
<1>11. \A n \in Nat : p[n] = q[n] BY <1>10 DEF T
<1> QED BY <1>11 DEF p, q

\* The sizes that put allocates arrays of, by their depth
SizesDown(s) ==
  LET size[d \in Nat] == IF d = 0 THEN s ELSE PutShift(size[d - 1])
  IN  size

\* They are the sizes the search goes by.
LEMMA SizesDownAreShifts ==
  ASSUME NEW s, ShiftOK(s), NEW h \in Words
  PROVE  \A d \in Nat : SizesDown(s)[d] = Level(s, h, d).shift
<1> DEFINE p == [d \in Nat |-> Level(s, h, d).shift]
           q == SizesDown(s)
<1>1. p = [d \in Nat |-> IF d = 0 THEN s ELSE PutShift(p[d - 1])]
  <2>1. ASSUME NEW n \in Nat
        PROVE  p[n] = IF n = 0 THEN s ELSE PutShift(p[n - 1])
    <3>1. CASE n = 0 BY <3>1, LevelBegins
    <3>2. CASE n # 0
      <4>1. n - 1 \in Nat /\ (n - 1) + 1 = n BY <3>2
      <4>2. Level(s, h, (n - 1) + 1).shift = PutShift(Level(s, h, n - 1).shift)
        BY <4>1, LevelSteps
      <4> QED BY <4>1, <4>2, <3>2
    <3> QED BY <3>1, <3>2
  <2> QED BY <2>1
<1> HIDE DEF p
<1>2. q = [d \in Nat |-> IF d = 0 THEN s ELSE PutShift(q[d - 1])]
  BY Zenon, <1>1 DEF SizesDown
<1> HIDE DEF q
<1>3. p[0] = q[0] BY <1>1, <1>2
<1>4. ASSUME NEW n \in Nat, p[n] = q[n] PROVE p[n + 1] = q[n + 1]
  <2>1. n + 1 \in Nat /\ n + 1 # 0 /\ (n + 1) - 1 = n OBVIOUS
  <2>2. p[n + 1] = PutShift(p[n]) BY <2>1, <1>1
  <2>3. q[n + 1] = PutShift(q[n]) BY <2>1, <1>2
  <2> QED BY <2>2, <2>3, <1>4
<1> DEFINE T == {n \in Nat : p[n] = q[n]}
<1>5. 0 \in T BY <1>3
<1>6. \A n \in Nat : n \in T => n + 1 \in T BY <1>4
<1> HIDE DEF T
<1>7. Nat \subseteq T BY <1>5, <1>6, Induction
<1>8. \A n \in Nat : p[n] = q[n] BY <1>7 DEF T
<1> QED BY <1>8 DEF p, q

\* An array was allocated for the size that the search for any hash takes it to
\* have.
LEMMA ArrayShiftIsShift ==
  ASSUME ShiftOK(shift), NEW h \in Words, NEW d \in Nat
  PROVE  ArrayShift(Level(shift, h, d).array) = Level(shift, h, d).shift
<1>1. \A a : ArrayShift(a) = SizesDown(shift)[Len(a)]
  BY Zenon DEF ArrayShift, SizesDown
<1>2. Len(Level(shift, h, d).array) = d BY PathLength
<1>3. SizesDown(shift)[d] = Level(shift, h, d).shift BY SizesDownAreShifts
<1> QED BY <1>1, <1>2, <1>3

\* In a map whose root array has the smallest size, all arrays have it.
LEMMA ShiftOfSmallest ==
  ASSUME NEW h \in Words, ShiftOK(MinShift), NEW d \in Nat
  PROVE  Level(MinShift, h, d).shift = MinShift
<1> DEFINE T == {n \in Nat : Level(MinShift, h, n).shift = MinShift}
<1>1. 0 \in T BY LevelBegins
<1>2. ASSUME NEW n \in Nat, n \in T PROVE n + 1 \in T
  <2>1. Level(MinShift, h, n + 1).shift = PutShift(Level(MinShift, h, n).shift)
    BY LevelSteps
  <2>2. PutShift(MinShift) = MinShift
    <3>1. PutShift(MinShift) = GetShift(MinShift) BY ShiftDown
    <3> QED BY <3>1 DEF GetShift, MinShift
  <2> QED BY <1>2, <2>1, <2>2
<1> HIDE DEF T
<1>3. Nat \subseteq T BY <1>1, <1>2, Induction
<1> QED BY <1>3 DEF T

\* In such a map gp_map_delete visits every array whose indices are those of
\* the smallest array.
LEMMA SmallIsVisited ==
  ASSUME shift = MinShift, NEW a \in Seq(Nat), \A i \in 1 .. Len(a) : a[i] < TwoTo[MinShift]
  PROVE  Visited(a)
<1> DEFINE f == [d \in Nat |-> MinShift]
           size == CHOOSE g : g = [d \in Nat |-> IF d = 0 THEN shift ELSE DeleteShift(g[d - 1])]
<1>1. DeleteShift(MinShift) = MinShift BY DEF DeleteShift, MinShift
<1>2. f = [d \in Nat |-> IF d = 0 THEN shift ELSE DeleteShift(f[d - 1])]
  <2>1. ASSUME NEW n \in Nat
        PROVE  f[n] = IF n = 0 THEN shift ELSE DeleteShift(f[n - 1])
    <3>1. CASE n = 0 BY <3>1
    <3>2. CASE n # 0
      <4>1. n - 1 \in Nat BY <3>2
      <4>2. f[n] = MinShift /\ f[n - 1] = MinShift BY <4>1
      <4> HIDE DEF f
      <4> QED BY <4>2, <1>1, <3>2
    <3> QED BY <3>1, <3>2
  <2> QED BY <2>1
<1> HIDE DEF f
<1>3. size = [d \in Nat |-> IF d = 0 THEN shift ELSE DeleteShift(size[d - 1])]
  BY Zenon, <1>2
<1>4. Visited(a) <=> \A d \in DOMAIN a : a[d] < TwoTo[size[d - 1]]
  BY Zenon DEF Visited
<1> HIDE DEF size
<1>5. size[0] = MinShift BY <1>3
<1>6. ASSUME NEW n \in Nat, size[n] = MinShift PROVE size[n + 1] = MinShift
  <2>1. n + 1 \in Nat /\ n + 1 # 0 /\ (n + 1) - 1 = n OBVIOUS
  <2>2. size[n + 1] = DeleteShift(size[n]) BY <2>1, <1>3
  <2> QED BY <2>2, <1>6, <1>1
<1> DEFINE T == {n \in Nat : size[n] = MinShift}
<1>7. 0 \in T BY <1>5
<1>8. \A n \in Nat : n \in T => n + 1 \in T BY <1>6
<1> HIDE DEF T
<1>9. Nat \subseteq T BY <1>7, <1>8, Induction
<1>10. \A n \in Nat : size[n] = MinShift BY <1>9 DEF T
<1>11. ASSUME NEW d \in DOMAIN a PROVE a[d] < TwoTo[size[d - 1]]
  <2>1. d \in 1 .. Len(a) /\ d - 1 \in Nat OBVIOUS
  <2> QED BY <2>1, <1>10
<1> QED BY <1>4, <1>11

\* What an array other than the root is: the children of a bucket on the way to
\* some hash
IsChild(s, A, a) ==
  \E h \in Hashes, d \in Nat :
    a = Bucket(Level(s, h, d)) /\ Level(s, h, d).array \in A

\* What a bucket in use is: one on the way to the hash it holds
IsSlot(s, A, b, slot) ==
  \E h \in Hashes, d \in Nat :
    /\ b = Bucket(Level(s, h, d)) /\ Level(s, h, d).array \in A
    /\ slot.hash = Level(s, h, d).hash
    /\ slot.value \in Values

\* The buckets in use that hold hash h
HoldersIn(s, S, h) == {b \in DOMAIN S : S[b].hash = Level(s, h, Len(b) - 1).hash}

\* The arrays and the buckets of a map: a tree of arrays, each bucket on the
\* way to the hash in it, and no hash in two buckets
Tree(s, A, S) ==
  /\ ShiftOK(s)
  /\ Root \in A /\ IsFiniteSet(A)
  /\ \A a \in A : a = Root \/ IsChild(s, A, a)
  /\ S = [b \in DOMAIN S |-> S[b]]
  /\ \A b \in DOMAIN S : IsSlot(s, A, b, S[b])
  /\ \A h \in Hashes : \A b, c \in HoldersIn(s, S, h) : b = c

\* The inductive invariant
TreeInv == IF shift = 0 THEN slots = << >> ELSE Tree(shift, arrays, slots)

\* Hashes of keys are hashes.
LEMMA HashesAreWords == Hashes \subseteq Words
BY HashMapAssumption DEF Words

\* Buckets of different depths or in different arrays are different.
LEMMA BucketsDiffer ==
  ASSUME NEW s, ShiftOK(s), NEW h \in Words, NEW g \in Words, NEW d \in Nat, NEW e \in Nat,
         Bucket(Level(s, h, d)) = Bucket(Level(s, g, e))
  PROVE  d = e /\ Level(s, h, d).array = Level(s, g, e).array
<1>1. IsLevel(Level(s, h, d)) /\ IsLevel(Level(s, g, e)) BY LevelSteps
<1>2. /\ Len(Bucket(Level(s, h, d))) = d + 1
      /\ Len(Bucket(Level(s, g, e))) = e + 1
  BY <1>1, BucketProperties, PathLength
<1>3. /\ ArrayOf(Bucket(Level(s, h, d))) = Level(s, h, d).array
      /\ ArrayOf(Bucket(Level(s, g, e))) = Level(s, g, e).array
  BY <1>1, BucketProperties
<1> QED BY <1>2, <1>3

\* An array on the way of a search that is in the tree hangs off one that is.
LEMMA ParentArray ==
  ASSUME NEW s, NEW A, NEW S, Tree(s, A, S), NEW h \in Words, NEW d \in Nat,
         Level(s, h, d + 1).array \in A
  PROVE  Level(s, h, d).array \in A
<1>1. Level(s, h, d + 1).array = Bucket(Level(s, h, d)) /\ IsLevel(Level(s, h, d))
  BY LevelSteps DEF Tree
<1>2. Bucket(Level(s, h, d)) # Root
  <2>1. Len(Bucket(Level(s, h, d))) = d + 1 BY <1>1, BucketProperties, PathLength DEF Tree
  <2>2. Len(<< >>) = 0 OBVIOUS
  <2> QED BY <2>1, <2>2 DEF Root
<1>3. PICK g \in Hashes, e \in Nat :
        Bucket(Level(s, h, d)) = Bucket(Level(s, g, e)) /\ Level(s, g, e).array \in A
  BY <1>1, <1>2 DEF Tree, IsChild
<1>4. Level(s, h, d).array = Level(s, g, e).array
  BY <1>3, BucketsDiffer, HashesAreWords DEF Tree
<1> QED BY <1>3, <1>4

\* So does the whole way to it.
LEMMA PathInTree ==
  ASSUME NEW s, NEW A, NEW S, Tree(s, A, S), NEW h \in Words, NEW d \in Nat,
         Level(s, h, d).array \in A
  PROVE  \A e \in 0 .. d : Level(s, h, e).array \in A
<1> DEFINE T == {k \in Nat : k <= d => Level(s, h, d - k).array \in A}
<1>1. 0 \in T
  <2>1. d - 0 = d OBVIOUS
  <2> QED BY <2>1
<1>2. ASSUME NEW k \in Nat, k \in T PROVE k + 1 \in T
  <2>1. CASE k + 1 <= d
    <3>1. d - (k + 1) \in Nat /\ (d - (k + 1)) + 1 = d - k /\ k <= d BY <2>1
    <3>2. Level(s, h, (d - (k + 1)) + 1).array \in A BY <1>2, <3>1
    <3>3. Level(s, h, d - (k + 1)).array \in A BY <3>1, <3>2, ParentArray
    <3> QED BY <3>3
  <2>2. CASE ~ (k + 1 <= d) BY <2>2
  <2> QED BY <2>1, <2>2
<1> HIDE DEF T
<1>3. Nat \subseteq T BY <1>1, <1>2, Induction
<1>4. ASSUME NEW e \in 0 .. d PROVE Level(s, h, e).array \in A
  <2>1. d - e \in Nat /\ d - e <= d /\ d - (d - e) = e OBVIOUS
  <2>2. d - e \in T BY <1>3, <2>1
  <2> QED BY <2>1, <2>2 DEF T
<1> QED BY <1>4

\* A search that gets to depth d has d + 1 arrays on its way, so there are as
\* many: no search is longer than there are arrays.
LEMMA DepthIsBounded ==
  ASSUME NEW s, NEW A, NEW S, Tree(s, A, S), NEW h \in Words, NEW d \in Nat,
         Level(s, h, d).array \in A
  PROVE  d < Cardinality(A) /\ Cardinality(A) \in Nat
<1> DEFINE f == [i \in 0 .. d |-> Level(s, h, i).array]
<1>1. \A i \in 0 .. d : f[i] \in A /\ Len(f[i]) = i
  BY PathInTree, PathLength DEF Tree
<1>2. f \in Injection(0 .. d, A)
  <2>1. f \in [0 .. d -> A] BY <1>1
  <2>2. \A i, j \in 0 .. d : f[i] = f[j] => i = j BY <1>1
  <2> HIDE DEF f
  <2> QED BY <2>1, <2>2 DEF Injection, IsInjective
<1> HIDE DEF f
<1>3. IsFiniteSet(A) BY DEF Tree
<1>4. Cardinality(0 .. d) <= Cardinality(A) BY <1>2, <1>3, FS_Injection
<1>5. Cardinality(0 .. d) = d + 1
  <2>1. 0 \in Int /\ d \in Int /\ ~ (0 > d) /\ d - 0 + 1 = d + 1 OBVIOUS
  <2> QED BY <2>1, FS_Interval
<1>6. Cardinality(A) \in Nat BY <1>3, FS_CardinalityType
<1> QED BY <1>4, <1>5, <1>6

\* A bucket that holds a hash is on the way to this hash.
LEMMA SlotOfHolder ==
  ASSUME NEW s, NEW A, NEW S, Tree(s, A, S), NEW h \in Words, NEW b \in HoldersIn(s, S, h)
  PROVE  \E d \in Nat :
           /\ b = Bucket(Level(s, h, d)) /\ Level(s, h, d).array \in A
           /\ S[b].hash = Level(s, h, d).hash
           /\ S[b].value \in Values
<1>1. PICK g \in Hashes, d \in Nat :
           /\ b = Bucket(Level(s, g, d)) /\ Level(s, g, d).array \in A
           /\ S[b].hash = Level(s, g, d).hash
           /\ S[b].value \in Values
  BY DEF Tree, HoldersIn, IsSlot
<1>2. g \in Words BY HashesAreWords
<1>3. Len(b) - 1 = d
  <2>1. IsLevel(Level(s, g, d)) /\ Len(Level(s, g, d).array) = d
    BY <1>2, LevelSteps, PathLength DEF Tree
  <2>2. Len(b) = d + 1 BY <1>1, <2>1, BucketProperties
  <2> QED BY <2>2
<1>4. Level(s, g, d).hash = Level(s, h, d).hash BY <1>1, <1>3 DEF HoldersIn
<1>5. g = h BY <1>2, <1>4, PathInjective DEF Tree
<1> QED BY <1>1, <1>5

\* A bucket on the way to a hash that has it in its hash field holds it.
LEMMA HolderIsSlot ==
  ASSUME NEW s, NEW S, ShiftOK(s), NEW h \in Words, NEW d \in Nat,
         Bucket(Level(s, h, d)) \in DOMAIN S,
         S[Bucket(Level(s, h, d))].hash = Level(s, h, d).hash
  PROVE  Bucket(Level(s, h, d)) \in HoldersIn(s, S, h)
<1>1. IsLevel(Level(s, h, d)) /\ Len(Level(s, h, d).array) = d BY LevelSteps, PathLength
<1>2. Len(Bucket(Level(s, h, d))) = d + 1 BY <1>1, BucketProperties
<1>3. Len(Bucket(Level(s, h, d))) - 1 = d BY <1>2
<1> QED BY <1>3 DEF HoldersIn

\* gp_assert(hash != 0, "Invalid hash.")
NoZeroHash == 0 \notin Hashes

\* The hash field of a bucket is zero if and only if it is not in use.
LEMMA FreeIsNoSlot ==
  ASSUME NoZeroHash, Tree(shift, arrays, slots), NEW b
  PROVE  HashIn(b) = 0 <=> b \notin DOMAIN slots
<1>1. ASSUME b \in DOMAIN slots PROVE HashIn(b) # 0
  <2>1. PICK h \in Hashes, d \in Nat : slots[b].hash = Level(shift, h, d).hash
    BY <1>1 DEF Tree, IsSlot
  <2>2. h \in Words /\ h # 0 BY HashesAreWords DEF NoZeroHash
  <2>3. Level(shift, h, d).hash # 0 BY <2>2, PathNonzero DEF Tree
  <2> QED BY <1>1, <2>1, <2>3 DEF HashIn
<1>2. ASSUME b \notin DOMAIN slots PROVE HashIn(b) = 0
  BY <1>2 DEF HashIn
<1> QED BY <1>1, <1>2

\* Holders, with the state as parameters
LEMMA HoldersAreHoldersIn ==
  /\ \A h : Holders(h) = HoldersIn(shift, slots, h)
  /\ \A h : Holders(h)' = HoldersIn(shift', slots', h)
<1>1. \A h : PutSearch(h) = Path(shift, h) BY PutSearchIsPath
<1>2. \A h : PutSearch(h)' = Path(shift', h) BY Zenon DEF PutSearch, Search, Path
<1>3. \A h : Holders(h) = HoldersIn(shift, slots, h)
  BY <1>1 DEF Holders, HoldersIn, Level
<1>4. \A h : Holders(h)' = HoldersIn(shift', slots', h)
  BY <1>2 DEF Holders, HoldersIn, Level
<1> QED BY <1>3, <1>4

\* Put stops at an array of the tree, at a bucket that is free or without
\* children.
LEMMA PutStopsAt ==
  ASSUME NoZeroHash, Tree(shift, arrays, slots), NEW h \in Words
  PROVE  LET d == PutDepth(h) IN
         /\ d \in Nat
         /\ Level(shift, h, d).array \in arrays
         /\ \/ Bucket(Level(shift, h, d)) \notin DOMAIN slots
            \/ Bucket(Level(shift, h, d)) \notin arrays
<1> DEFINE D == {d \in Depths : PutStops(Level(shift, h, d))}
           n == Cardinality(arrays)
<1>0. n \in Nat BY FS_CardinalityType DEF Tree
<1>1. PutDepth(h) = Min(D)
  BY PutSearchIsPath DEF PutDepth, Level
<1>2. n \in D
  <2>1. Bucket(Level(shift, h, n)) \notin arrays
    <3>1. SUFFICES ASSUME Bucket(Level(shift, h, n)) \in arrays PROVE FALSE OBVIOUS
    <3>2. Level(shift, h, n + 1).array \in arrays BY <1>0, <3>1, LevelSteps DEF Tree
    <3>3. n + 1 < n BY <1>0, <3>2, DepthIsBounded
    <3> QED BY <1>0, <3>3
  <2> QED BY <1>0, <2>1 DEF Depths, PutStops
<1>3. D \subseteq Nat BY <1>0 DEF Depths
<1> HIDE DEF D, n
<1>4. PICK d : d = PutDepth(h) OBVIOUS
<1>5. d \in D /\ d \in Nat /\ \A e \in D : d <= e
  <2>1. D # {} BY <1>2
  <2>2. Min(D) \in D /\ \A e \in D : Min(D) <= e BY <1>3, <2>1, MinIsLeast
  <2> QED BY <1>1, <1>3, <1>4, <2>2
<1>6. Level(shift, h, d).array \in arrays
  <2>1. CASE d = 0
    <3>1. Level(shift, h, 0).array = Root BY LevelBegins DEF Tree
    <3> QED BY <2>1, <3>1 DEF Tree
  <2>2. CASE d # 0
    <3>1. d - 1 \in Nat /\ (d - 1) + 1 = d /\ ~ (d <= d - 1) BY <1>5, <2>2
    <3>2. d - 1 \notin D BY <1>5, <3>1
    <3>3. d - 1 \in Depths BY <1>0, <1>5, <3>1 DEF D, Depths, n
    <3>4. Bucket(Level(shift, h, d - 1)) \in arrays BY <3>2, <3>3 DEF D, PutStops
    <3>5. Level(shift, h, (d - 1) + 1).array = Bucket(Level(shift, h, d - 1))
      BY <3>1, LevelSteps DEF Tree
    <3> QED BY <3>1, <3>4, <3>5
  <2> QED BY <2>1, <2>2
<1>7. \/ Bucket(Level(shift, h, d)) \notin DOMAIN slots
      \/ Bucket(Level(shift, h, d)) \notin arrays
  BY <1>5, FreeIsNoSlot DEF D, PutStops
<1> QED BY <1>4, <1>5, <1>6, <1>7

\* A place for a new element: a bucket that is free, in an array that is there,
\* or in the children of a bucket that is in one
Place(s, A, S, h, d) ==
  /\ Bucket(Level(s, h, d)) \notin DOMAIN S
  /\ \/ Level(s, h, d).array \in A
     \/ /\ d # 0 /\ Level(s, h, d).array \notin A
        /\ Level(s, h, d - 1).array \in A

\* Put finds a place.
LEMMA PutPlace ==
  ASSUME NoZeroHash, Tree(shift, arrays, slots), NEW h \in Words
  PROVE  \E d \in Nat :
           PutLevel(h) = Level(shift, h, d) /\ Place(shift, arrays, slots, h, d)
<1>1. PICK d : d = PutDepth(h) OBVIOUS
<1>2. /\ d \in Nat
      /\ Level(shift, h, d).array \in arrays
      /\ \/ Bucket(Level(shift, h, d)) \notin DOMAIN slots
         \/ Bucket(Level(shift, h, d)) \notin arrays
  BY <1>1, PutStopsAt
<1>3. PutLevel(h) = IF HashIn(Bucket(Level(shift, h, d))) = 0
                    THEN Level(shift, h, d) ELSE Level(shift, h, d + 1)
  BY <1>1, PutSearchIsPath DEF PutLevel, Level
<1>4. CASE Bucket(Level(shift, h, d)) \notin DOMAIN slots
  <2>1. PutLevel(h) = Level(shift, h, d) BY <1>3, <1>4, FreeIsNoSlot
  <2> QED BY <1>2, <1>4, <2>1 DEF Place
<1>5. CASE Bucket(Level(shift, h, d)) \in DOMAIN slots
  <2>1. PutLevel(h) = Level(shift, h, d + 1) BY <1>3, <1>5, FreeIsNoSlot
  <2>2. Level(shift, h, d + 1).array = Bucket(Level(shift, h, d)) BY <1>2, LevelSteps DEF Tree
  <2>3. Level(shift, h, d + 1).array \notin arrays BY <1>2, <1>5, <2>2
  <2>4. d + 1 \in Nat /\ d + 1 # 0 /\ (d + 1) - 1 = d BY <1>2
  <2>5. Bucket(Level(shift, h, d + 1)) \notin DOMAIN slots
    <3>1. SUFFICES ASSUME Bucket(Level(shift, h, d + 1)) \in DOMAIN slots PROVE FALSE OBVIOUS
    <3>2. PICK g \in Hashes, e \in Nat :
            /\ Bucket(Level(shift, h, d + 1)) = Bucket(Level(shift, g, e))
            /\ Level(shift, g, e).array \in arrays
      BY <3>1 DEF Tree, IsSlot
    <3>3. g \in Words BY HashesAreWords
    <3>4. Level(shift, h, d + 1).array = Level(shift, g, e).array
      BY <2>4, <3>2, <3>3, BucketsDiffer DEF Tree
    <3> QED BY <2>3, <3>2, <3>4
  <2>6. Place(shift, arrays, slots, h, d + 1) BY <1>2, <2>3, <2>4, <2>5 DEF Place
  <2> QED BY <2>1, <2>4, <2>6
<1> QED BY <1>4, <1>5

\* Get stops at the first bucket with the hash in it or without children.
LEMMA GetStopsAt ==
  ASSUME Tree(shift, arrays, slots), NEW h \in Words
  PROVE  \E d \in Nat :
           /\ GetLevel(h) = Level(shift, h, d)
           /\ GetStops(h, Level(shift, h, d))
           /\ \A e \in Nat : e < d => ~ GetStops(h, Level(shift, h, e))
<1> DEFINE D == {d \in Depths : GetStops(h, Level(shift, h, d))}
           E == {d \in Depths : GetStops(h, GetSearch(h)[d])}
           n == Cardinality(arrays)
<1>0. n \in Nat BY FS_CardinalityType DEF Tree
<1>1. D = E
  <2>1. \A d \in Depths : d \in Nat BY <1>0 DEF Depths
  <2>2. \A d \in Nat : GetSearch(h)[d] = Level(shift, h, d) BY GetSearchIsPath DEF Tree
  <2> QED BY <2>1, <2>2
<1>2. GetLevel(h) = GetSearch(h)[Min(E)] BY DEF GetLevel
<1>3. n \in D
  <2>1. Bucket(Level(shift, h, n)) \notin arrays
    <3>1. SUFFICES ASSUME Bucket(Level(shift, h, n)) \in arrays PROVE FALSE OBVIOUS
    <3>2. Level(shift, h, n + 1).array \in arrays BY <1>0, <3>1, LevelSteps DEF Tree
    <3>3. n + 1 < n BY <1>0, <3>2, DepthIsBounded
    <3> QED BY <1>0, <3>3
  <2> QED BY <1>0, <2>1 DEF Depths, GetStops
<1>4. D \subseteq Nat BY <1>0 DEF Depths
<1> HIDE DEF D, E, n
<1>5. PICK d : d = Min(D) OBVIOUS
<1>6. d \in D /\ d \in Nat /\ \A e \in D : d <= e
  <2>1. D # {} BY <1>3
  <2>2. Min(D) \in D /\ \A e \in D : Min(D) <= e BY <1>4, <2>1, MinIsLeast
  <2> QED BY <1>4, <1>5, <2>2
<1>7. GetLevel(h) = Level(shift, h, d)
  <2>1. GetSearch(h)[d] = Level(shift, h, d) BY <1>6, GetSearchIsPath DEF Tree
  <2> QED BY <1>1, <1>2, <1>5, <2>1
<1>8. GetStops(h, Level(shift, h, d)) BY <1>6 DEF D
<1>9. ASSUME NEW e \in Nat, e < d PROVE ~ GetStops(h, Level(shift, h, e))
  <2>1. e \in Depths BY <1>0, <1>6, <1>9 DEF D, Depths, n
  <2>2. ~ (d <= e) BY <1>6, <1>9
  <2> QED BY <1>6, <2>1, <2>2 DEF D
<1> QED BY <1>6, <1>7, <1>8, <1>9

\* Get finds the bucket that holds a hash, if there is one: the buckets above
\* it have children, and do not hold the hash as no two do.
LEMMA GetFindsHolder ==
  ASSUME NoZeroHash, Tree(shift, arrays, slots), NEW h \in Hashes,
         NEW b \in HoldersIn(shift, slots, h)
  PROVE  Bucket(GetLevel(h)) = b /\ HashIn(b) = GetLevel(h).hash
<1>0. h \in Words BY HashesAreWords
<1>1. PICK n \in Nat :
           /\ b = Bucket(Level(shift, h, n)) /\ Level(shift, h, n).array \in arrays
           /\ slots[b].hash = Level(shift, h, n).hash
  BY <1>0, SlotOfHolder
<1>2. PICK d \in Nat :
           /\ GetLevel(h) = Level(shift, h, d)
           /\ GetStops(h, Level(shift, h, d))
           /\ \A e \in Nat : e < d => ~ GetStops(h, Level(shift, h, e))
  BY <1>0, GetStopsAt
<1>3. b \in DOMAIN slots /\ HashIn(b) = Level(shift, h, n).hash
  BY <1>1 DEF HoldersIn, HashIn
<1>4. ~ (n < d) BY <1>1, <1>2, <1>3 DEF GetStops
<1>5. ~ (d < n)
  <2>1. SUFFICES ASSUME d < n PROVE FALSE OBVIOUS
  <2>2. d + 1 \in 0 .. n BY <2>1
  <2>3. Level(shift, h, d + 1).array \in arrays BY <1>0, <1>1, <2>2, PathInTree
  <2>4. Bucket(Level(shift, h, d)) \in arrays BY <1>0, <2>3, LevelSteps DEF Tree
  <2>5. HashIn(Bucket(Level(shift, h, d))) = Level(shift, h, d).hash
    BY <1>2, <2>4 DEF GetStops
  <2>6. Level(shift, h, d).hash # 0 BY <1>0, PathNonzero DEF Tree, NoZeroHash
  <2>7. /\ Bucket(Level(shift, h, d)) \in DOMAIN slots
        /\ slots[Bucket(Level(shift, h, d))].hash = Level(shift, h, d).hash
    BY <2>5, <2>6 DEF HashIn
  <2>8. Bucket(Level(shift, h, d)) \in HoldersIn(shift, slots, h)
    BY <1>0, <2>7, HolderIsSlot DEF Tree
  <2>9. Bucket(Level(shift, h, d)) = b BY <2>8 DEF Tree
  <2>10. d = n BY <1>0, <1>1, <2>9, BucketsDiffer DEF Tree
  <2> QED BY <2>1, <2>10
<1>6. d = n BY <1>4, <1>5
<1> QED BY <1>1, <1>2, <1>3, <1>6

\* Get finds no other.
LEMMA GetFindsNothing ==
  ASSUME NoZeroHash, Tree(shift, arrays, slots), NEW h \in Hashes,
         HoldersIn(shift, slots, h) = {}
  PROVE  HashIn(Bucket(GetLevel(h))) # GetLevel(h).hash
<1>0. h \in Words BY HashesAreWords
<1>1. PICK d \in Nat : GetLevel(h) = Level(shift, h, d) BY <1>0, GetStopsAt
<1>2. SUFFICES ASSUME HashIn(Bucket(Level(shift, h, d))) = Level(shift, h, d).hash PROVE FALSE
  BY <1>1
<1>3. Level(shift, h, d).hash # 0 BY <1>0, PathNonzero DEF Tree, NoZeroHash
<1>4. /\ Bucket(Level(shift, h, d)) \in DOMAIN slots
      /\ slots[Bucket(Level(shift, h, d))].hash = Level(shift, h, d).hash
  BY <1>2, <1>3 DEF HashIn
<1>5. Bucket(Level(shift, h, d)) \in HoldersIn(shift, slots, h)
  BY <1>0, <1>4, HolderIsSlot DEF Tree
<1> QED BY <1>5

\* What get and remove return
LEMMA FoundIs ==
  ASSUME NoZeroHash, Tree(shift, arrays, slots), NEW h \in Hashes
  PROVE  /\ HoldersIn(shift, slots, h) = {} => Found(h) = None
         /\ \A b \in HoldersIn(shift, slots, h) :
              /\ Found(h) = slots[b].value /\ Found(h) # None
              /\ Bucket(GetLevel(h)) = b
<1>1. ASSUME HoldersIn(shift, slots, h) = {} PROVE Found(h) = None
  BY <1>1, GetFindsNothing DEF Found
<1>2. ASSUME NEW b \in HoldersIn(shift, slots, h)
      PROVE  /\ Found(h) = slots[b].value /\ Found(h) # None
             /\ Bucket(GetLevel(h)) = b
  <2>1. Bucket(GetLevel(h)) = b /\ HashIn(b) = GetLevel(h).hash BY GetFindsHolder
  <2>2. b \in DOMAIN slots BY DEF HoldersIn
  <2>3. Found(h) = slots[b].value BY <2>1, <2>2 DEF Found
  <2>4. h \in Words BY HashesAreWords
  <2>5. slots[b].value \in Values BY <2>4, SlotOfHolder
  <2>6. None \notin Values BY HashMapAssumption
  <2> QED BY <2>1, <2>3, <2>5, <2>6
<1> QED BY <1>1, <1>2

\* An empty root array is a tree.
LEMMA NewTree ==
  ASSUME NEW s, ShiftOK(s)
  PROVE  Tree(s, {Root}, << >>)
<1>1. IsFiniteSet({Root}) BY FS_Singleton
<1>2. DOMAIN << >> = {} OBVIOUS
<1>3. << >> = [b \in DOMAIN << >> |-> << >>[b]] OBVIOUS
<1>4. \A h : HoldersIn(s, << >>, h) = {} BY <1>2 DEF HoldersIn
<1> QED BY <1>1, <1>2, <1>3, <1>4 DEF Tree

\* The buckets in use after an element is put
WithBucket(S, l, v) ==
  [b \in DOMAIN S \cup {Bucket(l)} |->
     IF b = Bucket(l) THEN [hash |-> l.hash, value |-> v] ELSE S[b]]

\* Putting an element adds one holder of its hash, and none of another.
LEMMA PutHolders ==
  ASSUME NEW s, NEW A, NEW S, Tree(s, A, S), NEW h \in Hashes, NEW d \in Nat,
         NEW v \in Values, Bucket(Level(s, h, d)) \notin DOMAIN S,
         HoldersIn(s, S, h) = {},
         NEW T, T = WithBucket(S, Level(s, h, d), v)
  PROVE  /\ HoldersIn(s, T, h) = {Bucket(Level(s, h, d))}
         /\ \A g \in Hashes \ {h} : HoldersIn(s, T, g) = HoldersIn(s, S, g)
<1> DEFINE b == Bucket(Level(s, h, d))
<1>1. h \in Words /\ ShiftOK(s) BY HashesAreWords DEF Tree
<1>2. Len(b) - 1 = d
  <2>1. IsLevel(Level(s, h, d)) /\ Len(Level(s, h, d).array) = d BY <1>1, LevelSteps, PathLength
  <2>2. Len(b) = d + 1 BY <2>1, BucketProperties
  <2> QED BY <2>2
<1>3. b \notin DOMAIN S OBVIOUS
<1>4. /\ DOMAIN T = DOMAIN S \cup {b}
      /\ T[b].hash = Level(s, h, d).hash
      /\ \A c \in DOMAIN S : T[c] = S[c]
  BY <1>3 DEF WithBucket
<1> HIDE DEF b
<1>5. b \in HoldersIn(s, T, h) BY <1>2, <1>4 DEF HoldersIn
<1>6. \A g : \A c \in DOMAIN S : c \in HoldersIn(s, T, g) <=> c \in HoldersIn(s, S, g)
  BY <1>4 DEF HoldersIn
<1>7. \A g : HoldersIn(s, T, g) \subseteq DOMAIN S \cup {b} BY <1>4 DEF HoldersIn
<1>8. \A g : HoldersIn(s, S, g) \subseteq DOMAIN S BY DEF HoldersIn
<1>9. HoldersIn(s, T, h) = {b} BY <1>5, <1>6, <1>7
<1>10. ASSUME NEW g \in Hashes, g # h PROVE HoldersIn(s, T, g) = HoldersIn(s, S, g)
  <2>1. b \notin HoldersIn(s, T, g)
    <3>1. SUFFICES ASSUME b \in HoldersIn(s, T, g) PROVE FALSE OBVIOUS
    <3>2. Level(s, h, d).hash = Level(s, g, d).hash BY <1>2, <1>4, <3>1 DEF HoldersIn
    <3>3. g \in Words BY HashesAreWords
    <3>4. h = g BY <1>1, <3>2, <3>3, PathInjective
    <3> QED BY <1>10, <3>4
  <2> QED BY <1>6, <1>7, <1>8, <2>1
<1> QED BY <1>9, <1>10 DEF b

\* Put keeps the tree a tree.
LEMMA PutTree ==
  ASSUME NEW s, NEW A, NEW S, Tree(s, A, S), NEW h \in Hashes, NEW d \in Nat,
         NEW v \in Values, Place(s, A, S, h, d),
         HoldersIn(s, S, h) = {},
         NEW B, B = A \cup {Level(s, h, d).array},
         NEW T, T = WithBucket(S, Level(s, h, d), v)
  PROVE  Tree(s, B, T)
<1> DEFINE b == Bucket(Level(s, h, d))
<1>1. h \in Words /\ ShiftOK(s) BY HashesAreWords DEF Tree
<1>2. /\ HoldersIn(s, T, h) = {b}
      /\ \A g \in Hashes \ {h} : HoldersIn(s, T, g) = HoldersIn(s, S, g)
  BY PutHolders DEF Place
<1>3. Root \in B /\ IsFiniteSet(B) BY FS_AddElement DEF Tree
<1>4. ASSUME NEW a \in B PROVE a = Root \/ IsChild(s, B, a)
  <2>1. CASE a \in A BY <2>1 DEF Tree, IsChild
  <2>2. CASE a \notin A
    <3>1. a = Level(s, h, d).array /\ d # 0 /\ Level(s, h, d - 1).array \in A
      BY <2>2 DEF Place
    <3>2. d - 1 \in Nat /\ (d - 1) + 1 = d BY <3>1
    <3>3. Level(s, h, (d - 1) + 1).array = Bucket(Level(s, h, d - 1)) BY <1>1, <3>2, LevelSteps
    <3>4. a = Bucket(Level(s, h, d - 1)) BY <3>1, <3>2, <3>3
    <3>5. Level(s, h, d - 1).array \in B BY <3>1
    <3> QED BY <3>2, <3>4, <3>5 DEF IsChild
  <2> QED BY <2>1, <2>2
<1>5. /\ DOMAIN T = DOMAIN S \cup {b}
      /\ T = [c \in DOMAIN T |-> T[c]]
  BY DEF WithBucket
<1>6. ASSUME NEW c \in DOMAIN T PROVE IsSlot(s, B, c, T[c])
  <2>1. CASE c = b
    <3>1. T[c] = [hash |-> Level(s, h, d).hash, value |-> v] BY <2>1 DEF WithBucket
    <3>2. Level(s, h, d).array \in B OBVIOUS
    <3>3. T[c].hash = Level(s, h, d).hash /\ T[c].value = v BY <3>1
    <3> QED BY <2>1, <3>2, <3>3 DEF IsSlot
  <2>2. CASE c # b
    <3>1. c \in DOMAIN S /\ T[c] = S[c] BY <1>5, <2>2 DEF WithBucket
    <3> QED BY <3>1 DEF Tree, IsSlot
  <2> QED BY <2>1, <2>2
<1>7. ASSUME NEW g \in Hashes, NEW x \in HoldersIn(s, T, g), NEW y \in HoldersIn(s, T, g)
      PROVE  x = y
  <2>1. CASE g = h BY <1>2, <2>1
  <2>2. CASE g # h BY <1>2, <2>2 DEF Tree
  <2> QED BY <2>1, <2>2
<1> HIDE DEF b
<1> QED BY <1>1, <1>3, <1>4, <1>5, <1>6, <1>7 DEF Tree

\* Removing an element leaves no holder of its hash, and all of the others.
LEMMA RemoveHolders ==
  ASSUME NEW s, NEW A, NEW S, Tree(s, A, S), NEW h \in Hashes,
         NEW b \in HoldersIn(s, S, h),
         NEW T, T = Restrict(S, DOMAIN S \ {b})
  PROVE  /\ HoldersIn(s, T, h) = {}
         /\ \A g \in Hashes \ {h} : HoldersIn(s, T, g) = HoldersIn(s, S, g)
<1>1. DOMAIN T = DOMAIN S \ {b} /\ \A c \in DOMAIN T : T[c] = S[c]
  BY DEF Restrict
<1>2. \A g : HoldersIn(s, T, g) = HoldersIn(s, S, g) \ {b}
  BY <1>1 DEF HoldersIn
<1>3. HoldersIn(s, T, h) = {} BY <1>2 DEF Tree
<1>4. ASSUME NEW g \in Hashes, g # h PROVE HoldersIn(s, T, g) = HoldersIn(s, S, g)
  <2>1. b \notin HoldersIn(s, S, g)
    <3>1. SUFFICES ASSUME b \in HoldersIn(s, S, g) PROVE FALSE OBVIOUS
    <3>2. h \in Words /\ g \in Words /\ ShiftOK(s) BY HashesAreWords DEF Tree
    <3>3. PICK d \in Nat : b = Bucket(Level(s, h, d)) /\ S[b].hash = Level(s, h, d).hash
      BY <3>2, SlotOfHolder
    <3>4. PICK e \in Nat : b = Bucket(Level(s, g, e)) /\ S[b].hash = Level(s, g, e).hash
      BY <3>1, <3>2, SlotOfHolder
    <3>5. d = e
      <4>1. Bucket(Level(s, h, d)) = Bucket(Level(s, g, e)) BY <3>3, <3>4
      <4> QED BY <3>2, <4>1, BucketsDiffer
    <3>6. h = g BY <3>2, <3>3, <3>4, <3>5, PathInjective
    <3> QED BY <3>6, <1>4
  <2> QED BY <1>2, <2>1
<1> QED BY <1>3, <1>4

\* Remove keeps the tree a tree: buckets below the one that is freed are still
\* found, as its children stay.
LEMMA RemoveTree ==
  ASSUME NEW s, NEW A, NEW S, Tree(s, A, S), NEW h \in Hashes,
         NEW b \in HoldersIn(s, S, h),
         NEW T, T = Restrict(S, DOMAIN S \ {b})
  PROVE  Tree(s, A, T)
<1>1. /\ DOMAIN T = DOMAIN S \ {b} /\ \A c \in DOMAIN T : T[c] = S[c]
      /\ T = [c \in DOMAIN T |-> T[c]]
  BY DEF Restrict
<1>2. \A g : HoldersIn(s, T, g) \subseteq HoldersIn(s, S, g)
  BY <1>1 DEF HoldersIn
<1>3. \A c \in DOMAIN T : IsSlot(s, A, c, T[c]) BY <1>1 DEF Tree
<1> QED BY <1>1, <1>2, <1>3 DEF Tree

\* Contents, with the state as parameters
ContentsOf(s, S) ==
  [h \in {g \in Hashes : HoldersIn(s, S, g) # {}} |->
     S[CHOOSE b \in HoldersIn(s, S, h) : TRUE].value]

\* Contents is ContentsOf of the state.
LEMMA ContentsAreContentsOf ==
  Contents = ContentsOf(shift, slots) /\ Contents' = ContentsOf(shift', slots')
<1>1. Contents = ContentsOf(shift, slots)
  <2> DEFINE H == [h \in Hashes |-> Holders(h)]
             first(h) == slots[CHOOSE b \in H[h] : TRUE].value
             last(h) == slots[CHOOSE b \in HoldersIn(shift, slots, h) : TRUE].value
  <2>1. \A h \in Hashes : H[h] = HoldersIn(shift, slots, h) BY HoldersAreHoldersIn
  <2>2. Contents = [h \in {g \in Hashes : H[g] # {}} |-> first(h)] BY DEF Contents
  <2>3. ContentsOf(shift, slots)
          = [h \in {g \in Hashes : HoldersIn(shift, slots, g) # {}} |-> last(h)]
    BY DEF ContentsOf
  <2> HIDE DEF H
  <2>4. \A h \in Hashes : first(h) = last(h) BY <2>1
  <2> HIDE DEF first, last
  <2> QED BY <2>1, <2>2, <2>3, <2>4
<1>2. Contents' = ContentsOf(shift', slots')
  <2> DEFINE H == [h \in Hashes |-> Holders(h)']
             first(h) == slots'[CHOOSE b \in H[h] : TRUE].value
             last(h) == slots'[CHOOSE b \in HoldersIn(shift', slots', h) : TRUE].value
  <2>1. \A h \in Hashes : H[h] = HoldersIn(shift', slots', h) BY HoldersAreHoldersIn
  <2>2. Contents' = [h \in {g \in Hashes : H[g] # {}} |-> first(h)] BY DEF Contents
  <2>3. ContentsOf(shift', slots')
          = [h \in {g \in Hashes : HoldersIn(shift', slots', g) # {}} |-> last(h)]
    BY DEF ContentsOf
  <2> HIDE DEF H
  <2>4. \A h \in Hashes : first(h) = last(h) BY <2>1
  <2> HIDE DEF first, last
  <2> QED BY <2>1, <2>2, <2>3, <2>4
<1> QED BY <1>1, <1>2

\* A key is in the map with the element of the bucket that holds its hash.
LEMMA ContentsElement ==
  ASSUME NEW s, NEW A, NEW S, Tree(s, A, S), NEW h \in Hashes,
         NEW b \in HoldersIn(s, S, h)
  PROVE  h \in DOMAIN ContentsOf(s, S) /\ ContentsOf(s, S)[h] = S[b].value
<1>1. (CHOOSE c \in HoldersIn(s, S, h) : TRUE) \in HoldersIn(s, S, h) OBVIOUS
<1>2. (CHOOSE c \in HoldersIn(s, S, h) : TRUE) = b BY <1>1 DEF Tree
<1>3. h \in {g \in Hashes : HoldersIn(s, S, g) # {}} OBVIOUS
<1> QED BY <1>2, <1>3 DEF ContentsOf

\* f is a function.
IsFcn(f) == f = [x \in DOMAIN f |-> f[x]]

\* A key is in the map if a bucket holds its hash.
LEMMA ContentsDomain ==
  ASSUME NEW s, NEW S
  PROVE  /\ \A g : g \in DOMAIN ContentsOf(s, S) <=> g \in Hashes /\ HoldersIn(s, S, g) # {}
         /\ IsFcn(ContentsOf(s, S))
BY DEF ContentsOf, IsFcn

\* The size_shift of a map is not zero.
LEMMA ShiftIsNotZero == ASSUME NEW s, ShiftOK(s) PROVE s # 0
BY DEF ShiftOK, MinShift

\* A map with no bucket in use is empty.
LEMMA EmptyContents ==
  ASSUME NEW s PROVE ContentsOf(s, << >>) = << >>
<1>1. DOMAIN << >> = {} OBVIOUS
<1>2. \A h : HoldersIn(s, << >>, h) = {} BY <1>1 DEF HoldersIn
<1>3. {g \in Hashes : HoldersIn(s, << >>, g) # {}} = {} BY <1>2
<1> DEFINE value(h) == << >>[CHOOSE b \in HoldersIn(s, << >>, h) : TRUE].value
<1>4. ContentsOf(s, << >>) = [h \in {g \in Hashes : HoldersIn(s, << >>, g) # {}} |-> value(h)]
  BY DEF ContentsOf
<1> HIDE DEF value
<1>5. [h \in {} |-> value(h)] = << >> OBVIOUS
<1> QED BY <1>3, <1>4, <1>5

\* Get returns what a map promises.
LEMMA AbstractFound ==
  ASSUME NoZeroHash, Tree(shift, arrays, slots), NEW h \in Hashes
  PROVE  Found(h) = IF h \in DOMAIN Contents THEN Contents[h] ELSE None
<1>1. Contents = ContentsOf(shift, slots) BY ContentsAreContentsOf
<1>2. CASE HoldersIn(shift, slots, h) = {}
  <2>1. Found(h) = None BY <1>2, FoundIs
  <2>2. h \notin DOMAIN Contents BY <1>1, <1>2, ContentsDomain
  <2> QED BY <2>1, <2>2
<1>3. CASE HoldersIn(shift, slots, h) # {}
  <2>1. PICK b : b \in HoldersIn(shift, slots, h) BY <1>3
  <2>2. Found(h) = slots[b].value BY <2>1, FoundIs
  <2>3. h \in DOMAIN Contents /\ Contents[h] = slots[b].value BY <1>1, <2>1, ContentsElement
  <2> QED BY <2>2, <2>3
<1> QED BY <1>2, <1>3

\* A map after a key is put
WithKey(C, h, v) == [g \in DOMAIN C \cup {h} |-> IF g = h THEN v ELSE C[g]]

\* A map after a key is removed
WithoutKey(C, h) == [g \in DOMAIN C \ {h} |-> C[g]]

\* Putting an element puts it in the map, and changes no other.
LEMMA PutContents ==
  ASSUME NEW s, NEW A, NEW S, Tree(s, A, S), NEW h \in Hashes, NEW d \in Nat,
         NEW v \in Values, Place(s, A, S, h, d),
         HoldersIn(s, S, h) = {},
         NEW B, B = A \cup {Level(s, h, d).array},
         NEW T, T = WithBucket(S, Level(s, h, d), v)
  PROVE  ContentsOf(s, T) = WithKey(ContentsOf(s, S), h, v)
<1> DEFINE b == Bucket(Level(s, h, d))
           C == ContentsOf(s, S)
           D == ContentsOf(s, T)
<1>1. /\ HoldersIn(s, T, h) = {b}
      /\ \A g \in Hashes \ {h} : HoldersIn(s, T, g) = HoldersIn(s, S, g)
  BY PutHolders DEF Place
<1>2. Tree(s, B, T) BY PutTree
<1>3. T[b].value = v /\ \A c \in DOMAIN S : T[c] = S[c]
  <2>1. b \notin DOMAIN S BY DEF Place
  <2> QED BY <2>1 DEF WithBucket
<1> HIDE DEF b
<1>4. \A g : g \in DOMAIN C <=> g \in Hashes /\ HoldersIn(s, S, g) # {} BY ContentsDomain
<1>5. /\ \A g : g \in DOMAIN D <=> g \in Hashes /\ HoldersIn(s, T, g) # {}
      /\ IsFcn(D)
  BY ContentsDomain
<1>6. D[h] = v
  <2>1. D[h] = T[b].value BY <1>1, <1>2, ContentsElement
  <2> QED BY <2>1, <1>3
<1>7. ASSUME NEW g \in DOMAIN C, g # h PROVE D[g] = C[g]
  <2>1. PICK c : c \in HoldersIn(s, S, g) /\ g \in Hashes BY <1>4
  <2>2. c \in HoldersIn(s, T, g) BY <1>1, <1>7, <2>1
  <2>3. C[g] = S[c].value BY <2>1, ContentsElement
  <2>4. D[g] = T[c].value BY <1>2, <2>1, <2>2, ContentsElement
  <2>5. c \in DOMAIN S BY <2>1 DEF HoldersIn
  <2> QED BY <1>3, <2>3, <2>4, <2>5
<1>8. DOMAIN D = DOMAIN C \cup {h}
  <2>1. \A g \in Hashes \ {h} : g \in DOMAIN D <=> g \in DOMAIN C BY <1>1, <1>4, <1>5
  <2>2. h \in DOMAIN D BY <1>1, <1>5
  <2> QED BY <2>1, <2>2, <1>4, <1>5
<1> HIDE DEF C, D
<1>9. D = WithKey(C, h, v) BY <1>5, <1>6, <1>7, <1>8 DEF IsFcn, WithKey
<1> QED BY <1>9 DEF C, D

\* Removing an element removes it from the map, and changes no other.
LEMMA RemoveContents ==
  ASSUME NEW s, NEW A, NEW S, Tree(s, A, S), NEW h \in Hashes,
         NEW b \in HoldersIn(s, S, h),
         NEW T, T = Restrict(S, DOMAIN S \ {b})
  PROVE  ContentsOf(s, T) = WithoutKey(ContentsOf(s, S), h)
<1> DEFINE C == ContentsOf(s, S)
           D == ContentsOf(s, T)
<1>1. /\ HoldersIn(s, T, h) = {}
      /\ \A g \in Hashes \ {h} : HoldersIn(s, T, g) = HoldersIn(s, S, g)
  BY RemoveHolders
<1>2. Tree(s, A, T) BY RemoveTree
<1>3. \A c \in DOMAIN T : T[c] = S[c] BY DEF Restrict
<1>4. \A g : g \in DOMAIN C <=> g \in Hashes /\ HoldersIn(s, S, g) # {} BY ContentsDomain
<1>5. /\ \A g : g \in DOMAIN D <=> g \in Hashes /\ HoldersIn(s, T, g) # {}
      /\ IsFcn(D)
  BY ContentsDomain
<1>6. DOMAIN D = DOMAIN C \ {h}
  <2>1. \A g \in Hashes \ {h} : g \in DOMAIN D <=> g \in DOMAIN C BY <1>1, <1>4, <1>5
  <2>2. h \notin DOMAIN D BY <1>1, <1>5
  <2> QED BY <2>1, <2>2, <1>4, <1>5
<1>7. ASSUME NEW g \in DOMAIN D PROVE D[g] = C[g]
  <2>1. g # h /\ g \in Hashes BY <1>4, <1>6
  <2>2. PICK c : c \in HoldersIn(s, T, g) BY <1>5
  <2>3. c \in HoldersIn(s, S, g) BY <1>1, <2>1, <2>2
  <2>4. C[g] = S[c].value BY <2>1, <2>3, ContentsElement
  <2>5. D[g] = T[c].value BY <1>2, <2>1, <2>2, ContentsElement
  <2>6. c \in DOMAIN T BY <2>2 DEF HoldersIn
  <2> QED BY <1>3, <2>4, <2>5, <2>6
<1> HIDE DEF C, D
<1>8. D = WithoutKey(C, h) BY <1>5, <1>6, <1>7 DEF IsFcn, WithoutKey
<1> QED BY <1>8 DEF C, D

\* Put, as clients call it
PutStep(h, v) == (DuplicatePuts \/ Holders(h) = {}) /\ GpMapPut(h, v)

\* gp_map_put keeps the invariant and is Put of the abstract map.
LEMMA PutEffect ==
  ASSUME NoZeroHash, DuplicatePuts = FALSE, TreeInv,
         NEW h \in Hashes, NEW v \in Values, PutStep(h, v)
  PROVE  TreeInv' /\ Map!Put(h, v)
<1>1. shift # 0 /\ Tree(shift, arrays, slots) BY DEF PutStep, GpMapPut, TreeInv
<1>2. h \in Words /\ h # 0 BY HashesAreWords DEF NoZeroHash
<1>3. HoldersIn(shift, slots, h) = {} BY HoldersAreHoldersIn DEF PutStep
<1>4. PICK d \in Nat :
        PutLevel(h) = Level(shift, h, d) /\ Place(shift, arrays, slots, h, d)
  BY <1>1, <1>2, PutPlace
<1>5. arrays' = arrays \cup {Level(shift, h, d).array} /\ shift' = shift /\ result' = v
  BY <1>4 DEF PutStep, GpMapPut
<1>6. slots' = WithBucket(slots, Level(shift, h, d), v)
  <2>1. Level(shift, h, d).hash # 0 BY <1>1, <1>2, PathNonzero DEF Tree
  <2>2. slots' = WithSlot(Level(shift, h, d), v) BY <1>4 DEF PutStep, GpMapPut
  <2> QED BY <2>1, <2>2 DEF WithSlot, WithBucket
<1>7. Tree(shift, arrays', slots') BY <1>1, <1>3, <1>4, <1>5, <1>6, PutTree
<1>8. TreeInv' BY <1>1, <1>5, <1>7 DEF TreeInv
<1>9. Contents' = [g \in DOMAIN Contents \cup {h} |-> IF g = h THEN v ELSE Contents[g]]
  <2>1. ContentsOf(shift, slots') = WithKey(ContentsOf(shift, slots), h, v)
    BY <1>1, <1>3, <1>4, <1>5, <1>6, PutContents
  <2>2. Contents = ContentsOf(shift, slots) /\ Contents' = ContentsOf(shift, slots')
    BY <1>5, ContentsAreContentsOf
  <2> QED BY <2>1, <2>2 DEF WithKey
<1> QED BY <1>5, <1>8, <1>9 DEF Map!Put

\* gp_map_get is Get of the abstract map.
LEMMA GetEffect ==
  ASSUME NoZeroHash, TreeInv, NEW h \in Hashes, GpMapGet(h)
  PROVE  TreeInv' /\ Map!Get(h)
<1>1. Tree(shift, arrays, slots) BY DEF GpMapGet, TreeInv
<1>2. shift' = shift /\ arrays' = arrays /\ slots' = slots /\ result' = Found(h)
  BY DEF GpMapGet
<1>3. TreeInv' BY <1>2 DEF TreeInv
<1>4. Contents' = Contents
  <2>1. Contents' = ContentsOf(shift', slots') /\ Contents = ContentsOf(shift, slots)
    BY ContentsAreContentsOf
  <2> QED BY <1>2, <2>1
<1>5. Found(h) = IF h \in DOMAIN Contents THEN Contents[h] ELSE None
  BY <1>1, AbstractFound
<1> QED BY <1>2, <1>3, <1>4, <1>5 DEF Map!Get, Map!Found

\* gp_map_remove is Remove of the abstract map.
LEMMA RemoveEffect ==
  ASSUME NoZeroHash, TreeInv, NEW h \in Hashes, GpMapRemove(h)
  PROVE  TreeInv' /\ Map!Remove(h)
<1>1. shift # 0 /\ Tree(shift, arrays, slots) BY DEF GpMapRemove, TreeInv
<1>2. shift' = shift /\ arrays' = arrays /\ result' = Found(h)
  BY DEF GpMapRemove
<1>3. Found(h) = IF h \in DOMAIN Contents THEN Contents[h] ELSE None
  BY <1>1, AbstractFound
<1>4. Contents = ContentsOf(shift, slots) /\ Contents' = ContentsOf(shift, slots')
  BY <1>2, ContentsAreContentsOf
<1>5. CASE HoldersIn(shift, slots, h) = {}
  <2>1. Found(h) = None BY <1>1, <1>5, FoundIs
  <2>2. slots' = slots BY <2>1 DEF GpMapRemove
  <2>3. TreeInv' BY <1>2, <2>2 DEF TreeInv
  <2>4. h \notin DOMAIN Contents BY <1>4, <1>5, ContentsDomain
  <2>5. Contents = [g \in DOMAIN Contents |-> Contents[g]] BY <1>4, ContentsDomain DEF IsFcn
  <2>6. DOMAIN Contents \ {h} = DOMAIN Contents BY <2>4
  <2>7. Contents' = Map!Restrict(Contents, DOMAIN Contents \ {h})
    BY <1>4, <2>2, <2>5, <2>6 DEF Map!Restrict
  <2> QED BY <1>2, <1>3, <2>3, <2>7 DEF Map!Remove, Map!Found
<1>6. CASE HoldersIn(shift, slots, h) # {}
  <2>1. PICK b : b \in HoldersIn(shift, slots, h) BY <1>6
  <2>2. Found(h) # None /\ Bucket(GetLevel(h)) = b BY <1>1, <2>1, FoundIs
  <2>3. slots' = Restrict(slots, DOMAIN slots \ {b}) BY <2>2 DEF GpMapRemove
  <2>4. Tree(shift, arrays, slots') BY <1>1, <2>1, <2>3, RemoveTree
  <2>5. TreeInv' BY <1>1, <1>2, <2>4 DEF TreeInv
  <2>6. ContentsOf(shift, slots') = WithoutKey(ContentsOf(shift, slots), h)
    BY <1>1, <2>1, <2>3, RemoveContents
  <2>7. Contents' = Map!Restrict(Contents, DOMAIN Contents \ {h})
    BY <1>4, <2>6 DEF WithoutKey, Map!Restrict
  <2> QED BY <1>2, <1>3, <2>5, <2>7 DEF Map!Remove, Map!Found
<1> QED BY <1>5, <1>6

\* gp_map_new makes the abstract map empty.
LEMMA NewEffect ==
  ASSUME NEW capacity \in Capacities, GpMapNew(capacity)
  PROVE  TreeInv' /\ Map!Clear
<1>1. ShiftOK(RootShift(capacity)) BY RootShiftOK
<1>2. shift' = RootShift(capacity) /\ arrays' = {Root} /\ slots' = << >> /\ result' = None
  BY DEF GpMapNew
<1>3. shift' # 0 BY <1>1, <1>2, ShiftIsNotZero
<1>4. Tree(shift', arrays', slots') BY <1>1, <1>2, NewTree
<1>5. TreeInv' BY <1>3, <1>4 DEF TreeInv
<1>6. Contents' = << >>
  <2>1. Contents' = ContentsOf(shift', slots') BY ContentsAreContentsOf
  <2> QED BY <1>2, <2>1, EmptyContents
<1> QED BY <1>2, <1>5, <1>6 DEF Map!Clear

\* gp_map_delete makes the abstract map empty.
LEMMA DeleteEffect ==
  ASSUME GpMapDelete
  PROVE  TreeInv' /\ Map!Clear
<1>1. shift' = 0 /\ slots' = << >> /\ result' = None BY DEF GpMapDelete
<1>2. Contents' = << >>
  <2>1. Contents' = ContentsOf(shift', slots') BY ContentsAreContentsOf
  <2> QED BY <1>1, <2>1, EmptyContents
<1> QED BY <1>1, <1>2 DEF TreeInv, Map!Clear

\* There is no map at first.
LEMMA InitEffect ==
  ASSUME Init
  PROVE  TreeInv /\ Map!Init
<1>1. Contents = << >>
  <2>1. Contents = ContentsOf(shift, slots) BY ContentsAreContentsOf
  <2> QED BY <2>1, EmptyContents DEF Init
<1> QED BY <1>1 DEF Init, TreeInv, Map!Init

\* Every step keeps the invariant, and is a step of the abstract map or leaves
\* it alone.
LEMMA StepEffect ==
  ASSUME NoZeroHash, DuplicatePuts = FALSE, TreeInv, [Next]_vars
  PROVE  TreeInv' /\ [Map!Next]_(Map!vars)
<1>1. ASSUME NEW capacity \in Capacities, GpMapNew(capacity)
      PROVE  TreeInv' /\ [Map!Next]_(Map!vars)
  BY <1>1, NewEffect DEF Map!Next
<1>2. ASSUME NEW h \in Hashes, NEW v \in Values, PutStep(h, v)
      PROVE  TreeInv' /\ [Map!Next]_(Map!vars)
  BY <1>2, PutEffect DEF Map!Next
<1>3. ASSUME NEW h \in Hashes, GpMapGet(h) PROVE TreeInv' /\ [Map!Next]_(Map!vars)
  BY <1>3, GetEffect DEF Map!Next
<1>4. ASSUME NEW h \in Hashes, GpMapRemove(h) PROVE TreeInv' /\ [Map!Next]_(Map!vars)
  BY <1>4, RemoveEffect DEF Map!Next
<1>5. ASSUME GpMapDelete PROVE TreeInv' /\ [Map!Next]_(Map!vars)
  BY <1>5, DeleteEffect DEF Map!Next
<1>6. ASSUME UNCHANGED vars PROVE TreeInv' /\ [Map!Next]_(Map!vars)
  <2>1. shift' = shift /\ arrays' = arrays /\ slots' = slots /\ result' = result
    BY <1>6 DEF vars
  <2>2. TreeInv' BY <2>1 DEF TreeInv
  <2>3. Contents' = ContentsOf(shift', slots') /\ Contents = ContentsOf(shift, slots)
    BY ContentsAreContentsOf
  <2>4. Contents' = Contents BY <2>1, <2>3
  <2> QED BY <2>1, <2>2, <2>4 DEF Map!vars
<1> QED BY <1>1, <1>2, <1>3, <1>4, <1>5, <1>6 DEF Next, PutStep

\* What clients of the map have to keep to: hashes are not zero
\* (src/hashmap.c:211 asserts it), and a key that is in the map is not put
\* again
MapClients == 0 \notin Hashes /\ DuplicatePuts = FALSE

\* The buckets of a map are a tree that has each of them on the way to the hash
\* it holds, whatever is put and removed (src/hashmap.c).
THEOREM MapInvariant ==
  ASSUME MapClients PROVE Spec => []TreeInv
<1>0. NoZeroHash /\ DuplicatePuts = FALSE BY DEF MapClients, NoZeroHash
<1>1. Init => TreeInv BY InitEffect
<1>2. TreeInv /\ [Next]_vars => TreeInv' BY <1>0, StepEffect
<1> QED BY <1>1, <1>2, PTL DEF Spec

\* The hash map is a map (include/gpc/hashmap.h): put, get and remove of the
\* tree of arrays are those of a finite map, for every width of the hash, all
\* hashes and all capacities.
THEOREM MapRefinement ==
  ASSUME MapClients PROVE Spec => ImplementsMap
<1>0. NoZeroHash /\ DuplicatePuts = FALSE BY DEF MapClients, NoZeroHash
<1>1. Init => Map!Init BY InitEffect
<1>2. TreeInv /\ [Next]_vars => [Map!Next]_(Map!vars) BY <1>0, StepEffect
<1> QED BY <1>1, <1>2, MapInvariant, PTL DEF Spec, ImplementsMap, Map!Spec

\* A bucket on the way to a hash is inside the bounds its array was allocated
\* with.
LEMMA ChildInArray ==
  ASSUME Tree(shift, arrays, slots), NEW h \in Hashes, NEW d \in Nat,
         Level(shift, h, d).array \in arrays
  PROVE  InArray(Bucket(Level(shift, h, d)))
<1>1. h \in Words /\ ShiftOK(shift) BY HashesAreWords DEF Tree
<1>2. IsLevel(Level(shift, h, d)) BY <1>1, LevelSteps
<1>3. ArrayShift(Level(shift, h, d).array) = Level(shift, h, d).shift
  BY <1>1, ArrayShiftIsShift
<1> QED BY <1>2, <1>3, BucketProperties DEF InArray

\* The inductive invariant implies the one that is checked.
LEMMA TreeSound == ASSUME MapClients, TreeInv PROVE TreeIsSound
<1>0. NoZeroHash BY DEF MapClients, NoZeroHash
<1>1. BucketsInArrays
  <2>1. CASE shift = 0
    <3>1. DOMAIN << >> = {} OBVIOUS
    <3>2. DOMAIN slots = {} BY <2>1, <3>1 DEF TreeInv
    <3> QED BY <2>1, <3>2 DEF BucketsInArrays
  <2>2. CASE shift # 0
    <3>0. Tree(shift, arrays, slots) BY <2>2 DEF TreeInv
    <3>1. ASSUME NEW b \in DOMAIN slots PROVE InArray(b)
      <4>1. PICK h \in Hashes, d \in Nat :
              b = Bucket(Level(shift, h, d)) /\ Level(shift, h, d).array \in arrays
        BY <3>0 DEF Tree, IsSlot
      <4> QED BY <3>0, <4>1, ChildInArray
    <3>2. ASSUME NEW a \in arrays, a # Root PROVE InArray(a)
      <4>1. PICK h \in Hashes, d \in Nat :
              a = Bucket(Level(shift, h, d)) /\ Level(shift, h, d).array \in arrays
        BY <3>0, <3>2 DEF Tree, IsChild
      <4> QED BY <3>0, <4>1, ChildInArray
    <3> QED BY <3>1, <3>2 DEF BucketsInArrays
  <2> QED BY <2>1, <2>2
<1>2. SearchFindsHolder
  <2>1. SUFFICES ASSUME shift # 0, NEW h \in Hashes
                 PROVE  /\ Cardinality(Holders(h)) <= 1
                        /\ \A b \in Holders(h) : Bucket(GetLevel(h)) = b
    BY DEF SearchFindsHolder
  <2>2. Tree(shift, arrays, slots) BY <2>1 DEF TreeInv
  <2>3. Holders(h) = HoldersIn(shift, slots, h) BY HoldersAreHoldersIn
  <2>4. \A b \in Holders(h) : Bucket(GetLevel(h)) = b BY <1>0, <2>2, <2>3, FoundIs
  <2>5. Cardinality(Holders(h)) <= 1
    <3>1. CASE Holders(h) = {}
      <4>1. Cardinality({}) = 0 BY FS_EmptySet
      <4> QED BY <3>1, <4>1
    <3>2. CASE Holders(h) # {}
      <4>1. PICK b : b \in Holders(h) BY <3>2
      <4>2. Holders(h) = {b} BY <2>2, <2>3, <4>1 DEF Tree
      <4>3. Cardinality({b}) = 1 BY FS_Singleton
      <4> QED BY <4>2, <4>3
    <3> QED BY <3>1, <3>2
  <2> QED BY <2>4, <2>5
<1> QED BY <1>1, <1>2 DEF TreeIsSound

\* What put, get and remove look at is inside the arrays that put allocated, no
\* key is in the map twice and a search finds the bucket that holds its key.
THEOREM TreeInvariant ==
  ASSUME MapClients PROVE Spec => []TreeIsSound
<1>1. TreeInv => TreeIsSound BY TreeSound
<1> QED BY <1>1, MapInvariant, PTL

\* In a map whose root array has the smallest size, all indices are those of
\* the smallest array.
LEMMA SmallIndices ==
  ASSUME ShiftOK(MinShift), NEW h \in Words, NEW d \in Nat
  PROVE  \A i \in 1 .. d : Level(MinShift, h, d).array[i] < TwoTo[MinShift]
<1> DEFINE a(n) == Level(MinShift, h, n).array
           T == {n \in Nat : \A i \in 1 .. n : a(n)[i] < TwoTo[MinShift]}
<1>1. 0 \in T OBVIOUS
<1>2. ASSUME NEW n \in Nat, n \in T PROVE n + 1 \in T
  <2>1. /\ IsLevel(Level(MinShift, h, n))
        /\ a(n + 1) = Bucket(Level(MinShift, h, n))
    BY LevelSteps
  <2>2. Len(a(n)) = n /\ Level(MinShift, h, n).shift = MinShift
    BY PathLength, ShiftOfSmallest
  <2>3. \A i \in 1 .. n : a(n + 1)[i] = a(n)[i] BY <2>1, <2>2, BucketProperties
  <2>4. a(n + 1)[n + 1] < TwoTo[MinShift]
    <3>1. Len(Bucket(Level(MinShift, h, n))) = n + 1 BY <2>1, <2>2, BucketProperties
    <3>2. IndexOf(Bucket(Level(MinShift, h, n))) < TwoTo[MinShift]
      BY <2>1, <2>2, BucketProperties
    <3> QED BY <2>1, <3>1, <3>2 DEF IndexOf
  <2>5. ASSUME NEW i \in 1 .. n + 1 PROVE a(n + 1)[i] < TwoTo[MinShift]
    <3>1. CASE i = n + 1 BY <2>4, <3>1
    <3>2. CASE i # n + 1
      <4>1. i \in 1 .. n BY <3>2
      <4>2. a(n)[i] < TwoTo[MinShift] BY <1>2, <4>1
      <4>3. a(n + 1)[i] = a(n)[i] BY <2>3, <4>1
      <4> QED BY <4>2, <4>3
    <3> QED BY <3>1, <3>2
  <2> HIDE DEF a
  <2> QED BY <2>5
<1> HIDE DEF T
<1>3. Nat \subseteq T BY <1>1, <1>2, Induction
<1>4. d \in T BY <1>3
<1> QED BY <1>4 DEF T

\* gp_map_delete of such a map frees all arrays.
LEMMA DeleteSmall ==
  ASSUME TreeInv, shift = MinShift, GpMapDelete
  PROVE  arrays' = {}
<1>1. MinShift # 0 BY DEF MinShift
<1>2. Tree(shift, arrays, slots) /\ ShiftOK(MinShift) BY <1>1 DEF TreeInv, Tree
<1>3. ASSUME NEW a \in arrays PROVE Visited(a)
  <2>1. CASE a = Root
    <3>1. Root \in Seq(Nat) /\ Len(Root) = 0 BY DEF Root
    <3>2. \A i \in 1 .. Len(Root) : Root[i] < TwoTo[MinShift] BY <3>1
    <3> QED BY <2>1, <3>1, <3>2, SmallIsVisited
  <2>2. CASE a # Root
    <3>1. PICK h \in Hashes, d \in Nat : a = Bucket(Level(shift, h, d))
      BY <1>2, <2>2 DEF Tree, IsChild
    <3>2. h \in Words /\ d + 1 \in Nat BY HashesAreWords
    <3>3. a = Level(MinShift, h, d + 1).array BY <1>2, <3>1, <3>2, LevelSteps
    <3>4. Len(a) = d + 1 BY <1>2, <3>2, <3>3, PathLength
    <3>5. \A i \in 1 .. d + 1 : a[i] < TwoTo[MinShift] BY <1>2, <3>2, <3>3, SmallIndices
    <3>6. a \in Seq(Nat) BY <1>2, <3>2, <3>3, LevelSteps DEF IsLevel
    <3> QED BY <3>4, <3>5, <3>6, SmallIsVisited
  <2> QED BY <2>1, <2>2
<1> QED BY <1>3 DEF GpMapDelete

\* gp_map_delete frees all arrays of a map whose root array has the smallest
\* size (include/gpc/hashmap.h:60).
THEOREM SmallMapsAreFreed ==
  ASSUME MapClients PROVE Spec => DeleteFreesSmall
<1>1. TreeInv /\ [Next]_vars => [shift = MinShift /\ shift' = 0 => arrays' = {}]_vars
  <2>1. SUFFICES ASSUME TreeInv, Next, shift = MinShift, shift' = 0 PROVE arrays' = {}
    OBVIOUS
  <2>2. shift # shift' /\ shift # 0 BY <2>1 DEF MinShift
  <2>3. GpMapDelete BY <2>1, <2>2 DEF Next, GpMapNew, GpMapPut, GpMapGet, GpMapRemove
  <2> QED BY <2>1, <2>3, DeleteSmall
<1> QED BY <1>1, MapInvariant, PTL DEF Spec, DeleteFreesSmall

\* Iterating over a map while it changes is, for the map, nothing: with the
\* iterator left out, the steps are steps of the map.
THEOREM IteratorKeepsMap == IteratorSpec => Spec
<1>1. IteratorInit => Init BY DEF IteratorInit
<1>2. [IteratorNext]_allVars => [Next]_vars
  BY DEF IteratorNext, Next, vars, allVars, GpMapBegin, GpMapNext
<1> QED BY <1>1, <1>2, PTL DEF IteratorSpec, Spec

\* So a map that is iterated over is as sound as any.
THEOREM IteratedMap ==
  ASSUME MapClients
  PROVE  IteratorSpec => []TreeIsSound /\ DeleteFreesSmall /\ ImplementsMap
BY IteratorKeepsMap, TreeInvariant, SmallMapsAreFreed, MapRefinement, PTL

\* An array or a bucket is on the way from the root to another, or that itself.
OnWay(a, x) == Len(a) <= Len(x) /\ \A m \in 1 .. Len(a) : x[m] = a[m]

\* A bucket is before another if it is in a lower subtree of the same array.
Before(x, c) ==
  \E k \in 1 .. Len(c) :
    /\ k <= Len(x) /\ x[k] < c[k]
    /\ \A m \in 1 .. k - 1 : x[m] = c[m]

\* What is before a bucket of an array.
LEMMA BeforeBucket ==
  ASSUME NEW a \in Seq(Nat), NEW i \in Nat, NEW x \in Seq(Nat)
  PROVE  Before(x, Append(a, i)) <=>
           \/ Before(x, a)
           \/ OnWay(a, x) /\ Len(a) < Len(x) /\ x[Len(a) + 1] < i
<1> DEFINE c == Append(a, i)
<1>1. PICK n \in Nat : n = Len(a) OBVIOUS
<1>2. Len(c) = n + 1 /\ c[n + 1] = i /\ \A m \in 1 .. n : c[m] = a[m] BY <1>1
<1> HIDE DEF c
<1>3. PICK l \in Nat : l = Len(x) OBVIOUS
<1>4. ASSUME Before(x, c) PROVE Before(x, a) \/ (OnWay(a, x) /\ n < l /\ x[n + 1] < i)
  <2>1. PICK k \in 1 .. n + 1 :
          k <= l /\ x[k] < c[k] /\ \A m \in 1 .. k - 1 : x[m] = c[m]
    BY <1>2, <1>3, <1>4 DEF Before
  <2>2. CASE k = n + 1
    <3>1. n < l /\ x[n + 1] < i BY <1>2, <2>1, <2>2
    <3>2. \A m \in 1 .. n : x[m] = a[m] BY <1>2, <2>1, <2>2
    <3> QED BY <1>1, <1>3, <3>1, <3>2 DEF OnWay
  <2>3. CASE k # n + 1
    <3>1. k \in 1 .. n BY <2>3
    <3>2. x[k] < a[k] /\ \A m \in 1 .. k - 1 : x[m] = a[m] BY <1>2, <2>1, <3>1
    <3> QED BY <1>1, <1>3, <2>1, <3>1, <3>2 DEF Before
  <2> QED BY <2>2, <2>3
<1>5. ASSUME Before(x, a) PROVE Before(x, c)
  <2>1. PICK k \in 1 .. n :
          k <= l /\ x[k] < a[k] /\ \A m \in 1 .. k - 1 : x[m] = a[m]
    BY <1>1, <1>3, <1>5 DEF Before
  <2>2. k \in 1 .. n + 1 /\ x[k] < c[k] /\ \A m \in 1 .. k - 1 : x[m] = c[m]
    BY <1>2, <2>1
  <2> QED BY <1>2, <1>3, <2>1, <2>2 DEF Before
<1>6. ASSUME OnWay(a, x), n < l, x[n + 1] < i PROVE Before(x, c)
  <2>1. \A m \in 1 .. n : x[m] = c[m] BY <1>1, <1>2, <1>6 DEF OnWay
  <2>2. /\ n + 1 \in 1 .. n + 1 /\ n + 1 <= l /\ x[n + 1] < c[n + 1]
        /\ \A m \in 1 .. (n + 1) - 1 : x[m] = c[m]
    BY <1>2, <1>6, <2>1
  <2> QED BY <1>2, <1>3, <2>2 DEF Before
<1> QED BY <1>1, <1>3, <1>4, <1>5, <1>6 DEF c

\* Nothing is before a bucket on the way to it, or on the way of which it is.
LEMMA BeforeNotOnWay ==
  ASSUME NEW a \in Seq(Nat), NEW x \in Seq(Nat), OnWay(a, x)
  PROVE  ~ Before(x, a) /\ ~ Before(a, x)
<1>1. PICK n, l \in Nat : n = Len(a) /\ l = Len(x) OBVIOUS
<1>2. \A m \in 1 .. n : x[m] = a[m] BY <1>1 DEF OnWay
<1>3. \A m \in 1 .. n : ~ (a[m] < a[m]) BY <1>1
<1>4. ASSUME Before(x, a) PROVE FALSE
  <2>1. PICK k \in 1 .. n : x[k] < a[k] BY <1>1, <1>4 DEF Before
  <2> QED BY <2>1, <1>2, <1>3
<1>5. ASSUME Before(a, x) PROVE FALSE
  <2>1. PICK k \in 1 .. l : k <= n /\ a[k] < x[k] BY <1>1, <1>5 DEF Before
  <2>2. k \in 1 .. n BY <2>1
  <2> QED BY <2>1, <2>2, <1>2, <1>3
<1> QED BY <1>4, <1>5

\* Buckets of an array are on the way where the array is and their index.
LEMMA BucketOnWay ==
  ASSUME NEW a \in Seq(Nat), NEW j \in Nat, NEW x \in Seq(Nat)
  PROVE  OnWay(Append(a, j), x) <=> OnWay(a, x) /\ Len(a) < Len(x) /\ x[Len(a) + 1] = j
<1> DEFINE c == Append(a, j)
<1>1. PICK n, l \in Nat : n = Len(a) /\ l = Len(x) OBVIOUS
<1>2. Len(c) = n + 1 /\ c[n + 1] = j /\ \A m \in 1 .. n : c[m] = a[m] BY <1>1
<1> HIDE DEF c
<1>3. ASSUME OnWay(c, x) PROVE OnWay(a, x) /\ n < l /\ x[n + 1] = j
  <2>1. n + 1 <= l /\ \A m \in 1 .. n + 1 : x[m] = c[m] BY <1>1, <1>2, <1>3 DEF OnWay
  <2>2. \A m \in 1 .. n : x[m] = a[m] BY <2>1, <1>2
  <2>3. n + 1 \in 1 .. n + 1 /\ n < l /\ n <= l BY <2>1
  <2>4. x[n + 1] = j BY <2>1, <2>3, <1>2
  <2> QED BY <1>1, <2>2, <2>3, <2>4 DEF OnWay
<1>4. ASSUME OnWay(a, x), n < l, x[n + 1] = j PROVE OnWay(c, x)
  <2>1. \A m \in 1 .. n : x[m] = c[m] BY <1>1, <1>2, <1>4 DEF OnWay
  <2>2. n + 1 <= l /\ \A m \in 1 .. n + 1 : x[m] = c[m] BY <2>1, <1>2, <1>4
  <2> QED BY <1>1, <1>2, <2>2 DEF OnWay
<1> QED BY <1>1, <1>3, <1>4 DEF c

\* A bucket is a bucket of its array.
LEMMA BucketOfArray ==
  ASSUME NEW b \in Seq(Nat), b # << >>
  PROVE  /\ ArrayOf(b) \in Seq(Nat) /\ IndexOf(b) \in Nat
         /\ b = Append(ArrayOf(b), IndexOf(b))
         /\ Len(b) = Len(ArrayOf(b)) + 1
<1>1. PICK n \in Nat : n + 1 = Len(b)
  <2>1. Len(b) \in Nat /\ Len(b) # 0 OBVIOUS
  <2>2. Len(b) - 1 \in Nat /\ (Len(b) - 1) + 1 = Len(b) BY <2>1
  <2> QED BY <2>2
<1>2. ArrayOf(b) = SubSeq(b, 1, n) /\ IndexOf(b) = b[n + 1]
  <2>1. Len(b) - 1 = n BY <1>1
  <2> QED BY <1>1, <2>1 DEF ArrayOf, IndexOf
<1>3. PICK a : a = SubSeq(b, 1, n) OBVIOUS
<1>4. a \in Seq(Nat) /\ Len(a) = n /\ \A i \in 1 .. n : a[i] = b[i] BY <1>1, <1>3
<1>5. n + 1 \in 1 .. Len(b) /\ b[n + 1] \in Nat BY <1>1
<1>6. PICK c : c = Append(a, b[n + 1]) OBVIOUS
<1>7. c \in Seq(Nat) /\ Len(c) = n + 1 /\ \A i \in 1 .. n + 1 : c[i] = b[i]
  BY <1>4, <1>5, <1>6
<1>8. c = b BY <1>1, <1>7
<1> QED BY <1>1, <1>2, <1>3, <1>4, <1>5, <1>6, <1>8

\* The names of the arrays on the way of a search are beginnings of each other.
LEMMA PathPrefix ==
  ASSUME NEW s, ShiftOK(s), NEW h \in Words, NEW n \in Nat, NEW d \in Nat, n <= d
  PROVE  \A m \in 1 .. n : Level(s, h, d).array[m] = Level(s, h, n).array[m]
<1> DEFINE a(e) == Level(s, h, e).array
           T == {e \in Nat : n <= e => \A m \in 1 .. n : a(e)[m] = a(n)[m]}
<1>1. 0 \in T
  <2>1. n <= 0 => n = 0 OBVIOUS
  <2> HIDE DEF a
  <2> QED BY <2>1
<1>2. ASSUME NEW e \in Nat, e \in T PROVE e + 1 \in T
  <2>1. IsLevel(Level(s, h, e)) /\ a(e + 1) = Bucket(Level(s, h, e)) /\ Len(a(e)) = e
    BY LevelSteps, PathLength
  <2>2. \A m \in 1 .. e : a(e + 1)[m] = a(e)[m] BY <2>1, BucketProperties
  <2> HIDE DEF a
  <2>3. CASE n <= e
    <3>1. \A m \in 1 .. n : a(e)[m] = a(n)[m] BY <2>3, <1>2
    <3>2. \A m \in 1 .. n : m \in 1 .. e BY <2>3
    <3> QED BY <3>1, <3>2, <2>2
  <2>4. CASE ~ (n <= e)
    <3>1. n <= e + 1 => n = e + 1 BY <2>4
    <3> QED BY <3>1
  <2> QED BY <2>3, <2>4
<1> HIDE DEF T
<1>3. Nat \subseteq T BY <1>1, <1>2, Induction
<1>4. d \in T BY <1>3
<1> QED BY <1>4 DEF T

\* The size_shift of an array is that of its depth.
LEMMA ArrayShiftIs ==
  /\ \A a : ArrayShift(a) = SizesDown(shift)[Len(a)]
  /\ \A a : ArrayShift(a)' = SizesDown(shift')[Len(a)]
BY Zenon DEF ArrayShift, SizesDown

\* What arrays are put into arrays for, and that it is a size_shift.
LEMMA SizesDownOK ==
  ASSUME NEW s, ShiftOK(s), NEW n \in Nat
  PROVE  /\ ShiftOK(SizesDown(s)[n])
         /\ SizesDown(s)[0] = s
         /\ SizesDown(s)[n + 1] = DownShift(SizesDown(s)[n])
<1>1. 0 \in Words
  <2>1. s \in 0 .. HashBits BY ShiftBits
  <2> QED BY <2>1, RotatedZero
<1>2. \A d \in Nat : SizesDown(s)[d] = Level(s, 0, d).shift BY <1>1, SizesDownAreShifts
<1>3. IsLevel(Level(s, 0, n)) /\ Level(s, 0, n + 1).shift = PutShift(Level(s, 0, n).shift)
  BY <1>1, LevelSteps
<1>4. Level(s, 0, 0).shift = s BY <1>1, LevelBegins
<1>5. n + 1 \in Nat /\ 0 \in Nat OBVIOUS
<1>6. \A e : PutShift(e) = DownShift(e) BY DEF PutShift, DownShift
<1>7. ShiftOK(SizesDown(s)[n]) BY <1>2, <1>3 DEF IsLevel
<1> QED BY <1>2, <1>3, <1>4, <1>5, <1>6, <1>7

\* Names are the same if they have the same indices.
LEMMA SameNames ==
  ASSUME NEW a \in Seq(Nat), NEW b \in Seq(Nat), Len(b) = Len(a),
         \A m \in 1 .. Len(b) : b[m] = a[m]
  PROVE  b = a
<1>1. PICK n \in Nat : n = Len(a) OBVIOUS
<1>2. a \in [1 .. n -> Nat] /\ b \in [1 .. n -> Nat] BY <1>1
<1>3. \A m \in 1 .. n : b[m] = a[m] BY <1>1
<1> QED BY <1>2, <1>3

\* From an array on the way to a bucket or an array of the tree, the next one on
\* the way is inside that array, and is an array unless it is the end.
LEMMA WayDown ==
  ASSUME NEW s, NEW A, NEW S, Tree(s, A, S), NEW x \in A \cup DOMAIN S,
         NEW a \in Seq(Nat), OnWay(a, x), Len(a) < Len(x)
  PROVE  /\ x \in Seq(Nat)
         /\ x[Len(a) + 1] \in Nat
         /\ x[Len(a) + 1] < TwoTo[SizesDown(s)[Len(a)]]
         /\ Append(a, x[Len(a) + 1]) \in A \cup {x}
<1>1. ShiftOK(s) BY DEF Tree
<1>2. PICK n \in Nat : n = Len(a) OBVIOUS
<1>3. PICK h \in Hashes, d \in Nat : x = Bucket(Level(s, h, d)) /\ Level(s, h, d).array \in A
  <2>1. x # Root
    <3>1. Len(Root) = 0 BY DEF Root
    <3> QED BY <3>1, <1>2
  <2> QED BY <2>1 DEF Tree, IsChild, IsSlot
<1>4. h \in Words BY HashesAreWords
<1>5. x = Level(s, h, d + 1).array BY <1>1, <1>3, <1>4, LevelSteps
<1>6. d + 1 \in Nat OBVIOUS
<1>7. x \in Seq(Nat) /\ Len(x) = d + 1
  BY <1>1, <1>4, <1>5, <1>6, LevelSteps, PathLength DEF IsLevel
<1>8. n <= d /\ n + 1 <= d + 1 /\ n <= d + 1 /\ n + 1 \in Nat BY <1>2, <1>7
<1>9. PICK l : l = Level(s, h, n) OBVIOUS
<1>10. /\ IsLevel(l) /\ Level(s, h, n + 1).array = Bucket(l) /\ Len(l.array) = n
       /\ l.shift = SizesDown(s)[n]
  <2>1. SizesDown(s)[n] = Level(s, h, n).shift BY <1>1, <1>4, SizesDownAreShifts
  <2> QED BY <1>1, <1>4, <1>9, <2>1, LevelSteps, PathLength
<1>11. l.array = a
  <2>1. \A m \in 1 .. n : x[m] = l.array[m]
    BY <1>1, <1>4, <1>5, <1>6, <1>8, <1>9, PathPrefix
  <2>2. \A m \in 1 .. n : x[m] = a[m] BY <1>2 DEF OnWay
  <2>3. l.array \in Seq(Nat) BY <1>10 DEF IsLevel
  <2>4. PICK b : b = l.array OBVIOUS
  <2>5. b \in Seq(Nat) /\ Len(b) = Len(a) /\ \A m \in 1 .. Len(b) : b[m] = a[m]
    BY <2>1, <2>2, <2>3, <2>4, <1>2, <1>10
  <2>6. b = a BY <2>5, SameNames
  <2> QED BY <2>4, <2>6
<1>12. x[n + 1] = Bucket(l)[n + 1]
  <2>1. \A m \in 1 .. n + 1 : x[m] = Bucket(l)[m]
    BY <1>1, <1>4, <1>5, <1>6, <1>8, <1>10, PathPrefix
  <2>2. n + 1 \in 1 .. n + 1 BY <1>8
  <2> QED BY <2>1, <2>2
<1>13. Bucket(l)[n + 1] = l.hash % TwoTo[l.shift]
  <2>1. Len(Bucket(l)) = n + 1 /\ IndexOf(Bucket(l)) = l.hash % TwoTo[l.shift]
    BY <1>10, BucketProperties
  <2> QED BY <2>1 DEF IndexOf
<1>14. x[n + 1] \in Nat /\ x[n + 1] < TwoTo[SizesDown(s)[n]]
  BY <1>10, <1>12, <1>13, BucketProperties
<1>15. Append(a, x[n + 1]) = Level(s, h, n + 1).array
  BY <1>10, <1>11, <1>12, <1>13 DEF Bucket
<1>16. Append(a, x[n + 1]) \in A \cup {x}
  <2>1. CASE n = d BY <2>1, <1>5, <1>15
  <2>2. CASE n # d
    <3>1. n + 1 \in 0 .. d BY <2>2, <1>8
    <3>2. Level(s, h, n + 1).array \in A BY <1>3, <1>4, <3>1, PathInTree
    <3> QED BY <3>2, <1>15
  <2> QED BY <2>1, <2>2
<1> QED BY <1>2, <1>7, <1>14, <1>16

\* Arrays and buckets have names of one kind.
LEMMA TreeNames ==
  ASSUME NEW s, NEW A, NEW S, Tree(s, A, S)
  PROVE  /\ A \subseteq Seq(Nat) /\ DOMAIN S \subseteq Seq(Nat) \ {<< >>}
         /\ \A b \in DOMAIN S : ArrayOf(b) \in A
                                /\ IndexOf(b) < TwoTo[SizesDown(s)[Len(ArrayOf(b))]]
         /\ \A a \in A : a # Root => ArrayOf(a) \in A /\ a # << >>
                                /\ IndexOf(a) < TwoTo[SizesDown(s)[Len(ArrayOf(a))]]
<1>1. ShiftOK(s) BY DEF Tree
<1>2. ASSUME NEW h \in Hashes, NEW d \in Nat, NEW x, x = Bucket(Level(s, h, d)),
             Level(s, h, d).array \in A
      PROVE  /\ x \in Seq(Nat) /\ x # << >> /\ ArrayOf(x) \in A
             /\ IndexOf(x) < TwoTo[SizesDown(s)[Len(ArrayOf(x))]]
  <2>1. h \in Words BY HashesAreWords
  <2>2. IsLevel(Level(s, h, d)) /\ Len(Level(s, h, d).array) = d
    BY <1>1, <2>1, LevelSteps, PathLength
  <2>3. SizesDown(s)[d] = Level(s, h, d).shift BY <1>1, <2>1, SizesDownAreShifts
  <2>4. /\ x \in Seq(Nat) /\ Len(x) = d + 1 /\ ArrayOf(x) = Level(s, h, d).array
        /\ IndexOf(x) < TwoTo[Level(s, h, d).shift]
    BY <1>2, <2>2, BucketProperties
  <2>5. x # << >> BY <2>4
  <2> QED BY <1>2, <2>2, <2>3, <2>4, <2>5
<1>3. Root \in Seq(Nat) /\ Root = << >> BY DEF Root
<1>4. ASSUME NEW a \in A, a # Root
      PROVE  /\ a \in Seq(Nat) /\ a # << >> /\ ArrayOf(a) \in A
             /\ IndexOf(a) < TwoTo[SizesDown(s)[Len(ArrayOf(a))]]
  <2>1. PICK h \in Hashes, d \in Nat : a = Bucket(Level(s, h, d)) /\ Level(s, h, d).array \in A
    BY <1>4 DEF Tree, IsChild
  <2> QED BY <2>1, <1>2
<1>5. ASSUME NEW b \in DOMAIN S
      PROVE  /\ b \in Seq(Nat) /\ b # << >> /\ ArrayOf(b) \in A
             /\ IndexOf(b) < TwoTo[SizesDown(s)[Len(ArrayOf(b))]]
  <2>1. PICK h \in Hashes, d \in Nat : b = Bucket(Level(s, h, d)) /\ Level(s, h, d).array \in A
    BY DEF Tree, IsSlot
  <2> QED BY <2>1, <1>2
<1> QED BY <1>3, <1>4, <1>5

\* Where the iterator goes on after a bucket
After(b) == Append(ArrayOf(b), IndexOf(b) + 1)

\* The bucket that the loop of the iterator is at
Cut(p) == Append(p.array, p.index)

\* What the loop can be at: a bucket of an array of the map, with its size_shift
IsPlace(p) ==
  /\ p \in Places
  /\ p.array \in arrays
  /\ p.shift = ArrayShift(p.array)

\* What the loop is to return from there: the first bucket in use of those that
\* are not before it, and after it are the ones that are neither
IsFirstFrom(p, r) ==
  IF r = Done
  THEN \A x \in DOMAIN slots : Before(x, Cut(p))
  ELSE /\ r.bucket \in DOMAIN slots
       /\ r.shift = ArrayShift(ArrayOf(r.bucket))
       /\ ~ Before(r.bucket, Cut(p))
       /\ \A x \in DOMAIN slots :
            Before(x, After(r.bucket)) <=> Before(x, Cut(p)) \/ x = r.bucket

\* Before where the iterator goes on after a bucket are the buckets before that
\* bucket, itself, and those below it.
LEMMA BeforeAfter ==
  ASSUME NEW b \in Seq(Nat), b # << >>, NEW x \in Seq(Nat)
  PROVE  Before(x, After(b)) <=> Before(x, b) \/ OnWay(b, x)
<1>1. PICK a, i : a = ArrayOf(b) /\ i = IndexOf(b) OBVIOUS
<1>2. a \in Seq(Nat) /\ i \in Nat /\ b = Append(a, i) BY <1>1, BucketOfArray
<1>3. i + 1 \in Nat BY <1>2
<1>4. Before(x, Append(a, i + 1)) <=>
        \/ Before(x, a)
        \/ OnWay(a, x) /\ Len(a) < Len(x) /\ x[Len(a) + 1] < i + 1
  BY <1>2, <1>3, BeforeBucket
<1>5. Before(x, b) <=>
        \/ Before(x, a)
        \/ OnWay(a, x) /\ Len(a) < Len(x) /\ x[Len(a) + 1] < i
  BY <1>2, BeforeBucket
<1>6. OnWay(b, x) <=> OnWay(a, x) /\ Len(a) < Len(x) /\ x[Len(a) + 1] = i
  BY <1>2, BucketOnWay
<1>7. Len(a) < Len(x) => (x[Len(a) + 1] < i + 1 <=> x[Len(a) + 1] < i \/ x[Len(a) + 1] = i)
  <2>1. PICK n, l \in Nat : n = Len(a) /\ l = Len(x) BY <1>2
  <2>2. n < l => n + 1 \in 1 .. l OBVIOUS
  <2>3. n < l => x[n + 1] \in Nat BY <2>1, <2>2
  <2>4. \A k \in Nat : k < i + 1 <=> k < i \/ k = i BY <1>2
  <2> QED BY <2>1, <2>3, <2>4
<1>8. After(b) = Append(a, i + 1) BY <1>1 DEF After
<1> QED BY <1>4, <1>5, <1>6, <1>7, <1>8

\* Nothing is before the first bucket of an array that is not before the array.
LEMMA BeforeFirst ==
  ASSUME NEW b \in Seq(Nat), NEW x \in Seq(Nat)
  PROVE  Before(x, Append(b, 0)) <=> Before(x, b)
<1>1. Before(x, Append(b, 0)) <=>
        Before(x, b) \/ (OnWay(b, x) /\ Len(b) < Len(x) /\ x[Len(b) + 1] < 0)
  BY BeforeBucket
<1>2. PICK n, l \in Nat : n = Len(b) /\ l = Len(x) OBVIOUS
<1>3. n < l => n + 1 \in 1 .. l OBVIOUS
<1>4. n < l => x[n + 1] \in Nat BY <1>2, <1>3
<1>5. n < l => ~ (x[n + 1] < 0) BY <1>4
<1> QED BY <1>1, <1>2, <1>5

\* An array has the number of buckets that the iterator takes it to have.
LEMMA ArraySize ==
  ASSUME ShiftOK(shift), NEW a \in Seq(Nat)
  PROVE  /\ TwoTo[ArrayShift(a)] \in Nat
         /\ ArrayShift(a) = SizesDown(shift)[Len(a)]
         /\ ArrayShift(a) \in Nat
<1>1. Len(a) \in Nat OBVIOUS
<1>2. ArrayShift(a) = SizesDown(shift)[Len(a)] BY ArrayShiftIs
<1>3. ShiftOK(ArrayShift(a)) BY <1>1, <1>2, SizesDownOK
<1>4. ArrayShift(a) \in 0 .. HashBits /\ ArrayShift(a) \in Nat BY <1>3, ShiftBits
<1>5. TwoTo[ArrayShift(a)] \in Nat \ {0} BY <1>4, Sizes
<1> QED BY <1>2, <1>4, <1>5

\* What is in use or has children, and is below the array of the loop, is before
\* the bucket the loop is at, or under one that is ahead.
LEMMA BelowIsAhead ==
  ASSUME Tree(shift, arrays, slots), NEW p, IsPlace(p),
         NEW x \in arrays \cup DOMAIN slots,
         OnWay(p.array, x), Len(p.array) < Len(x)
  PROVE  /\ x[Len(p.array) + 1] \in Nat
         /\ x[Len(p.array) + 1] >= p.index => x[Len(p.array) + 1] \in Ahead(p)
<1>1. PICK a : a = p.array OBVIOUS
<1>2. a \in Seq(Nat) /\ p.index \in Nat BY <1>1 DEF IsPlace, Places
<1>3. PICK j : j = x[Len(a) + 1] OBVIOUS
<1>4. ShiftOK(shift) BY DEF Tree
<1>5. /\ j \in Nat /\ j < TwoTo[SizesDown(shift)[Len(a)]]
      /\ Append(a, j) \in arrays \cup {x}
  BY <1>1, <1>2, <1>3, WayDown
<1>6. j < TwoTo[ArrayShift(a)] /\ TwoTo[ArrayShift(a)] \in Nat BY <1>2, <1>4, <1>5, ArraySize
<1>7. j >= p.index => j \in p.index .. TwoTo[ArrayShift(a)] - 1 BY <1>2, <1>5, <1>6
<1>8. Append(a, j) \in arrays \cup DOMAIN slots BY <1>5
<1> QED BY <1>1, <1>3, <1>5, <1>7, <1>8 DEF Ahead

\* The loop reaches the first bucket in use or with children; what is before
\* that is before where the loop was.
LEMMA ReachedIsFirst ==
  ASSUME Tree(shift, arrays, slots), NEW p, IsPlace(p), Ahead(p) # {}
  PROVE  /\ Reached(p) \in Seq(Nat) /\ Reached(p) # << >>
         /\ Reached(p) \in arrays \cup DOMAIN slots
         /\ ArrayOf(Reached(p)) = p.array
         /\ Len(Reached(p)) = Len(p.array) + 1
         /\ OnWay(p.array, Reached(p))
         /\ ~ Before(Reached(p), Cut(p))
         /\ \A x \in Seq(Nat) : Before(x, Cut(p)) => Before(x, Reached(p))
         /\ \A x \in arrays \cup DOMAIN slots : Before(x, Cut(p)) <=> Before(x, Reached(p))
<1>1. PICK a, i : a = p.array /\ i = p.index OBVIOUS
<1>2. a \in Seq(Nat) /\ i \in Nat BY <1>1 DEF IsPlace, Places
<1>3. ShiftOK(shift) BY DEF Tree
<1>4. PICK j : j = Min(Ahead(p)) OBVIOUS
<1>5. j \in Ahead(p) /\ \A k \in Ahead(p) : j <= k
  <2>1. TwoTo[ArrayShift(a)] \in Nat BY <1>2, <1>3, ArraySize
  <2>2. Ahead(p) \subseteq i .. TwoTo[ArrayShift(a)] - 1 BY <1>1 DEF Ahead
  <2>3. Ahead(p) \subseteq Nat BY <2>1, <2>2, <1>2
  <2> QED BY <2>3, <1>4, MinIsLeast
<1>6. j \in Nat /\ i <= j /\ Append(a, j) \in arrays \cup DOMAIN slots
  <2>1. TwoTo[ArrayShift(a)] \in Nat BY <1>2, <1>3, ArraySize
  <2> QED BY <2>1, <1>1, <1>2, <1>5 DEF Ahead
<1>7. PICK b : b = Append(a, j) OBVIOUS
<1>8. Reached(p) = b BY <1>1, <1>4, <1>7 DEF Reached
<1>9. PICK n \in Nat : n = Len(a) BY <1>2
<1>10. b \in Seq(Nat) /\ Len(b) = n + 1 /\ b[n + 1] = j /\ \A m \in 1 .. n : b[m] = a[m]
  BY <1>2, <1>6, <1>7, <1>9
<1>11. b # << >> BY <1>10
<1>12. ArrayOf(b) = a
  <2>1. (n + 1) - 1 = n OBVIOUS
  <2>2. ArrayOf(b) = SubSeq(b, 1, n) BY <1>10, <2>1 DEF ArrayOf
  <2>3. PICK c : c = SubSeq(b, 1, n) OBVIOUS
  <2>4. c \in Seq(Nat) /\ Len(c) = n /\ \A m \in 1 .. n : c[m] = b[m] BY <1>10, <2>3
  <2>5. c = a BY <2>4, <1>2, <1>9, <1>10, SameNames
  <2> QED BY <2>2, <2>3, <2>5
<1>13. OnWay(a, b) BY <1>9, <1>10 DEF OnWay
<1>14. \A x \in Seq(Nat) :
         /\ Before(x, Append(a, i)) <=>
              \/ Before(x, a)
              \/ OnWay(a, x) /\ Len(a) < Len(x) /\ x[Len(a) + 1] < i
         /\ Before(x, b) <=>
              \/ Before(x, a)
              \/ OnWay(a, x) /\ Len(a) < Len(x) /\ x[Len(a) + 1] < j
  BY <1>2, <1>6, <1>7, BeforeBucket
<1>15. Cut(p) = Append(a, i) BY <1>1 DEF Cut
<1>16. ~ Before(b, Append(a, i))
  <2>1. ~ Before(b, a) BY <1>2, <1>10, <1>13, BeforeNotOnWay
  <2>2. ~ (b[Len(a) + 1] < i) BY <1>2, <1>6, <1>9, <1>10
  <2> QED BY <2>1, <2>2, <1>10, <1>14
<1>17. \A x \in Seq(Nat) : Len(a) < Len(x) => x[Len(a) + 1] \in Nat
  <2>1. SUFFICES ASSUME NEW x \in Seq(Nat), n < Len(x) PROVE x[n + 1] \in Nat BY <1>9
  <2>2. n + 1 \in 1 .. Len(x) BY <2>1
  <2> QED BY <2>2
<1>18. ASSUME NEW x \in Seq(Nat), Before(x, Append(a, i)) PROVE Before(x, b)
  <2>1. CASE Before(x, a) BY <2>1, <1>14
  <2>2. CASE OnWay(a, x) /\ Len(a) < Len(x) /\ x[Len(a) + 1] < i
    <3>1. x[Len(a) + 1] < j BY <2>2, <1>2, <1>6, <1>17
    <3> QED BY <2>2, <3>1, <1>14
  <2> QED BY <2>1, <2>2, <1>14, <1>18
<1>19. ASSUME NEW x \in arrays \cup DOMAIN slots, Before(x, b)
       PROVE  Before(x, Append(a, i))
  <2>0. x \in Seq(Nat) BY TreeNames
  <2>1. CASE Before(x, a) BY <2>0, <2>1, <1>14
  <2>2. CASE OnWay(a, x) /\ Len(a) < Len(x) /\ x[Len(a) + 1] < j
    <3>1. /\ x[Len(a) + 1] \in Nat
          /\ x[Len(a) + 1] >= i => x[Len(a) + 1] \in Ahead(p)
      BY <1>1, <2>2, BelowIsAhead
    <3>2. x[Len(a) + 1] \notin Ahead(p) BY <3>1, <2>2, <1>5, <1>6
    <3>3. x[Len(a) + 1] < i BY <3>1, <3>2, <1>2
    <3> QED BY <2>0, <2>2, <3>3, <1>14
  <2> QED BY <2>0, <2>1, <2>2, <1>14, <1>19
<1>20. \A x \in arrays \cup DOMAIN slots : x \in Seq(Nat) BY TreeNames
<1> QED BY <1>1, <1>6, <1>7, <1>8, <1>9, <1>10, <1>11, <1>12, <1>13, <1>15, <1>16, <1>18, <1>19, <1>20

\* At the end of an array, what is below it is before where the loop is.
LEMMA NoneAhead ==
  ASSUME Tree(shift, arrays, slots), NEW p, IsPlace(p), Ahead(p) = {},
         NEW x \in arrays \cup DOMAIN slots
  PROVE  Before(x, Cut(p)) <=> Before(x, p.array) \/ (OnWay(p.array, x) /\ x # p.array)
<1>1. PICK a, i : a = p.array /\ i = p.index OBVIOUS
<1>2. a \in Seq(Nat) /\ i \in Nat /\ x \in Seq(Nat) BY <1>1, TreeNames DEF IsPlace, Places
<1>3. Before(x, Append(a, i)) <=>
              \/ Before(x, a)
              \/ OnWay(a, x) /\ Len(a) < Len(x) /\ x[Len(a) + 1] < i
  BY <1>2, BeforeBucket
<1>4. OnWay(a, x) => (Len(a) < Len(x) <=> x # a)
  <2>1. ASSUME OnWay(a, x), ~ (Len(a) < Len(x)) PROVE x = a
    <3>1. Len(x) = Len(a) BY <1>2, <2>1 DEF OnWay
    <3>2. \A m \in 1 .. Len(x) : x[m] = a[m] BY <2>1, <3>1 DEF OnWay
    <3> QED BY <1>2, <3>1, <3>2, SameNames
  <2>2. x = a => ~ (Len(a) < Len(x)) BY <1>2
  <2> QED BY <2>1, <2>2
<1>5. OnWay(a, x) /\ Len(a) < Len(x) => x[Len(a) + 1] < i
  <2>1. SUFFICES ASSUME OnWay(a, x), Len(a) < Len(x) PROVE x[Len(a) + 1] < i OBVIOUS
  <2>2. x[Len(a) + 1] \in Nat /\ (x[Len(a) + 1] >= i => x[Len(a) + 1] \in Ahead(p))
    BY <1>1, <2>1, BelowIsAhead
  <2> QED BY <2>2, <1>2
<1>6. Cut(p) = Append(a, i) BY <1>1 DEF Cut
<1> QED BY <1>1, <1>3, <1>4, <1>5, <1>6

\* A name is on the way to itself.
LEMMA OnOwnWay == ASSUME NEW a \in Seq(Nat) PROVE OnWay(a, a)
BY DEF OnWay

\* Names that are on the way to each other are the same.
LEMMA OnWayBoth ==
  ASSUME NEW a \in Seq(Nat), NEW b \in Seq(Nat), OnWay(a, b), OnWay(b, a)
  PROVE  a = b
<1>1. Len(a) = Len(b) /\ \A m \in 1 .. Len(a) : a[m] = b[m] BY DEF OnWay
<1> QED BY <1>1, SameNames

\* The loop returns a bucket in use that it reaches, if that has no children.
LEMMA StopsAtReached ==
  ASSUME Tree(shift, arrays, slots), NEW p, IsPlace(p), Ahead(p) # {},
         Reached(p) \notin arrays
  PROVE  IsFirstFrom(p, [bucket |-> Reached(p), shift |-> p.shift])
<1>1. PICK b, a, r : /\ b = Reached(p) /\ a = p.array
                     /\ r = [bucket |-> b, shift |-> p.shift]
  OBVIOUS
<1>2. /\ b \in Seq(Nat) /\ b # << >> /\ b \in DOMAIN slots /\ ArrayOf(b) = a
      /\ OnWay(a, b)
      /\ ~ Before(b, Cut(p))
      /\ \A x \in DOMAIN slots : Before(x, Cut(p)) <=> Before(x, b)
  BY <1>1, ReachedIsFirst
<1>3. r.bucket = b /\ r.shift = p.shift /\ r # Done BY <1>1, <1>2 DEF Done
<1>4. p.shift = ArrayShift(a) BY <1>1 DEF IsPlace
<1>5. a \in Seq(Nat) BY <1>1 DEF IsPlace, Places
<1>6. ASSUME NEW x \in DOMAIN slots PROVE Before(x, After(b)) <=> Before(x, Cut(p)) \/ x = b
  <2>1. x \in Seq(Nat) BY TreeNames
  <2>2. Before(x, After(b)) <=> Before(x, b) \/ OnWay(b, x) BY <2>1, <1>2, BeforeAfter
  <2>3. ASSUME OnWay(b, x) PROVE x = b
    <3>1. PICK j \in Nat : j = IndexOf(b) /\ b = Append(a, j) BY <1>2, BucketOfArray
    <3>2. OnWay(a, x) /\ Len(a) < Len(x) /\ x[Len(a) + 1] = j
      BY <2>1, <2>3, <3>1, <1>5, BucketOnWay
    <3>3. Append(a, x[Len(a) + 1]) \in arrays \cup {x} BY <3>2, <1>5, WayDown
    <3>4. b \notin arrays BY <1>1
    <3> QED BY <3>1, <3>2, <3>3, <3>4
  <2>4. x = b => OnWay(b, x) BY <1>2, OnOwnWay
  <2> QED BY <1>2, <2>2, <2>3, <2>4
<1>7. IsFirstFrom(p, r) BY <1>2, <1>3, <1>4, <1>6 DEF IsFirstFrom
<1> QED BY <1>1, <1>7

\* From places with the same buckets before them, the same is to be returned.
LEMMA SameFirst ==
  ASSUME NEW p, NEW q, NEW r, IsFirstFrom(q, r),
         \A x \in DOMAIN slots : Before(x, Cut(q)) <=> Before(x, Cut(p))
  PROVE  IsFirstFrom(p, r)
BY DEF IsFirstFrom

\* Going down, the loop leaves no bucket in use behind.
LEMMA GoesDown ==
  ASSUME Tree(shift, arrays, slots), NEW p, IsPlace(p), Ahead(p) # {},
         Reached(p) \in arrays
  PROVE  /\ IsPlace(Down(p))
         /\ Down(p).array = Reached(p)
         /\ \A x \in Seq(Nat) : Before(x, Cut(Down(p))) <=> Before(x, Reached(p))
         /\ \A x \in DOMAIN slots : Before(x, Cut(Down(p))) <=> Before(x, Cut(p))
<1>1. PICK b, a, q : b = Reached(p) /\ a = p.array /\ q = Down(p) OBVIOUS
<1>2. /\ b \in Seq(Nat) /\ Len(b) = Len(a) + 1 /\ b \in arrays
      /\ \A x \in DOMAIN slots : Before(x, Cut(p)) <=> Before(x, b)
  BY <1>1, ReachedIsFirst
<1>3. q = [array |-> b, index |-> 0, shift |-> DownShift(p.shift)] BY <1>1 DEF Down
<1>4. ShiftOK(shift) BY DEF Tree
<1>5. a \in Seq(Nat) /\ p.shift = ArrayShift(a) BY <1>1 DEF IsPlace, Places
<1>6. DownShift(p.shift) = ArrayShift(b) /\ ArrayShift(b) \in Nat
  <2>1. /\ ArrayShift(a) = SizesDown(shift)[Len(a)]
        /\ ArrayShift(b) = SizesDown(shift)[Len(b)] /\ ArrayShift(b) \in Nat
    BY <1>2, <1>4, <1>5, ArraySize
  <2>2. Len(a) \in Nat BY <1>5
  <2>3. SizesDown(shift)[Len(a) + 1] = DownShift(SizesDown(shift)[Len(a)])
    BY <2>2, <1>4, SizesDownOK
  <2> QED BY <2>1, <2>3, <1>2, <1>5
<1>7. q \in Places BY <1>2, <1>3, <1>6 DEF Places
<1>8. IsPlace(q) BY <1>2, <1>3, <1>6, <1>7 DEF IsPlace
<1>9. Cut(q) = Append(b, 0) BY <1>3 DEF Cut
<1>10. \A x \in Seq(Nat) : Before(x, Cut(q)) <=> Before(x, b) BY <1>2, <1>9, BeforeFirst
<1>11. DOMAIN slots \subseteq Seq(Nat) BY TreeNames
<1> QED BY <1>1, <1>2, <1>3, <1>8, <1>10, <1>11

\* At the end of the root array nothing is left.
LEMMA EndOfRoot ==
  ASSUME Tree(shift, arrays, slots), NEW p, IsPlace(p), Ahead(p) = {}, p.array = Root
  PROVE  IsFirstFrom(p, Done)
<1>1. ASSUME NEW x \in DOMAIN slots PROVE Before(x, Cut(p))
  <2>1. x \in Seq(Nat) /\ x # Root BY TreeNames DEF Root
  <2>2. OnWay(Root, x) BY <2>1 DEF OnWay, Root
  <2> QED BY <2>1, <2>2, NoneAhead
<1> QED BY <1>1 DEF IsFirstFrom

\* At the end of another array, before the bucket after the one that the array
\* hangs off is what is before the end, and that bucket.
LEMMA EndOfArray ==
  ASSUME Tree(shift, arrays, slots), NEW p, IsPlace(p), Ahead(p) = {}, p.array # Root
  PROVE  /\ ~ Before(p.array, Cut(p))
         /\ \A x \in arrays \cup DOMAIN slots :
              Before(x, After(p.array)) <=> Before(x, Cut(p)) \/ x = p.array
<1>1. PICK a : a = p.array OBVIOUS
<1>2. a \in Seq(Nat) /\ a \in arrays /\ a # << >> BY <1>1 DEF IsPlace, Places, Root
<1>3. OnWay(a, a) /\ ~ Before(a, a) BY <1>2, OnOwnWay, BeforeNotOnWay
<1>4. ~ Before(a, Cut(p)) BY <1>1, <1>2, <1>3, NoneAhead
<1>5. ASSUME NEW x \in arrays \cup DOMAIN slots
      PROVE  Before(x, After(a)) <=> Before(x, Cut(p)) \/ x = a
  <2>1. x \in Seq(Nat) BY TreeNames
  <2>2. Before(x, After(a)) <=> Before(x, a) \/ OnWay(a, x) BY <1>2, <2>1, BeforeAfter
  <2>3. Before(x, Cut(p)) <=> Before(x, a) \/ (OnWay(a, x) /\ x # a) BY <1>1, NoneAhead
  <2> QED BY <2>2, <2>3, <1>3
<1> QED BY <1>1, <1>4, <1>5

\* The bucket that the array hangs off is returned if it is in use,
LEMMA StopsAtParent ==
  ASSUME NoZeroHash, Tree(shift, arrays, slots), NEW p, IsPlace(p), Ahead(p) = {},
         p.array # Root, ParentHolds(p.array)
  PROVE  IsFirstFrom(p, [bucket |-> p.array, shift |-> UpShift(p.array)])
<1>1. PICK a, r : a = p.array /\ r = [bucket |-> a, shift |-> UpShift(a)] OBVIOUS
<1>2. a \in DOMAIN slots BY <1>1, FreeIsNoSlot DEF ParentHolds
<1>3. r.bucket = a /\ r.shift = ArrayShift(ArrayOf(a)) /\ r # Done
  BY <1>1 DEF UpShift, Root, Done
<1>4. ~ Before(a, Cut(p)) BY <1>1, EndOfArray
<1>5. \A x \in DOMAIN slots : Before(x, After(a)) <=> Before(x, Cut(p)) \/ x = a
  BY <1>1, EndOfArray
<1>6. IsFirstFrom(p, r) BY <1>2, <1>3, <1>4, <1>5 DEF IsFirstFrom
<1> QED BY <1>1, <1>6

\* and if not, the loop goes on after it.
LEMMA GoesUp ==
  ASSUME NoZeroHash, Tree(shift, arrays, slots), NEW p, IsPlace(p), Ahead(p) = {},
         p.array # Root
  PROVE  /\ IsPlace(Up(p))
         /\ Up(p).array = ArrayOf(p.array)
         /\ Cut(Up(p)) = After(p.array)
         /\ ~ ParentHolds(p.array) =>
              \A x \in DOMAIN slots : Before(x, Cut(Up(p))) <=> Before(x, Cut(p))
<1>1. PICK a, u, q : a = p.array /\ u = ArrayOf(a) /\ q = Up(p) OBVIOUS
<1>2. a \in Seq(Nat) /\ a \in arrays /\ a # << >> BY <1>1 DEF IsPlace, Places, Root
<1>3. u \in arrays BY <1>1, <1>2, TreeNames
<1>4. u \in Seq(Nat) /\ IndexOf(a) \in Nat BY <1>1, <1>2, BucketOfArray
<1>5. q = [array |-> u, index |-> IndexOf(a) + 1, shift |-> ArrayShift(u)]
  BY <1>1 DEF Up, UpShift
<1>6. ArrayShift(u) \in Nat BY <1>4, ArraySize DEF Tree
<1>7. IsPlace(q) BY <1>3, <1>4, <1>5, <1>6 DEF IsPlace, Places
<1>8. Cut(q) = After(a) BY <1>1, <1>5 DEF Cut, After
<1>9. ASSUME ~ ParentHolds(a), NEW x \in DOMAIN slots
      PROVE  Before(x, Cut(q)) <=> Before(x, Cut(p))
  <2>1. a \notin DOMAIN slots BY <1>9, FreeIsNoSlot DEF ParentHolds
  <2>2. x # a BY <2>1
  <2>3. Before(x, After(a)) <=> Before(x, Cut(p)) \/ x = a BY <1>1, EndOfArray
  <2> QED BY <2>2, <2>3, <1>8
<1> QED BY <1>1, <1>5, <1>7, <1>8, <1>9

\* What FirstFrom returns where the loop stops
AtStop(p) ==
  IF Ahead(p) # {}
  THEN [bucket |-> Reached(p), shift |-> p.shift]
  ELSE IF p.array = Root
       THEN Done
       ELSE [bucket |-> p.array, shift |-> UpShift(p.array)]

\* Does the loop go down from a place, or up?
IsDown(p) == Ahead(p) # {} /\ Reached(p) \in arrays

IsUp(p) == Ahead(p) = {} /\ p.array # Root /\ ~ ParentHolds(p.array)

\* Above and below every place of an array is a place of an array.
LEMMA PlacesAround ==
  ASSUME ShiftOK(shift), NEW p \in Places
  PROVE  /\ IsDown(p) => Down(p) \in Places
         /\ IsUp(p) => Up(p) \in Places
<1>1. PICK a, i, s : a = p.array /\ i = p.index /\ s = p.shift OBVIOUS
<1>2. a \in Seq(Nat) /\ i \in Nat /\ s \in Nat BY <1>1 DEF Places
<1>3. ASSUME IsDown(p) PROVE Down(p) \in Places
  <2>1. PICK j : j = Min(Ahead(p)) OBVIOUS
  <2>2. TwoTo[ArrayShift(a)] \in Nat BY <1>2, ArraySize
  <2>3. Ahead(p) \subseteq i .. TwoTo[ArrayShift(a)] - 1 BY <1>1 DEF Ahead
  <2>4. Ahead(p) \subseteq Nat /\ Ahead(p) # {} BY <2>2, <2>3, <1>2, <1>3 DEF IsDown
  <2>5. j \in Nat BY <2>1, <2>4, MinIsLeast
  <2>6. Reached(p) = Append(a, j) BY <1>1, <2>1 DEF Reached
  <2>7. Reached(p) \in Seq(Nat) BY <2>5, <2>6, <1>2
  <2>8. DownShift(s) \in Nat
    <3>1. CASE s - 2 \in Nat
      <4>1. MinShift \in Nat BY DEF MinShift
      <4> QED BY <3>1, <4>1, GreaterOfTwo DEF DownShift
    <3>2. CASE s - 2 \notin Nat
      <4>1. s - 2 \in Int /\ s - 2 < 0 BY <1>2, <3>2
      <4>2. \E x \in {s - 2, 4} : \A y \in {s - 2, 4} : x >= y BY <4>1
      <4>3. Max({s - 2, 4}) \in {s - 2, 4} /\ \A y \in {s - 2, 4} : Max({s - 2, 4}) >= y
        BY <4>2 DEF Max
      <4>4. Max({s - 2, 4}) = 4 BY <4>1, <4>3
      <4> QED BY <4>4 DEF DownShift, MinShift
    <3> QED BY <3>1, <3>2
  <2> QED BY <1>1, <2>7, <2>8 DEF Down, Places
<1>4. ASSUME IsUp(p) PROVE Up(p) \in Places
  <2>1. a # << >> BY <1>1, <1>4 DEF IsUp, Root
  <2>2. ArrayOf(a) \in Seq(Nat) /\ IndexOf(a) \in Nat BY <2>1, <1>2, BucketOfArray
  <2>3. ArrayShift(ArrayOf(a)) \in Nat BY <2>2, ArraySize
  <2> QED BY <1>1, <2>2, <2>3 DEF Up, UpShift, Places
<1> QED BY <1>3, <1>4

\* The loop is the function that FirstFrom is defined to be.
LEMMA FirstFromSteps ==
  ASSUME ShiftOK(shift), NEW p \in Places
  PROVE  FirstFrom[p] = IF IsDown(p) THEN FirstFrom[Down(p)]
                        ELSE IF IsUp(p) THEN FirstFrom[Up(p)]
                        ELSE AtStop(p)
<1> DEFINE Stop == {q \in Places : ~ IsDown(q) /\ ~ IsUp(q)}
           G == [q \in Places |-> IF IsDown(q) THEN Down(q) ELSE IF IsUp(q) THEN Up(q) ELSE q]
           R == [q \in Places |-> AtStop(q)]
           Is(f) == f = [q \in Places |->
                      IF Ahead(q) # {}
                      THEN IF Reached(q) \in arrays
                           THEN f[Down(q)]
                           ELSE [bucket |-> Reached(q), shift |-> q.shift]
                      ELSE IF q.array = Root
                           THEN Done
                           ELSE IF ParentHolds(q.array)
                                THEN [bucket |-> q.array, shift |-> UpShift(q.array)]
                                ELSE f[Up(q)]]
<1>1. G \in [Places -> Places] BY PlacesAround
<1>2. \E f : IsLoop(f, Places, Stop, R, G)
  <2> HIDE DEF Stop, G, R
  <2> QED BY <1>1, TailRecursion
<1>3. PICK f : IsLoop(f, Places, Stop, R, G) BY <1>2
<1>4. ASSUME NEW q \in Places
      PROVE  f[q] = IF Ahead(q) # {}
                    THEN IF Reached(q) \in arrays
                         THEN f[Down(q)]
                         ELSE [bucket |-> Reached(q), shift |-> q.shift]
                    ELSE IF q.array = Root
                         THEN Done
                         ELSE IF ParentHolds(q.array)
                              THEN [bucket |-> q.array, shift |-> UpShift(q.array)]
                              ELSE f[Up(q)]
  <2>0. f[q] = IF q \in Stop THEN R[q] ELSE f[G[q]]
    <3> HIDE DEF Stop, G, R
    <3> QED BY <1>3 DEF IsLoop
  <2>1. CASE IsDown(q)
    <3>1. f[q] = f[Down(q)] BY <2>0, <2>1
    <3> QED BY <2>1, <3>1 DEF IsDown
  <2>2. CASE IsUp(q)
    <3>1. ~ IsDown(q) BY <2>2 DEF IsDown, IsUp
    <3>2. f[q] = f[Up(q)] BY <2>0, <2>2, <3>1
    <3> QED BY <2>2, <3>2 DEF IsUp
  <2>3. CASE ~ IsDown(q) /\ ~ IsUp(q)
    <3>1. f[q] = AtStop(q) BY <2>0, <2>3
    <3> QED BY <2>3, <3>1 DEF IsDown, IsUp, AtStop
  <2> QED BY <2>1, <2>2, <2>3
<1>5. Is(f)
  <2>1. f = [q \in Places |-> f[q]] BY <1>3 DEF IsLoop
  <2> QED BY <2>1, <1>4
<1>6. FirstFrom = CHOOSE g : Is(g) BY Zenon DEF FirstFrom
<1>7. Is(FirstFrom)
  <2> HIDE DEF Is
  <2> QED BY <1>5, <1>6
<1>8. PICK g : g = FirstFrom OBVIOUS
<1>9. Is(g) BY <1>7, <1>8
<1>10. g[p] = IF Ahead(p) # {}
              THEN IF Reached(p) \in arrays
                   THEN g[Down(p)]
                   ELSE [bucket |-> Reached(p), shift |-> p.shift]
              ELSE IF p.array = Root
                   THEN Done
                   ELSE IF ParentHolds(p.array)
                        THEN [bucket |-> p.array, shift |-> UpShift(p.array)]
                        ELSE g[Up(p)]
  BY <1>9
<1>11. g[p] = IF IsDown(p) THEN g[Down(p)] ELSE IF IsUp(p) THEN g[Up(p)] ELSE AtStop(p)
  <2> HIDE DEF Is
  <2> QED BY <1>10 DEF IsDown, IsUp, AtStop
<1> QED BY Zenon, <1>8, <1>11

\* The arrays that the loop may still go down to
Left(p) == {y \in arrays : ~ Before(y, Cut(p)) /\ ~ OnWay(y, p.array)}

\* More than the ways down and up that the loop can still go: it goes down once
\* to each array, and up once from each that it is at or goes down to.
Ways(p) == 2 * Cardinality(Left(p)) + Len(p.array)

LEMMA WaysAreFinite ==
  ASSUME Tree(shift, arrays, slots), NEW p, IsPlace(p)
  PROVE  /\ IsFiniteSet(Left(p)) /\ Cardinality(Left(p)) \in Nat
         /\ Ways(p) \in Nat
<1>1. IsFiniteSet(arrays) /\ Left(p) \subseteq arrays BY DEF Tree, Left
<1>2. IsFiniteSet(Left(p)) BY <1>1, FS_Subset
<1>3. Cardinality(Left(p)) \in Nat BY <1>2, FS_CardinalityType
<1>4. Len(p.array) \in Nat BY DEF IsPlace, Places
<1> QED BY <1>2, <1>3, <1>4 DEF Ways

\* If a is on the way to b and b to c, a is on the way to c.
LEMMA OnWayFurther ==
  ASSUME NEW a \in Seq(Nat), NEW b \in Seq(Nat), NEW c \in Seq(Nat),
         OnWay(a, b), OnWay(b, c)
  PROVE  OnWay(a, c)
<1>1. PICK n, m, l \in Nat : n = Len(a) /\ m = Len(b) /\ l = Len(c) OBVIOUS
<1>2. n <= m /\ \A i \in 1 .. n : b[i] = a[i] BY <1>1 DEF OnWay
<1>3. m <= l /\ \A i \in 1 .. m : c[i] = b[i] BY <1>1 DEF OnWay
<1>4. \A i \in 1 .. n : i \in 1 .. m BY <1>2
<1>5. n <= l /\ \A i \in 1 .. n : c[i] = a[i] BY <1>2, <1>3, <1>4
<1> QED BY <1>1, <1>5 DEF OnWay

\* There is less left below the place the loop goes down to,
LEMMA LessBelow ==
  ASSUME Tree(shift, arrays, slots), NEW p, IsPlace(p), IsDown(p)
  PROVE  Ways(Down(p)) < Ways(p)
<1>1. PICK b, a, q : b = Reached(p) /\ a = p.array /\ q = Down(p) OBVIOUS
<1>2. /\ b \in Seq(Nat) /\ b \in arrays /\ OnWay(a, b)
      /\ Len(b) = Len(a) + 1 /\ ~ Before(b, Cut(p))
      /\ \A x \in Seq(Nat) : Before(x, Cut(p)) => Before(x, b)
  BY <1>1, ReachedIsFirst DEF IsDown
<1>3. /\ IsPlace(q) /\ q.array = b
      /\ \A x \in Seq(Nat) : Before(x, Cut(q)) <=> Before(x, b)
  BY <1>1, GoesDown DEF IsDown
<1>4. a \in Seq(Nat) BY <1>1 DEF IsPlace, Places
<1>5. b \in Left(p)
  <2>1. ~ OnWay(b, a) BY <1>2, <1>4 DEF OnWay
  <2> QED BY <2>1, <1>1, <1>2 DEF Left
<1>6. ASSUME NEW y \in Left(q) PROVE y \in Left(p) \ {b}
  <2>1. y \in Seq(Nat) /\ y \in arrays BY TreeNames DEF Left
  <2>2. ~ Before(y, b) /\ ~ OnWay(y, b) BY <2>1, <1>3 DEF Left
  <2>3. ~ Before(y, Cut(p)) BY <2>1, <2>2, <1>2
  <2>4. ~ OnWay(y, a) BY <2>1, <2>2, <1>2, <1>4, OnWayFurther
  <2>5. y # b BY <2>2, <1>2, OnOwnWay
  <2> QED BY <2>1, <2>3, <2>4, <2>5, <1>1 DEF Left
<1>7. /\ IsFiniteSet(Left(p)) /\ Cardinality(Left(p)) \in Nat
      /\ IsFiniteSet(Left(q)) /\ Cardinality(Left(q)) \in Nat
  BY <1>3, WaysAreFinite
<1>8. IsFiniteSet(Left(p) \ {b}) /\ Cardinality(Left(p) \ {b}) = Cardinality(Left(p)) - 1
  BY <1>5, <1>7, FS_RemoveElement
<1>9. Left(q) \subseteq Left(p) \ {b} BY <1>6
<1>10. Cardinality(Left(q)) <= Cardinality(Left(p)) - 1 BY <1>8, <1>9, FS_Subset
<1>11. Len(q.array) = Len(a) + 1 /\ Len(a) \in Nat BY <1>2, <1>3, <1>4
<1> QED BY <1>1, <1>7, <1>10, <1>11 DEF Ways

\* and below the place it goes up to there is no more, and it is higher.
LEMMA LessAbove ==
  ASSUME NoZeroHash, Tree(shift, arrays, slots), NEW p, IsPlace(p), IsUp(p)
  PROVE  Ways(Up(p)) < Ways(p)
<1>1. PICK a, u, q : a = p.array /\ u = ArrayOf(a) /\ q = Up(p) OBVIOUS
<1>2. a \in Seq(Nat) /\ a \in arrays /\ a # << >>
  BY <1>1 DEF IsPlace, Places, Root, IsUp
<1>3. u \in Seq(Nat) /\ IndexOf(a) \in Nat /\ a = Append(u, IndexOf(a)) /\ Len(a) = Len(u) + 1
  BY <1>1, <1>2, BucketOfArray
<1>4. IsPlace(q) /\ q.array = u /\ Cut(q) = After(a) BY <1>1, GoesUp DEF IsUp
<1>5. ASSUME NEW y \in Left(q) PROVE y \in Left(p)
  <2>1. y \in Seq(Nat) /\ y \in arrays BY TreeNames DEF Left
  <2>2. ~ Before(y, After(a)) /\ ~ OnWay(y, u) BY <1>4 DEF Left
  <2>3. y # a /\ ~ Before(y, Cut(p)) BY <1>1, <2>1, <2>2, EndOfArray DEF IsUp
  <2>4. ~ OnWay(y, a)
    <3>1. SUFFICES ASSUME OnWay(y, a) PROVE FALSE OBVIOUS
    <3>2. PICK n, m \in Nat : n = Len(y) /\ m = Len(u) BY <2>1, <1>3
    <3>3. n <= m + 1 /\ \A i \in 1 .. n : a[i] = y[i] BY <3>1, <3>2, <1>3 DEF OnWay
    <3>4. CASE n = m + 1
      <4>1. OnWay(a, y) BY <3>2, <3>3, <3>4, <1>3 DEF OnWay
      <4> QED BY <4>1, <3>1, <2>1, <2>3, <1>2, OnWayBoth
    <3>5. CASE n # m + 1
      <4>1. n <= m BY <3>3, <3>5
      <4>2. \A i \in 1 .. m : a[i] = u[i] BY <3>2, <1>3
      <4>3. \A i \in 1 .. n : i \in 1 .. m BY <4>1
      <4>4. \A i \in 1 .. n : u[i] = y[i] BY <4>2, <4>3, <3>3
      <4>5. OnWay(y, u) BY <4>1, <4>4, <3>2 DEF OnWay
      <4> QED BY <4>5, <2>2
    <3> QED BY <3>4, <3>5
  <2> QED BY <2>1, <2>3, <2>4, <1>1 DEF Left
<1>6. /\ IsFiniteSet(Left(p)) /\ Cardinality(Left(p)) \in Nat
      /\ IsFiniteSet(Left(q)) /\ Cardinality(Left(q)) \in Nat
  BY <1>4, WaysAreFinite
<1>7. Cardinality(Left(q)) <= Cardinality(Left(p)) BY <1>5, <1>6, FS_Subset
<1>8. Len(u) \in Nat BY <1>3
<1> QED BY <1>1, <1>3, <1>4, <1>6, <1>7, <1>8 DEF Ways

\* The loop returns what it is to return.
LEMMA FirstFromIsFirst ==
  ASSUME NoZeroHash, Tree(shift, arrays, slots), NEW p, IsPlace(p)
  PROVE  IsFirstFrom(p, FirstFrom[p])
<1> DEFINE T == {n \in Nat : \A q \in Places :
                   IsPlace(q) /\ Ways(q) < n => IsFirstFrom(q, FirstFrom[q])}
<1>1. 0 \in T
  <2>1. ASSUME NEW q \in Places, IsPlace(q) PROVE ~ (Ways(q) < 0)
    <3>1. Ways(q) \in Nat BY <2>1, WaysAreFinite
    <3> QED BY <3>1
  <2> QED BY <2>1
<1>2. ASSUME NEW n \in Nat, n \in T PROVE n + 1 \in T
  <2>1. SUFFICES ASSUME NEW q \in Places, IsPlace(q), Ways(q) < n + 1
                 PROVE  IsFirstFrom(q, FirstFrom[q])
    OBVIOUS
  <2>2. Ways(q) \in Nat BY <2>1, WaysAreFinite
  <2>3. ShiftOK(shift) BY DEF Tree
  <2>4. FirstFrom[q] = IF IsDown(q) THEN FirstFrom[Down(q)]
                       ELSE IF IsUp(q) THEN FirstFrom[Up(q)]
                       ELSE AtStop(q)
    BY <2>3, FirstFromSteps
  <2>5. \A r \in Places : IsPlace(r) /\ Ways(r) < n => IsFirstFrom(r, FirstFrom[r])
    BY <1>2
  <2> HIDE DEF T
  <2>6. CASE IsDown(q)
    <3>1. PICK r : r = Down(q) OBVIOUS
    <3>2. /\ IsPlace(r)
          /\ \A x \in DOMAIN slots : Before(x, Cut(r)) <=> Before(x, Cut(q))
      BY <2>1, <2>6, <3>1, GoesDown DEF IsDown
    <3>3. Ways(r) < Ways(q) /\ Ways(r) \in Nat
      BY <2>1, <2>6, <3>1, <3>2, LessBelow, WaysAreFinite
    <3>4. Ways(r) < n BY <2>1, <2>2, <3>3
    <3>5. IsFirstFrom(r, FirstFrom[r]) BY <2>5, <3>2, <3>4 DEF IsPlace
    <3>6. IsFirstFrom(q, FirstFrom[r]) BY <3>2, <3>5, SameFirst
    <3> QED BY <2>4, <2>6, <3>1, <3>6
  <2>7. CASE IsUp(q)
    <3>1. PICK r : r = Up(q) OBVIOUS
    <3>2. /\ IsPlace(r)
          /\ \A x \in DOMAIN slots : Before(x, Cut(r)) <=> Before(x, Cut(q))
      BY <2>1, <2>7, <3>1, GoesUp DEF IsUp
    <3>3. Ways(r) < Ways(q) /\ Ways(r) \in Nat
      BY <2>1, <2>7, <3>1, <3>2, LessAbove, WaysAreFinite
    <3>4. Ways(r) < n BY <2>1, <2>2, <3>3
    <3>5. IsFirstFrom(r, FirstFrom[r]) BY <2>5, <3>2, <3>4 DEF IsPlace
    <3>6. IsFirstFrom(q, FirstFrom[r]) BY <3>2, <3>5, SameFirst
    <3>7. ~ IsDown(q) BY <2>7 DEF IsUp, IsDown
    <3> QED BY <2>4, <2>7, <3>1, <3>6, <3>7
  <2>8. CASE ~ IsDown(q) /\ ~ IsUp(q)
    <3>1. CASE Ahead(q) # {}
      <4>1. IsFirstFrom(q, [bucket |-> Reached(q), shift |-> q.shift])
        BY <2>1, <2>8, <3>1, StopsAtReached DEF IsDown
      <4> QED BY <2>4, <2>8, <3>1, <4>1 DEF AtStop
    <3>2. CASE Ahead(q) = {} /\ q.array = Root
      <4>1. IsFirstFrom(q, Done) BY <2>1, <3>2, EndOfRoot
      <4> QED BY <2>4, <2>8, <3>2, <4>1 DEF AtStop
    <3>3. CASE Ahead(q) = {} /\ q.array # Root
      <4>1. ParentHolds(q.array) BY <2>8, <3>3 DEF IsUp
      <4>2. IsFirstFrom(q, [bucket |-> q.array, shift |-> UpShift(q.array)])
        BY <2>1, <3>3, <4>1, StopsAtParent
      <4> QED BY <2>4, <2>8, <3>3, <4>2 DEF AtStop
    <3> QED BY <3>1, <3>2, <3>3
  <2> QED BY <2>6, <2>7, <2>8
<1> HIDE DEF T
<1>3. Nat \subseteq T BY <1>1, <1>2, Induction
<1>4. Ways(p) \in Nat /\ Ways(p) + 1 \in Nat BY WaysAreFinite
<1>5. Ways(p) + 1 \in T BY <1>3, <1>4
<1>6. Ways(p) < Ways(p) + 1 BY <1>4
<1> QED BY <1>5, <1>6 DEF T, IsPlace

\* Has an iterator that returned bucket p (or Done) got past bucket b?
HasPassed(p, b) == p = Done \/ Before(b, After(p.bucket))

\* How often hash h is in a sequence
TimesIn(n, h) == Cardinality({i \in DOMAIN n : n[i] = h})

\* An iterator is at a bucket of an array of the map, or done.
IsAtBucket(s, A, p) ==
  p # Done =>
    /\ s # 0
    /\ p.bucket \in Seq(Nat) /\ p.bucket # << >>
    /\ ArrayOf(p.bucket) \in A
    /\ p.shift = SizesDown(s)[Len(ArrayOf(p.bucket))]
    /\ IndexOf(p.bucket) < TwoTo[p.shift]

\* The elements that stayed are in the map, and were returned, once, if they are
\* in a bucket that the iterator has passed.
IsHistory(s, S, p, n, y) ==
  /\ n \in Seq(Hashes)
  /\ y \subseteq Hashes
  /\ \A h \in y : HoldersIn(s, S, h) # {}
  /\ \A h \in y : \A b \in HoldersIn(s, S, h) :
       TimesIn(n, h) = IF HasPassed(p, b) THEN 1 ELSE 0

\* The inductive invariant of an iterator
IteratorInv ==
  /\ IsAtBucket(shift, arrays, it)
  /\ IsHistory(shift, slots, it, seen, stayed)

\* What is returned was returned once more.
LEMMA OnceMore ==
  ASSUME NEW n \in Seq(Hashes), NEW k \in Hashes, NEW h
  PROVE  /\ TimesIn(n, h) \in Nat
         /\ TimesIn(n \o << k >>, h) = IF k = h THEN TimesIn(n, h) + 1 ELSE TimesIn(n, h)
<1>1. PICK m, l : m = n \o << k >> /\ l = Len(n) OBVIOUS
<1>2. /\ l \in Nat /\ DOMAIN n = 1 .. l /\ DOMAIN m = 1 .. l + 1 /\ m[l + 1] = k
      /\ \A i \in 1 .. l : m[i] = n[i]
  BY <1>1
<1>3. PICK D, E : /\ D = {i \in DOMAIN n : n[i] = h}
                  /\ E = {i \in DOMAIN m : m[i] = h}
  OBVIOUS
<1>4. IsFiniteSet(D)
  <2>1. IsFiniteSet(1 .. l) BY <1>2, FS_Interval
  <2>2. D \subseteq 1 .. l BY <1>2, <1>3
  <2> QED BY <2>1, <2>2, FS_Subset
<1>5. Cardinality(D) \in Nat BY <1>4, FS_CardinalityType
<1>6. CASE k = h
  <2>1. E = D \cup {l + 1} BY <1>2, <1>3, <1>6
  <2>2. l + 1 \notin D BY <1>2, <1>3
  <2>3. Cardinality(E) = Cardinality(D) + 1 BY <2>1, <2>2, <1>4, FS_AddElement
  <2> QED BY <2>3, <1>1, <1>3, <1>5, <1>6 DEF TimesIn
<1>7. CASE k # h
  <2>1. E = D BY <1>2, <1>3, <1>7
  <2> QED BY <2>1, <1>1, <1>3, <1>5, <1>7 DEF TimesIn
<1> QED BY <1>6, <1>7

\* A bucket in use holds the element of one key.
LEMMA KeyOfBucket ==
  ASSUME Tree(shift, arrays, slots), NEW b \in DOMAIN slots
  PROVE  /\ KeyOf(b) \in Hashes
         /\ \A h \in Hashes : b \in HoldersIn(shift, slots, h) <=> h = KeyOf(b)
<1>1. ShiftOK(shift) BY DEF Tree
<1>2. PICK g \in Hashes, d \in Nat :
        b = Bucket(Level(shift, g, d)) /\ slots[b].hash = Level(shift, g, d).hash
  BY DEF Tree, IsSlot
<1>3. g \in Words BY HashesAreWords
<1>4. b \in HoldersIn(shift, slots, g) BY <1>1, <1>2, <1>3, HolderIsSlot
<1>5. ASSUME NEW h \in Hashes, b \in HoldersIn(shift, slots, h) PROVE h = g
  <2>1. h \in Words BY HashesAreWords
  <2>2. PICK e \in Nat :
          /\ b = Bucket(Level(shift, h, e)) /\ Level(shift, h, e).array \in arrays
          /\ slots[b].hash = Level(shift, h, e).hash
    BY <1>5, <2>1, SlotOfHolder
  <2>3. d = e
    <3>1. Bucket(Level(shift, g, d)) = Bucket(Level(shift, h, e)) BY <1>2, <2>2
    <3> QED BY <1>1, <1>3, <2>1, <3>1, BucketsDiffer
  <2>4. Level(shift, h, d).hash = Level(shift, g, d).hash BY <1>2, <2>2, <2>3
  <2> QED BY <1>1, <1>3, <2>1, <2>4, PathInjective
<1>6. \A h \in Hashes : b \in Holders(h) <=> h = g
  BY <1>4, <1>5, HoldersAreHoldersIn
<1>7. KeyOf(b) = g BY <1>6 DEF KeyOf
<1> QED BY <1>4, <1>5, <1>7

\* What the loop returns is once in what was returned, if it was not before.
LEMMA Returns ==
  ASSUME NoZeroHash, Tree(shift, arrays, slots), NEW p, IsPlace(p),
         NEW n \in Seq(Hashes), NEW y \in SUBSET Hashes,
         \A h \in y : HoldersIn(shift, slots, h) # {},
         \A h \in y : \A b \in HoldersIn(shift, slots, h) :
           TimesIn(n, h) = IF Before(b, Cut(p)) THEN 1 ELSE 0
  PROVE  /\ IsAtBucket(shift, arrays, FirstFrom[p])
         /\ IsHistory(shift, slots, FirstFrom[p], n \o Returned(FirstFrom[p]), y)
<1>1. PICK r : r = FirstFrom[p] OBVIOUS
<1>2. IsFirstFrom(p, r) BY <1>1, FirstFromIsFirst
<1>3. ShiftOK(shift) /\ shift # 0 BY ShiftIsNotZero DEF Tree
<1>4. CASE r = Done
  <2>1. IsAtBucket(shift, arrays, r) BY <1>4 DEF IsAtBucket
  <2>2. n \o Returned(r) = n BY <1>4 DEF Returned
  <2>3. \A x \in DOMAIN slots : Before(x, Cut(p)) BY <1>2, <1>4 DEF IsFirstFrom
  <2>4. ASSUME NEW h \in y, NEW b \in HoldersIn(shift, slots, h)
        PROVE  TimesIn(n, h) = IF HasPassed(r, b) THEN 1 ELSE 0
    <3>1. b \in DOMAIN slots BY DEF HoldersIn
    <3>2. TimesIn(n, h) = 1 BY <2>3, <3>1
    <3> QED BY <3>2, <1>4 DEF HasPassed
  <2>5. IsHistory(shift, slots, r, n, y) BY <2>4 DEF IsHistory
  <2> QED BY <2>1, <2>2, <2>5, <1>1
<1>5. CASE r # Done
  <2>1. PICK c : c = r.bucket OBVIOUS
  <2>2. /\ c \in DOMAIN slots
        /\ r.shift = ArrayShift(ArrayOf(c))
        /\ ~ Before(c, Cut(p))
        /\ \A x \in DOMAIN slots : Before(x, After(c)) <=> Before(x, Cut(p)) \/ x = c
    BY <1>2, <1>5, <2>1 DEF IsFirstFrom
  <2>3. IsAtBucket(shift, arrays, r)
    <3>1. /\ c \in Seq(Nat) /\ c # << >> /\ ArrayOf(c) \in arrays
          /\ IndexOf(c) < TwoTo[SizesDown(shift)[Len(ArrayOf(c))]]
      BY <2>2, TreeNames
    <3>2. r.shift = SizesDown(shift)[Len(ArrayOf(c))] BY <2>2, ArrayShiftIs
    <3> QED BY <3>1, <3>2, <2>1, <1>3 DEF IsAtBucket
  <2>4. PICK k : k = KeyOf(c) OBVIOUS
  <2>5. k \in Hashes /\ \A h \in Hashes : c \in HoldersIn(shift, slots, h) <=> h = k
    BY <2>2, <2>4, KeyOfBucket
  <2>6. PICK m : m = n \o << k >> OBVIOUS
  <2>7. n \o Returned(r) = m BY <1>5, <2>1, <2>4, <2>6 DEF Returned
  <2>8. m \in Seq(Hashes) BY <2>5, <2>6
  <2>9. ASSUME NEW h \in y, NEW b \in HoldersIn(shift, slots, h)
        PROVE  TimesIn(m, h) = IF HasPassed(r, b) THEN 1 ELSE 0
    <3>1. b \in DOMAIN slots BY DEF HoldersIn
    <3>2. h \in Hashes OBVIOUS
    <3>3. TimesIn(m, h) = IF k = h THEN TimesIn(n, h) + 1 ELSE TimesIn(n, h)
      BY <2>5, <2>6, OnceMore
    <3>4. TimesIn(n, h) = IF Before(b, Cut(p)) THEN 1 ELSE 0 OBVIOUS
    <3>5. HasPassed(r, b) <=> Before(b, Cut(p)) \/ b = c
      BY <1>5, <2>1, <2>2, <3>1 DEF HasPassed
    <3>6. b = c <=> k = h
      <4>1. k = h => c \in HoldersIn(shift, slots, h) BY <2>5, <3>2
      <4>2. c \in HoldersIn(shift, slots, h) => b = c BY <3>2 DEF Tree
      <4>3. b = c => k = h BY <2>5, <3>2
      <4> QED BY <4>1, <4>2, <4>3
    <3>7. CASE b = c
      <4>1. TimesIn(n, h) = 0 BY <3>4, <3>7, <2>2
      <4> QED BY <4>1, <3>3, <3>5, <3>6, <3>7
    <3>8. CASE b # c BY <3>3, <3>4, <3>5, <3>6, <3>8
    <3> QED BY <3>7, <3>8
  <2>10. IsHistory(shift, slots, r, m, y) BY <2>8, <2>9 DEF IsHistory
  <2> QED BY <2>3, <2>7, <2>10, <1>1
<1> QED BY <1>4, <1>5

\* A new or a deleted map has no history.
LEMMA NoHistory ==
  ASSUME NEW s, NEW A, NEW S
  PROVE  IsAtBucket(s, A, Done) /\ IsHistory(s, S, Done, << >>, {})
BY DEF IsAtBucket, IsHistory

\* Changes that leave the holders of the elements that stay alone leave the
\* history alone.
LEMMA HistoryKept ==
  ASSUME NEW s, NEW A, NEW S, NEW p, NEW n, NEW y,
         IsAtBucket(s, A, p), IsHistory(s, S, p, n, y),
         NEW B, A \subseteq B, NEW T, NEW z, z \subseteq y,
         \A g \in z : HoldersIn(s, T, g) = HoldersIn(s, S, g)
  PROVE  IsAtBucket(s, B, p) /\ IsHistory(s, T, p, n, z)
<1>1. IsAtBucket(s, B, p) BY DEF IsAtBucket
<1>2. IsHistory(s, T, p, n, z)
  <2>1. ASSUME NEW h \in z, NEW b \in HoldersIn(s, T, h)
        PROVE  TimesIn(n, h) = IF HasPassed(p, b) THEN 1 ELSE 0
    <3>1. h \in y /\ b \in HoldersIn(s, S, h) OBVIOUS
    <3> QED BY <3>1 DEF IsHistory
  <2>2. \A h \in z : HoldersIn(s, T, h) # {}
    <3>1. \A h \in y : HoldersIn(s, S, h) # {} BY DEF IsHistory
    <3> QED BY <3>1
  <2>3. n \in Seq(Hashes) /\ z \subseteq Hashes BY DEF IsHistory
  <2> QED BY <2>1, <2>2, <2>3 DEF IsHistory
<1> QED BY <1>1, <1>2

\* A put leaves the history of the elements that are in the map alone.
LEMMA PutKeepsHistory ==
  ASSUME NoZeroHash, TreeInv, IteratorInv, NEW h \in Hashes, NEW v \in Values,
         Holders(h) = {}, GpMapPut(h, v), UNCHANGED iteratorVars
  PROVE  IteratorInv'
<1>1. shift # 0 /\ Tree(shift, arrays, slots) BY DEF GpMapPut, TreeInv
<1>2. h \in Words /\ h # 0 BY HashesAreWords DEF NoZeroHash
<1>3. HoldersIn(shift, slots, h) = {} BY HoldersAreHoldersIn
<1>4. PICK d \in Nat :
        PutLevel(h) = Level(shift, h, d) /\ Place(shift, arrays, slots, h, d)
  BY <1>1, <1>2, PutPlace
<1>5. arrays' = arrays \cup {Level(shift, h, d).array} /\ shift' = shift
  BY <1>4 DEF GpMapPut
<1>6. slots' = WithBucket(slots, Level(shift, h, d), v)
  <2>1. Level(shift, h, d).hash # 0 BY <1>1, <1>2, PathNonzero DEF Tree
  <2>2. slots' = WithSlot(Level(shift, h, d), v) BY <1>4 DEF GpMapPut
  <2> QED BY <2>1, <2>2 DEF WithSlot, WithBucket
<1>7. Bucket(Level(shift, h, d)) \notin DOMAIN slots BY <1>4 DEF Place
<1>8. \A g \in Hashes \ {h} : HoldersIn(shift, slots', g) = HoldersIn(shift, slots, g)
  BY <1>1, <1>3, <1>6, <1>7, PutHolders
<1>9. it' = it /\ seen' = seen /\ stayed' = stayed BY DEF iteratorVars
<1>10. IsAtBucket(shift, arrays, it) /\ IsHistory(shift, slots, it, seen, stayed)
  BY DEF IteratorInv
<1>11. \A g \in stayed : HoldersIn(shift, slots', g) = HoldersIn(shift, slots, g)
  <2>1. \A g \in stayed : g \in Hashes /\ HoldersIn(shift, slots, g) # {}
    BY <1>10 DEF IsHistory
  <2> QED BY <2>1, <1>3, <1>8
<1>12. IsAtBucket(shift, arrays', it) /\ IsHistory(shift, slots', it, seen, stayed)
  <2>1. arrays \subseteq arrays' /\ stayed \subseteq stayed BY <1>5
  <2> QED BY <2>1, <1>10, <1>11, HistoryKept
<1> QED BY <1>5, <1>9, <1>12 DEF IteratorInv

\* A remove leaves that of the other elements alone.
LEMMA RemoveKeepsHistory ==
  ASSUME NoZeroHash, TreeInv, IteratorInv, NEW h \in Hashes,
         GpMapRemove(h), stayed' = stayed \ {h}, UNCHANGED << it, seen >>
  PROVE  IteratorInv'
<1>1. shift # 0 /\ Tree(shift, arrays, slots) BY DEF GpMapRemove, TreeInv
<1>2. shift' = shift /\ arrays' = arrays BY DEF GpMapRemove
<1>3. \A g \in Hashes \ {h} : HoldersIn(shift, slots', g) = HoldersIn(shift, slots, g)
  <2>1. CASE HoldersIn(shift, slots, h) = {}
    <3>1. Found(h) = None BY <1>1, <2>1, FoundIs
    <3>2. slots' = slots BY <3>1 DEF GpMapRemove
    <3> QED BY <3>2
  <2>2. CASE HoldersIn(shift, slots, h) # {}
    <3>1. PICK b : b \in HoldersIn(shift, slots, h) BY <2>2
    <3>2. Found(h) # None /\ Bucket(GetLevel(h)) = b BY <1>1, <3>1, FoundIs
    <3>3. slots' = Restrict(slots, DOMAIN slots \ {b}) BY <3>2 DEF GpMapRemove
    <3> QED BY <1>1, <3>1, <3>3, RemoveHolders
  <2> QED BY <2>1, <2>2
<1>4. it' = it /\ seen' = seen /\ stayed' = stayed \ {h} OBVIOUS
<1>5. IsAtBucket(shift, arrays, it) /\ IsHistory(shift, slots, it, seen, stayed)
  BY DEF IteratorInv
<1>6. \A g \in stayed \ {h} : HoldersIn(shift, slots', g) = HoldersIn(shift, slots, g)
  BY <1>3, <1>5 DEF IsHistory
<1>7. IsAtBucket(shift, arrays, it) /\ IsHistory(shift, slots', it, seen, stayed \ {h})
  <2>1. arrays \subseteq arrays /\ stayed \ {h} \subseteq stayed OBVIOUS
  <2> QED BY <2>1, <1>5, <1>6, HistoryKept
<1> QED BY <1>2, <1>4, <1>7 DEF IteratorInv

\* gp_map_begin returns the first of the elements in the map.
LEMMA BeginHistory ==
  ASSUME NoZeroHash, TreeInv, GpMapBegin
  PROVE  IteratorInv'
<1>1. shift # 0 /\ Tree(shift, arrays, slots) BY DEF GpMapBegin, TreeInv
<1>2. shift' = shift /\ arrays' = arrays /\ slots' = slots BY DEF GpMapBegin, vars
<1>3. PICK p : p = [array |-> Root, index |-> 0, shift |-> shift] OBVIOUS
<1>4. it' = FirstFrom[p] /\ seen' = Returned(it') /\ stayed' = DOMAIN Contents
  BY <1>3 DEF GpMapBegin, FirstBucket
<1>5. Root \in Seq(Nat) /\ Len(Root) = 0 BY DEF Root
<1>6. IsPlace(p)
  <2>1. ShiftOK(shift) /\ Root \in arrays BY <1>1 DEF Tree
  <2>2. ArrayShift(Root) = SizesDown(shift)[0] /\ ArrayShift(Root) \in Nat
    BY <1>5, <2>1, ArraySize
  <2>3. SizesDown(shift)[0] = shift
    <3>1. 0 \in Nat OBVIOUS
    <3> QED BY <2>1, <3>1, SizesDownOK
  <2> QED BY <1>3, <1>5, <2>1, <2>2, <2>3 DEF IsPlace, Places
<1>7. \A x \in Seq(Nat) : ~ Before(x, Cut(p))
  <2>1. Cut(p) = Append(Root, 0) BY <1>3 DEF Cut
  <2>2. ASSUME NEW x \in Seq(Nat) PROVE ~ Before(x, Cut(p))
    <3>1. OnWay(Root, x) BY <1>5 DEF OnWay
    <3>2. ~ Before(x, Root) BY <1>5, <3>1, BeforeNotOnWay
    <3> QED BY <1>5, <2>1, <3>2, BeforeFirst
  <2> QED BY <2>2
<1>8. PICK y : y = DOMAIN Contents OBVIOUS
<1>9. y \in SUBSET Hashes /\ \A h \in y : HoldersIn(shift, slots, h) # {}
  <2>1. Contents = ContentsOf(shift, slots) BY ContentsAreContentsOf
  <2> QED BY <1>8, <2>1, ContentsDomain
<1>10. \A h : TimesIn(<< >>, h) = 0
  <2>1. \A h : {i \in DOMAIN << >> : << >>[i] = h} = {} OBVIOUS
  <2> QED BY <2>1, FS_EmptySet DEF TimesIn
<1>11. ASSUME NEW h \in y, NEW b \in HoldersIn(shift, slots, h)
       PROVE  TimesIn(<< >>, h) = IF Before(b, Cut(p)) THEN 1 ELSE 0
  <2>1. b \in Seq(Nat) BY <1>1, TreeNames DEF HoldersIn
  <2> QED BY <2>1, <1>7, <1>10
<1>12. << >> \in Seq(Hashes) OBVIOUS
<1>13. PICK n : n = << >> OBVIOUS
<1>14. /\ n \in Seq(Hashes)
       /\ \A h \in y : \A b \in HoldersIn(shift, slots, h) :
            TimesIn(n, h) = IF Before(b, Cut(p)) THEN 1 ELSE 0
  BY <1>11, <1>12, <1>13
<1>15. /\ IsAtBucket(shift, arrays, FirstFrom[p])
       /\ IsHistory(shift, slots, FirstFrom[p], n \o Returned(FirstFrom[p]), y)
  BY <1>1, <1>6, <1>9, <1>14, Returns
<1>16. n \o Returned(FirstFrom[p]) = Returned(FirstFrom[p])
  <2>1. CASE FirstFrom[p] = Done BY <2>1, <1>13 DEF Returned
  <2>2. CASE FirstFrom[p] # Done
    <3>1. PICK k : k = KeyOf(FirstFrom[p].bucket) OBVIOUS
    <3>2. Returned(FirstFrom[p]) = << k >> BY <2>2, <3>1 DEF Returned
    <3>3. << >> \o << k >> = << k >> OBVIOUS
    <3> QED BY <3>2, <3>3, <1>13
  <2> QED BY <2>1, <2>2
<1>17. seen' = n \o Returned(FirstFrom[p])
  <2>1. seen' = Returned(FirstFrom[p]) BY <1>4 DEF Returned
  <2> QED BY <2>1, <1>16
<1> QED BY <1>2, <1>4, <1>8, <1>15, <1>17 DEF IteratorInv

\* gp_map_next returns the next one.
LEMMA NextHistory ==
  ASSUME NoZeroHash, TreeInv, IteratorInv, GpMapNext
  PROVE  IteratorInv'
<1>1. shift # 0 /\ it # Done /\ Tree(shift, arrays, slots) BY DEF GpMapNext, TreeInv
<1>2. shift' = shift /\ arrays' = arrays /\ slots' = slots /\ stayed' = stayed
  BY DEF GpMapNext, vars
<1>3. PICK b : b = it.bucket OBVIOUS
<1>4. PICK p : p = [array |-> ArrayOf(b), index |-> IndexOf(b) + 1, shift |-> it.shift]
  OBVIOUS
<1>5. it' = FirstFrom[p] /\ seen' = seen \o Returned(FirstFrom[p])
  <2>1. it' = FirstFrom[p] BY <1>3, <1>4 DEF GpMapNext, NextFrom
  <2>2. seen' = seen \o Returned(it') BY DEF GpMapNext
  <2> QED BY <2>1, <2>2 DEF Returned
<1>6. IsAtBucket(shift, arrays, it) /\ IsHistory(shift, slots, it, seen, stayed)
  BY DEF IteratorInv
<1>7. IsPlace(p) /\ Cut(p) = After(b)
  <2>1. /\ b \in Seq(Nat) /\ b # << >> /\ ArrayOf(b) \in arrays
        /\ it.shift = SizesDown(shift)[Len(ArrayOf(b))]
    BY <1>1, <1>3, <1>6 DEF IsAtBucket
  <2>2. ArrayOf(b) \in Seq(Nat) /\ IndexOf(b) \in Nat BY <2>1, BucketOfArray
  <2>3. it.shift = ArrayShift(ArrayOf(b)) /\ it.shift \in Nat
    BY <1>1, <2>1, <2>2, ArraySize DEF Tree
  <2>4. IndexOf(b) + 1 \in Nat BY <2>2
  <2> QED BY <1>4, <2>1, <2>2, <2>3, <2>4 DEF IsPlace, Places, Cut, After
<1>8. /\ seen \in Seq(Hashes) /\ stayed \in SUBSET Hashes
      /\ \A h \in stayed : HoldersIn(shift, slots, h) # {}
      /\ \A h \in stayed : \A c \in HoldersIn(shift, slots, h) :
           TimesIn(seen, h) = IF HasPassed(it, c) THEN 1 ELSE 0
  BY <1>6 DEF IsHistory
<1>9. \A c : HasPassed(it, c) <=> Before(c, Cut(p)) BY <1>1, <1>3, <1>7 DEF HasPassed
<1>10. \A h \in stayed : \A c \in HoldersIn(shift, slots, h) :
         TimesIn(seen, h) = IF Before(c, Cut(p)) THEN 1 ELSE 0
  BY <1>8, <1>9
<1>11. /\ IsAtBucket(shift, arrays, FirstFrom[p])
       /\ IsHistory(shift, slots, FirstFrom[p], seen \o Returned(FirstFrom[p]), stayed)
  BY <1>1, <1>7, <1>8, <1>10, Returns
<1> QED BY <1>2, <1>5, <1>11 DEF IteratorInv

\* The iterator can be used while the map changes, and its history is kept.
LEMMA IteratorStep ==
  ASSUME NoZeroHash, TreeInv, IteratorInv, [IteratorNext]_allVars
  PROVE  IteratorInv'
<1>1. ASSUME it' = Done, seen' = << >>, stayed' = {} PROVE IteratorInv'
  BY <1>1, NoHistory DEF IteratorInv
<1>2. ASSUME UNCHANGED << shift, arrays, slots >>, UNCHANGED iteratorVars
      PROVE  IteratorInv'
  BY <1>2 DEF IteratorInv, iteratorVars
<1>3. ASSUME NEW h \in Hashes, GpMapGet(h), UNCHANGED iteratorVars PROVE IteratorInv'
  BY <1>2, <1>3 DEF GpMapGet
<1>4. CASE UNCHANGED allVars BY <1>2, <1>4 DEF allVars, vars
<1>5. CASE IteratorNext
  BY <1>1, <1>3, <1>5, PutKeepsHistory, RemoveKeepsHistory, BeginHistory, NextHistory
     DEF IteratorNext
<1> QED BY <1>4, <1>5

\* In a map with an iterator in it, what stays is returned.
LEMMA HistoryReturnsOnce == IteratorInv => ReturnsOnce
<1>1. SUFFICES ASSUME IteratorInv PROVE ReturnsOnce OBVIOUS
<1>2. IsAtBucket(shift, arrays, it) /\ IsHistory(shift, slots, it, seen, stayed)
  BY <1>1 DEF IteratorInv
<1>3. IteratorKnowsArray
  <2>1. SUFFICES ASSUME it # Done
                 PROVE  InArray(it.bucket) /\ it.shift = ArrayShift(ArrayOf(it.bucket))
    BY DEF IteratorKnowsArray
  <2>2. /\ ArrayOf(it.bucket) \in arrays
        /\ it.shift = SizesDown(shift)[Len(ArrayOf(it.bucket))]
        /\ IndexOf(it.bucket) < TwoTo[it.shift]
    BY <1>2, <2>1 DEF IsAtBucket
  <2>3. it.shift = ArrayShift(ArrayOf(it.bucket)) BY <2>2, ArrayShiftIs
  <2> QED BY <2>2, <2>3 DEF InArray
<1>4. ASSUME NEW h \in stayed PROVE Times(h) <= 1 /\ (it = Done => Times(h) = 1)
  <2>1. Times(h) = TimesIn(seen, h) BY DEF Times, TimesIn
  <2>2. PICK b : b \in HoldersIn(shift, slots, h) BY <1>2 DEF IsHistory
  <2>3. TimesIn(seen, h) = IF HasPassed(it, b) THEN 1 ELSE 0 BY <1>2, <2>2 DEF IsHistory
  <2> QED BY <2>1, <2>3 DEF HasPassed
<1> QED BY <1>3, <1>4 DEF ReturnsOnce

\* An element that is in the map from gp_map_begin on is returned by the
\* iterator, once, whatever is put and removed between its steps; and the
\* iterator always has the size of the array it is in (src/hashmap.c).
THEOREM IteratorReturnsOnce ==
  ASSUME MapClients PROVE IteratorSpec => []ReturnsOnce
<1>0. NoZeroHash BY DEF MapClients, NoZeroHash
<1>1. IteratorInit => IteratorInv BY NoHistory DEF IteratorInit, IteratorInv
<1>2. TreeInv /\ IteratorInv /\ [IteratorNext]_allVars => IteratorInv'
  BY <1>0, IteratorStep
<1>3. IteratorSpec => []TreeInv BY IteratorKeepsMap, MapInvariant, PTL
<1>4. IteratorInv => ReturnsOnce BY HistoryReturnsOnce
<1> QED BY <1>1, <1>2, <1>3, <1>4, PTL DEF IteratorSpec

============================================================================
