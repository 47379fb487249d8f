--------------------------- MODULE NumbersProofs ---------------------------
(***************************************************************************)
(* The integers of two words of src/include/gpc/int128.h and               *)
(* src/src/int128.c are numbers modulo the range of the type, for words of *)
(* every even number of bits.                                              *)
(*                                                                         *)
(* Stored(v) are the two words that stand for the number v, and Value what *)
(* two words stand for. Each operation is shown to give Stored of what its *)
(* name says of the values of its operands: sums and differences by the    *)
(* carry out of the low words, products by the four products of halves of  *)
(* words, shifts by the part of a word that crosses to the other. StoredSum*)
(* gives the words of a number that is a sum of two parts.                 *)
(*                                                                         *)
(* What numbers have in common, v & w, is a recursive function of both.    *)
(* CommonSteps says that it exists, and HalvesInduction leads from a half  *)
(* of a number to the number: a number shifted has nothing in common with  *)
(* what is below the shift, a mask leaves a remainder, and a word with     *)
(* nothing in common with the one below it is a power of two (OneBit),     *)
(* which is what the code tests.                                           *)
(*                                                                         *)
(* The loop of the division keeps an invariant, Dividing: what has been    *)
(* brought down is the quotient so far times the divisor and a remainder   *)
(* below the divisor. The recursive function of the loop exists because    *)
(* the turns left decrease (TailRecursion). The code skips the turns that  *)
(* would bring down nothing: BitsApart says that the zeros before the      *)
(* first bits tell how many there are, and that the remainder is never too *)
(* large for the sign that decides whether the divisor fits.               *)
(*                                                                         *)
(* A conversion to floating point takes the upper bits of an integer that  *)
(* is shifted to the top, and rounds them by the bit that follows:         *)
(* BitsTaken says which bits the code takes, of any format, whatever it    *)
(* puts together below them, and RoundedToNearest that the rounding        *)
(* is to the nearest number, also if it carries into the exponent.         *)
(***************************************************************************)
EXTENDS Numbers, CommonLemmas

\* A word has an even number of values, the square of those of half a word.
LEMMA Bases ==
  /\ Base \in Nat /\ Half \in Nat \ {0} /\ Base = Half * Half
  /\ Base >= 2 /\ Base % 2 = 0 /\ Base \div 2 \in Nat \ {0} /\ Base = 2 * (Base \div 2)
<1> DEFINE h == WordBits \div 2
<1>1. h \in Nat /\ h # 0 /\ WordBits = h + h /\ WordBits - 1 \in Nat /\ (WordBits - 1) + 1 = WordBits
  BY WordBitsAssumption
<1> HIDE DEF h
<1>2. Base = PowerOfTwo[h] * PowerOfTwo[h] BY <1>1, PowerOfSum DEF Base
<1>3. Half = PowerOfTwo[h] BY DEF Half, h
<1>4. Base = 2 * PowerOfTwo[WordBits - 1] BY <1>1, PowersOfTwo DEF Base
<1>5. PowerOfTwo[WordBits - 1] \in Nat \ {0} /\ PowerOfTwo[h] \in Nat \ {0} BY <1>1, Positive
<1> QED BY <1>2, <1>3, <1>4, <1>5

\* What a quotient and a remainder are
LEMMA Division ==
  ASSUME NEW v \in Int, NEW b \in Nat \ {0}
  PROVE  /\ v \div b \in Int /\ v % b \in 0 .. b - 1
         /\ v = (v \div b) * b + (v % b)
<1>1. v \div b \in Int /\ v % b \in 0 .. b - 1 OBVIOUS
<1>2. v = b * (v \div b) + (v % b) OBVIOUS
<1>3. b * (v \div b) = (v \div b) * b BY <1>1
<1> QED BY <1>1, <1>2, <1>3

\* and that there are no others.
LEMMA Quotients ==
  ASSUME NEW b \in Nat \ {0}, NEW q \in Int, NEW r \in 0 .. b - 1
  PROVE  (q * b + r) \div b = q /\ (q * b + r) % b = r
OBVIOUS

\* The words of a number that is the sum of a high and a low part, of any size
LEMMA StoredSum ==
  ASSUME NEW a \in Int, NEW c \in Int, NEW k \in Int, c \div Base = k
  PROVE  Stored(a * Base + c) = gp_uint128(a + k, c)
<1> DEFINE l == c % Base
           m == (a + k) \div Base
           h == (a + k) % Base
           v == a * Base + c
<1>1. Base \in Nat \ {0} BY Bases
<1> HIDE DEF Base
<1>2. l \in 0 .. Base - 1 /\ c = k * Base + l BY <1>1, Division
<1>3. m \in Int /\ h \in 0 .. Base - 1 /\ a + k = m * Base + h BY <1>1, Division
<1> HIDE DEF l, m, h
<1>4. v = (a + k) * Base + l BY <1>1, <1>2
<1>5. v % Base = l BY <1>1, <1>2, <1>4, Quotients
<1>6. v = m * Size + (h * Base + l)
  BY <1>1, <1>2, <1>3, <1>4 DEF Size
<1>7. h * Base + l \in 0 .. Size - 1
  <2>1. h * Base <= (Base - 1) * Base /\ h * Base \in Nat BY <1>1, <1>3
  <2>2. (Base - 1) * Base = Base * Base - Base BY <1>1
  <2> QED BY <1>1, <1>2, <1>3, <2>1, <2>2 DEF Size
<1>8. Size \in Nat \ {0} BY <1>1 DEF Size
<1>9. v % Size = h * Base + l
  <2> HIDE DEF Size, v
  <2>1. h * Base + l \in 0 .. Size - 1 BY <1>7
  <2> QED BY <1>3, <1>6, <1>8, <2>1, Quotients
<1>10. (v % Size) \div Base = h
  <2>1. (h * Base + l) \div Base = h BY <1>1, <1>2, <1>3, Quotients
  <2> HIDE DEF v, Size
  <2> QED BY <1>9, <2>1
<1> QED BY <1>5, <1>10 DEF Stored, gp_uint128, l, h

\* An integer of two words
TwoWords == Words \X Words

\* The words of an integer, and the number that they stand for
LEMMA Parts ==
  ASSUME NEW a \in TwoWords
  PROVE  /\ Hi(a) \in 0 .. Base - 1 /\ Lo(a) \in 0 .. Base - 1
         /\ a = << Hi(a), Lo(a) >>
         /\ Value(a) = Hi(a) * Base + Lo(a)
         /\ Value(a) \in 0 .. Size - 1
<1>1. Base \in Nat \ {0} BY Bases
<1>2. Hi(a) \in 0 .. Base - 1 /\ Lo(a) \in 0 .. Base - 1 /\ a = << Hi(a), Lo(a) >>
  BY DEF TwoWords, Words, Hi, Lo
<1> HIDE DEF Base
<1>3. Value(a) = Hi(a) * Base + Lo(a) BY DEF Value
<1> DEFINE h == Hi(a)
           l == Lo(a)
<1>4. h * Base + l \in 0 .. Size - 1
  <2>0. h \in 0 .. Base - 1 /\ l \in 0 .. Base - 1 BY <1>2
  <2> HIDE DEF h, l
  <2>1. h * Base <= (Base - 1) * Base /\ h * Base \in Nat BY <1>1, <2>0
  <2>2. (Base - 1) * Base = Base * Base - Base BY <1>1
  <2> QED BY <1>1, <2>0, <2>1, <2>2 DEF Size
<1> QED BY <1>2, <1>3, <1>4

\* The words of a value are those of the integer that has it.
LEMMA StoredValue ==
  ASSUME NEW a \in TwoWords
  PROVE  Stored(Value(a)) = a /\ gp_uint128(Hi(a), Lo(a)) = a
<1>1. Base \in Nat \ {0} BY Bases
<1>2. Hi(a) \in 0 .. Base - 1 /\ Lo(a) \in 0 .. Base - 1 /\ a = << Hi(a), Lo(a) >>
      /\ Value(a) = Hi(a) * Base + Lo(a) BY Parts
<1> HIDE DEF Base
<1>3. ASSUME NEW w \in 0 .. Base - 1 PROVE w % Base = w /\ w \div Base = 0 BY <1>1, <1>3
<1>4. Stored(Value(a)) = gp_uint128(Hi(a) + 0, Lo(a))
  <2>1. Lo(a) \div Base = 0 BY <1>2, <1>3
  <2> QED BY <1>2, <2>1, StoredSum
<1>5. Hi(a) + 0 = Hi(a) BY <1>1, <1>2
<1>6. gp_uint128(Hi(a), Lo(a)) = << Hi(a), Lo(a) >> BY <1>2, <1>3 DEF gp_uint128
<1> QED BY <1>2, <1>4, <1>5, <1>6

\* Whatever is stored is two words.
LEMMA StoredWords ==
  ASSUME NEW h \in Int, NEW l \in Int
  PROVE  /\ gp_uint128(h, l) \in TwoWords
         /\ Hi(gp_uint128(h, l)) = h % Base /\ Lo(gp_uint128(h, l)) = l % Base
<1>1. Base \in Nat \ {0} BY Bases
<1> HIDE DEF Base
<1> QED BY <1>1 DEF gp_uint128, TwoWords, Words, Hi, Lo

\* gp_uint128_add: a carry is what the sum of the low words exceeds a word by.
LEMMA AddAgrees ==
  ASSUME NEW a \in TwoWords, NEW b \in TwoWords
  PROVE  gp_uint128_add(a, b) = Stored(Value(a) + Value(b))
<1> DEFINE c == One(Lo(b) > Base - 1 - Lo(a))
<1>1. Base \in Nat \ {0} BY Bases
<1> HIDE DEF Base
<1>2. /\ Hi(a) \in 0 .. Base - 1 /\ Lo(a) \in 0 .. Base - 1 /\ Value(a) = Hi(a) * Base + Lo(a)
      /\ Hi(b) \in 0 .. Base - 1 /\ Lo(b) \in 0 .. Base - 1 /\ Value(b) = Hi(b) * Base + Lo(b)
  BY Parts
<1>3. (Lo(a) + Lo(b)) \div Base = c /\ c \in Int
  BY <1>1, <1>2 DEF One
<1> HIDE DEF c
<1>4. Value(a) + Value(b) = (Hi(a) + Hi(b)) * Base + (Lo(a) + Lo(b)) BY <1>1, <1>2
<1>5. Stored(Value(a) + Value(b)) = gp_uint128(Hi(a) + Hi(b) + c, Lo(a) + Lo(b))
  BY <1>2, <1>3, <1>4, StoredSum
<1> QED BY <1>5 DEF gp_uint128_add, c

\* gp_uint128_sub: what is borrowed is what the low word lacks.
LEMMA SubAgrees ==
  ASSUME NEW a \in TwoWords, NEW b \in TwoWords
  PROVE  gp_uint128_sub(a, b) = Stored(Value(a) - Value(b))
<1> DEFINE c == One(Lo(b) > Lo(a))
<1>1. Base \in Nat \ {0} BY Bases
<1> HIDE DEF Base
<1>2. /\ Hi(a) \in 0 .. Base - 1 /\ Lo(a) \in 0 .. Base - 1 /\ Value(a) = Hi(a) * Base + Lo(a)
      /\ Hi(b) \in 0 .. Base - 1 /\ Lo(b) \in 0 .. Base - 1 /\ Value(b) = Hi(b) * Base + Lo(b)
  BY Parts
<1>3. (Lo(a) - Lo(b)) \div Base = - c /\ c \in Int
  <2>1. CASE Lo(b) > Lo(a)
    <3>1. Lo(a) - Lo(b) = (-1) * Base + (Base + Lo(a) - Lo(b))
          /\ Base + Lo(a) - Lo(b) \in 0 .. Base - 1 BY <1>1, <1>2, <2>1
    <3>2. (Lo(a) - Lo(b)) \div Base = -1 BY <1>1, <3>1, Quotients
    <3> QED BY <2>1, <3>2 DEF One
  <2>2. CASE ~ (Lo(b) > Lo(a))
    <3>1. Lo(a) - Lo(b) \in 0 .. Base - 1 BY <1>1, <1>2, <2>2
    <3>2. (Lo(a) - Lo(b)) \div Base = 0 BY <1>1, <3>1
    <3> QED BY <2>2, <3>2 DEF One
  <2> QED BY <2>1, <2>2
<1> HIDE DEF c
<1>4. Value(a) - Value(b) = (Hi(a) - Hi(b)) * Base + (Lo(a) - Lo(b)) BY <1>1, <1>2
<1>5. Stored(Value(a) - Value(b)) = gp_uint128((Hi(a) - Hi(b)) + (- c), Lo(a) - Lo(b))
  BY <1>2, <1>3, <1>4, StoredSum
<1>6. (Hi(a) - Hi(b)) + (- c) = Hi(a) - Hi(b) - c BY <1>1, <1>2, <1>3
<1> QED BY <1>5, <1>6 DEF gp_uint128_sub, c

\* Halves of a number
LEMMA Halves ==
  ASSUME NEW v \in Nat
  PROVE  /\ v \div 2 \in Nat /\ v % 2 \in {0, 1} /\ v = 2 * (v \div 2) + (v % 2)
         /\ v # 0 => v \div 2 < v
         /\ 0 \div 2 = 0 /\ 0 % 2 = 0
OBVIOUS

\* Common is the function its recursive definition says it is: each step of the
\* recursion halves what is left.
LEMMA CommonSteps ==
  ASSUME NEW v \in Nat, NEW w \in Nat
  PROVE  /\ (v & w) \in Nat
         /\ (v & w) = 2 * ((v \div 2) & (w \div 2)) + (v % 2) * (w % 2)
         /\ v = 0 => (v & w) = 0
<1> DEFINE P == Nat \X Nat
           A == [P -> Nat]
           zero == [p \in P |-> 0]
           half(p) == << p[1] \div 2, p[2] \div 2 >>
           step(f, p) == IF p[1] = 0 THEN 0 ELSE 2 * f[half(p)] + (p[1] % 2) * (p[2] % 2)
           G == [f \in A |-> [p \in P |-> step(f, p)]]
<1>1. ASSUME NEW p \in P PROVE half(p) \in P /\ (p[1] # 0 => half(p)[1] < p[1])
      /\ half(p)[1] \in Nat /\ p[1] \in Nat
  BY Halves
<1>2. ASSUME NEW f \in A, NEW p \in P PROVE step(f, p) \in Nat
  <2>1. half(p) \in P BY <1>1
  <2>2. f[half(p)] \in Nat BY <2>1
  <2>3. p[1] % 2 \in {0, 1} /\ p[2] % 2 \in {0, 1} BY Halves
  <2>4. (p[1] % 2) * (p[2] % 2) \in Nat BY <2>3
  <2> HIDE DEF half
  <2> QED BY <2>2, <2>4
<1> HIDE DEF step
<1>3. G \in [A -> A] BY <1>2
<1>4. zero \in A OBVIOUS
<1>5. \A f \in A : \A p \in P : G[f][p] = step(f, p) OBVIOUS
<1> HIDE DEF G, zero
<1>6. PICK F \in [Nat -> A] : F[0] = zero /\ \A n \in Nat : F[n + 1] = G[F[n]]
  <2> HIDE DEF A
  <2> QED BY <1>3, <1>4, Iteration
<1>7. \A n \in Nat : \A p \in P : F[n + 1][p] = step(F[n], p)
  <2>1. \A n \in Nat : F[n] \in A BY <1>6
  <2> HIDE DEF A, P
  <2> QED BY <1>5, <1>6, <2>1
<1> DEFINE T == {n \in Nat : \A p \in P : p[1] <= n => F[n + 1][p] = F[n][p]}
<1>8. 0 \in T
  <2>1. ASSUME NEW p \in P, p[1] <= 0 PROVE F[0 + 1][p] = F[0][p]
    <3>1. p[1] = 0 BY <2>1
    <3>2. F[0 + 1][p] = step(F[0], p) BY <1>7
    <3>3. F[0][p] = 0 BY <1>6 DEF zero
    <3> QED BY <3>1, <3>2, <3>3 DEF step
  <2> QED BY <2>1
<1>9. ASSUME NEW n \in Nat, n \in T PROVE n + 1 \in T
  <2>1. ASSUME NEW p \in P, p[1] <= n + 1 PROVE F[(n + 1) + 1][p] = F[n + 1][p]
    <3>1. n + 1 \in Nat /\ F[(n + 1) + 1][p] = step(F[n + 1], p) /\ F[n + 1][p] = step(F[n], p)
      BY <1>7
    <3>2. CASE p[1] = 0 BY <3>1, <3>2 DEF step
    <3>3. CASE p[1] # 0
      <4>1. half(p) \in P /\ half(p)[1] <= n BY <1>1, <2>1, <3>3
      <4>2. F[n + 1][half(p)] = F[n][half(p)] BY <1>9, <4>1
      <4> HIDE DEF half
      <4> QED BY <3>1, <3>3, <4>2 DEF step
    <3> QED BY <3>2, <3>3
  <2> QED BY <2>1
<1> HIDE DEF T
<1>10. \A n \in Nat : n \in T BY <1>8, <1>9, Induction
<1>11. ASSUME NEW p \in P, NEW n \in Nat, p[1] <= n PROVE F[n][p] = F[p[1]][p]
  <2> DEFINE U == {m \in Nat : p[1] <= m => F[m][p] = F[p[1]][p]}
  <2>1. 0 \in U
    <3>1. p[1] <= 0 => p[1] = 0 OBVIOUS
    <3> QED BY <3>1
  <2>2. ASSUME NEW m \in Nat, m \in U PROVE m + 1 \in U
    <3>1. CASE p[1] <= m
      <4>1. F[m + 1][p] = F[m][p] BY <1>10, <3>1 DEF T
      <4> QED BY <2>2, <3>1, <4>1
    <3>2. CASE ~ (p[1] <= m)
      <4>1. p[1] <= m + 1 => p[1] = m + 1 BY <3>2
      <4> QED BY <4>1
    <3> QED BY <3>1, <3>2
  <2> HIDE DEF U
  <2>3. n \in U BY <2>1, <2>2, Induction
  <2> QED BY <2>3, <1>11 DEF U
<1> DEFINE f == [p \in P |-> F[p[1]][p]]
<1>12. ASSUME NEW p \in P PROVE f[p] = step(f, p) /\ f[p] \in Nat
  <2>1. F[p[1]] \in A /\ p[1] \in Nat BY <1>1, <1>6
  <2>2. CASE p[1] = 0
    <3>1. F[0][p] = 0 BY <1>6 DEF zero
    <3> QED BY <2>1, <2>2, <3>1 DEF step
  <2>3. CASE p[1] # 0
    <3>1. p[1] - 1 \in Nat /\ (p[1] - 1) + 1 = p[1] BY <2>1, <2>3
    <3>2. F[p[1]][p] = step(F[p[1] - 1], p) BY <1>7, <3>1
    <3>3. half(p) \in P /\ half(p)[1] <= p[1] - 1 BY <1>1, <2>3
    <3> HIDE DEF half
    <3>4. F[p[1] - 1][half(p)] = f[half(p)] BY <1>11, <3>1, <3>3
    <3> QED BY <2>1, <2>3, <3>2, <3>4 DEF step
  <2> QED BY <2>2, <2>3
<1> HIDE DEF f
<1>13. f = [p \in P |-> step(f, p)]
  <2>1. f = [p \in P |-> f[p]] BY DEF f
  <2> QED BY <1>12, <2>1
<1>14. Common = [p \in P |-> step(Common, p)]
  <2>1. f = [p \in Nat \X Nat |-> IF p[1] = 0 THEN 0
                ELSE 2 * f[<< p[1] \div 2, p[2] \div 2 >>] + (p[1] % 2) * (p[2] % 2)]
    BY <1>13 DEF step
  <2>2. Common = [p \in Nat \X Nat |-> IF p[1] = 0 THEN 0
                ELSE 2 * Common[<< p[1] \div 2, p[2] \div 2 >>] + (p[1] % 2) * (p[2] % 2)]
    BY <2>1, Zenon DEF Common
  <2> QED BY <2>2 DEF step
<1> DEFINE V == {n \in Nat : \A p \in P : p[1] <= n => Common[p] \in Nat}
<1>15. \A p \in P : Common[p] = step(Common, p) BY <1>14
<1>16. 0 \in V
  <2>1. ASSUME NEW p \in P, p[1] <= 0 PROVE Common[p] \in Nat
    <3>1. p[1] = 0 BY <2>1
    <3> QED BY <1>15, <3>1 DEF step
  <2> QED BY <2>1
<1>17. ASSUME NEW n \in Nat, n \in V PROVE n + 1 \in V
  <2>1. ASSUME NEW p \in P, p[1] <= n + 1 PROVE Common[p] \in Nat
    <3>1. CASE p[1] = 0 BY <1>15, <3>1 DEF step
    <3>2. CASE p[1] # 0
      <4>1. half(p) \in P /\ half(p)[1] <= n BY <1>1, <2>1, <3>2
      <4>2. Common[half(p)] \in Nat BY <1>17, <4>1
      <4>3. p[1] % 2 \in {0, 1} /\ p[2] % 2 \in {0, 1} BY Halves
      <4>4. (p[1] % 2) * (p[2] % 2) \in Nat BY <4>3
      <4>5. Common[p] = 2 * Common[half(p)] + (p[1] % 2) * (p[2] % 2) BY <1>15, <3>2 DEF step
      <4> HIDE DEF half
      <4> QED BY <4>2, <4>4, <4>5
    <3> QED BY <3>1, <3>2
  <2> QED BY <2>1
<1> HIDE DEF V
<1>18. \A n \in Nat : n \in V BY <1>16, <1>17, Induction
<1>19. \A p \in P : Common[p] \in Nat
  <2>1. ASSUME NEW p \in P PROVE Common[p] \in Nat
    <3>1. p[1] \in Nat /\ p[1] <= p[1] OBVIOUS
    <3> QED BY <1>18, <3>1 DEF V
  <2> QED BY <2>1
<1>20. v \div 2 \in Nat /\ w \div 2 \in Nat BY Halves
<1>21. Common[<< v, w >>] = step(Common, << v, w >>) /\ Common[<< v, w >>] \in Nat BY <1>15, <1>19
<1>22. (v & w) \in Nat /\ (v & w) = IF v = 0 THEN 0
                 ELSE 2 * ((v \div 2) & (w \div 2)) + (v % 2) * (w % 2)
  BY <1>21 DEF step, &
<1>23. ASSUME v = 0 PROVE (v & w) = 2 * ((v \div 2) & (w \div 2)) + (v % 2) * (w % 2)
  <2>1. v \div 2 = 0 /\ v % 2 = 0 BY <1>23, Halves
  <2>2. Common[<< 0, w \div 2 >>] = step(Common, << 0, w \div 2 >>) BY <1>15, <1>20
  <2>3. ((v \div 2) & (w \div 2)) = 0 BY <2>1, <2>2 DEF step, &
  <2>4. w % 2 \in {0, 1} BY Halves
  <2> QED BY <1>22, <1>23, <2>1, <2>3, <2>4
<1> QED BY <1>22, <1>23

\* A claim about the halves of numbers is proved from the claim about theirs.
LEMMA HalvesInduction ==
  ASSUME NEW T, 0 \in T,
         \A n \in Nat : n # 0 /\ n \div 2 \in T => n \in T
  PROVE  Nat \subseteq T
<1> DEFINE U == {n \in Nat : \A m \in Nat : m <= n => m \in T}
<1>1. 0 \in U
  <2>1. \A m \in Nat : m <= 0 => m = 0 OBVIOUS
  <2> QED BY <2>1
<1>2. ASSUME NEW n \in Nat, n \in U PROVE n + 1 \in U
  <2>1. ASSUME NEW m \in Nat, m <= n + 1 PROVE m \in T
    <3>1. CASE m = 0 BY <3>1
    <3>2. CASE m # 0
      <4>1. m \div 2 \in Nat /\ m \div 2 < m BY <3>2, Halves
      <4>2. m \div 2 <= n BY <2>1, <4>1
      <4>3. m \div 2 \in T BY <1>2, <4>1, <4>2
      <4> QED BY <3>2, <4>3
    <3> QED BY <3>1, <3>2
  <2> QED BY <2>1
<1> HIDE DEF U
<1>3. \A n \in Nat : n \in U BY <1>1, <1>2, Induction
<1>4. ASSUME NEW n \in Nat PROVE n \in T
  <2>1. n <= n OBVIOUS
  <2> QED BY <1>3, <2>1 DEF U
<1> QED BY <1>4

\* What two numbers have in common is a number,
LEMMA AndNumber ==
  ASSUME NEW v \in Nat, NEW w \in Nat
  PROVE  (v & w) \in Nat
BY CommonSteps

\* What is in two numbers is in each.
LEMMA AndAtMost ==
  ASSUME NEW v \in Nat, NEW w \in Nat
  PROVE  (v & w) <= v /\ (v & w) <= w
<1> DEFINE T == {n \in Nat : \A m \in Nat : (n & m) <= n /\ (n & m) <= m}
<1>1. 0 \in T
  <2>1. \A m \in Nat : (0 & m) = 0 BY CommonSteps
  <2> QED BY <2>1
<1>2. ASSUME NEW n \in Nat, n # 0, n \div 2 \in T PROVE n \in T
  <2>1. ASSUME NEW m \in Nat PROVE (n & m) <= n /\ (n & m) <= m
    <3> DEFINE c == (n \div 2) & (m \div 2)
    <3>1. (n & m) = 2 * c + (n % 2) * (m % 2) BY CommonSteps
    <3>2. /\ n \div 2 \in Nat /\ n % 2 \in {0, 1} /\ n = 2 * (n \div 2) + (n % 2)
          /\ m \div 2 \in Nat /\ m % 2 \in {0, 1} /\ m = 2 * (m \div 2) + (m % 2) BY Halves
    <3>3. c <= n \div 2 /\ c <= m \div 2 BY <1>2, <3>2
    <3>4. c \in Nat BY <3>2, CommonSteps
    <3>5. (n % 2) * (m % 2) <= n % 2 /\ (n % 2) * (m % 2) <= m % 2 /\ (n % 2) * (m % 2) \in Nat
      BY <3>2
    <3> DEFINE e == (n % 2) * (m % 2)
    <3> HIDE DEF c, e
    <3> QED BY <3>1, <3>2, <3>3, <3>4, <3>5 DEF e
  <2> QED BY <2>1
<1> HIDE DEF T
<1>3. v \in T BY <1>1, <1>2, HalvesInduction
<1> QED BY <1>3 DEF T

\* A number has all of itself in common with itself.
LEMMA AndSelf ==
  ASSUME NEW v \in Nat
  PROVE  (v & v) = v
<1> DEFINE T == {n \in Nat : (n & n) = n}
<1>1. 0 \in T BY CommonSteps
<1>2. ASSUME NEW n \in Nat, n # 0, n \div 2 \in T PROVE n \in T
  <2>1. (n & n) = 2 * ((n \div 2) & (n \div 2)) + (n % 2) * (n % 2) BY CommonSteps
  <2>2. n % 2 \in {0, 1} /\ n = 2 * (n \div 2) + (n % 2) /\ n \div 2 \in Nat BY Halves
  <2>3. (n % 2) * (n % 2) = n % 2 BY <2>2
  <2> QED BY <1>2, <2>1, <2>2, <2>3
<1> HIDE DEF T
<1>3. v \in T BY <1>1, <1>2, HalvesInduction
<1> QED BY <1>3 DEF T

\* What is in common does not depend on the order.
LEMMA AndCommutes ==
  ASSUME NEW v \in Nat, NEW w \in Nat
  PROVE  (v & w) = (w & v)
<1> DEFINE T == {n \in Nat : \A m \in Nat : (n & m) = (m & n)}
<1>1. ASSUME NEW m \in Nat PROVE (m & 0) = 0
  <2>1. (m & 0) <= 0 /\ (m & 0) \in Nat BY AndAtMost, AndNumber
  <2> QED BY <2>1
<1>2. 0 \in T BY <1>1, CommonSteps
<1>3. ASSUME NEW n \in Nat, n # 0, n \div 2 \in T PROVE n \in T
  <2>1. ASSUME NEW m \in Nat PROVE (n & m) = (m & n)
    <3>1. /\ (n & m) = 2 * ((n \div 2) & (m \div 2)) + (n % 2) * (m % 2)
          /\ (m & n) = 2 * ((m \div 2) & (n \div 2)) + (m % 2) * (n % 2) BY CommonSteps
    <3>2. n \div 2 \in Nat /\ m \div 2 \in Nat /\ n % 2 \in {0, 1} /\ m % 2 \in {0, 1} BY Halves
    <3>3. ((n \div 2) & (m \div 2)) = ((m \div 2) & (n \div 2)) BY <1>3, <3>2
    <3>4. (n % 2) * (m % 2) = (m % 2) * (n % 2) BY <3>2
    <3> QED BY <3>1, <3>3, <3>4
  <2> QED BY <2>1
<1> HIDE DEF T
<1>4. v \in T BY <1>2, <1>3, HalvesInduction
<1> QED BY <1>4 DEF T

\* The double of a number, and a number after it
LEMMA Doubles ==
  ASSUME NEW v \in Nat, NEW b \in {0, 1}
  PROVE  (2 * v + b) \div 2 = v /\ (2 * v + b) % 2 = b
OBVIOUS

\* A number shifted to the left and one with no more bits than it was shifted by
\* have nothing in common.
LEMMA AndShifted ==
  ASSUME NEW k \in Nat, NEW v \in Nat, NEW w \in Nat, w < PowerOfTwo[k]
  PROVE  ((v * PowerOfTwo[k]) & w) = 0 /\ (w & (v * PowerOfTwo[k])) = 0
<1> DEFINE p == PowerOfTwo
           T == {n \in Nat : \A m \in Nat : m < p[n] => ((v * p[n]) & m) = 0}
<1>0. p[0] = 1 /\ (\A n \in Nat : p[n + 1] = 2 * p[n] /\ p[n] \in Nat) BY PowersOfTwo
<1> HIDE DEF p
<1>1. 0 \in T
  <2>1. ASSUME NEW m \in Nat, m < p[0] PROVE ((v * p[0]) & m) = 0
    <3>1. m = 0 BY <1>0, <2>1
    <3>2. v * p[0] \in Nat BY <1>0
    <3>3. (0 & (v * p[0])) = 0 BY <3>2, CommonSteps
    <3> QED BY <3>1, <3>2, <3>3, AndCommutes
  <2> QED BY <2>1
<1>2. ASSUME NEW n \in Nat, n \in T PROVE n + 1 \in T
  <2>1. ASSUME NEW m \in Nat, m < p[n + 1] PROVE ((v * p[n + 1]) & m) = 0
    <3> DEFINE a == v * p[n]
    <3>1. v * p[n + 1] = 2 * a /\ a \in Nat BY <1>0
    <3> HIDE DEF a
    <3>2. (2 * a + 0) \div 2 = a /\ (2 * a + 0) % 2 = 0 /\ 2 * a + 0 = 2 * a /\ 2 * a \in Nat
      BY <3>1, Doubles
    <3>3. m \div 2 \in Nat /\ m % 2 \in {0, 1} /\ m = 2 * (m \div 2) + (m % 2) BY Halves
    <3>4. m \div 2 < p[n]
      <4>1. m < 2 * p[n] /\ p[n] \in Nat BY <1>0, <2>1
      <4> QED BY <3>3, <4>1
    <3>5. (a & (m \div 2)) = 0 BY <1>2, <3>3, <3>4 DEF a
    <3>6. ((2 * a) & m) = 2 * (a & (m \div 2)) + 0 * (m % 2) BY <3>2, CommonSteps
    <3>7. 0 * (m % 2) = 0 BY <3>3
    <3> QED BY <3>1, <3>5, <3>6, <3>7
  <2> QED BY <2>1
<1> HIDE DEF T
<1>3. k \in T BY <1>1, <1>2, Induction
<1>4. ((v * p[k]) & w) = 0 BY <1>3 DEF T, p
<1>5. v * p[k] \in Nat BY <1>0
<1> QED BY <1>4, <1>5, AndCommutes DEF p

\* Put together, they are the sum.
LEMMA OrShifted ==
  ASSUME NEW k \in Nat, NEW v \in Nat, NEW w \in Nat, w < PowerOfTwo[k]
  PROVE  ((v * PowerOfTwo[k]) | w) = v * PowerOfTwo[k] + w
         /\ (w | (v * PowerOfTwo[k])) = v * PowerOfTwo[k] + w
<1>1. v * PowerOfTwo[k] \in Nat
  <2>1. PowerOfTwo[k] \in Nat BY PowersOfTwo
  <2> QED BY <2>1
<1>2. ((v * PowerOfTwo[k]) & w) = 0 /\ (w & (v * PowerOfTwo[k])) = 0 BY AndShifted
<1> DEFINE a == v * PowerOfTwo[k]
<1>3. (a | w) = a + w - (a & w) /\ (w | a) = w + a - (w & a) BY DEF |
<1> HIDE DEF a
<1>4. a \in Nat /\ (a & w) = 0 /\ (w & a) = 0 BY <1>1, <1>2 DEF a
<1>5. (a | w) = a + w /\ (w | a) = a + w BY <1>3, <1>4
<1> QED BY <1>5 DEF a

\* Masking with 2^k - 1 leaves the k lowest bits.
LEMMA AndMask ==
  ASSUME NEW k \in Nat, NEW v \in Nat
  PROVE  (v & (PowerOfTwo[k] - 1)) = v % PowerOfTwo[k]
<1> DEFINE p == PowerOfTwo
           T == {n \in Nat : \A m \in Nat : (m & (p[n] - 1)) = m % p[n]}
<1>0. p[0] = 1 /\ \A n \in Nat : p[n + 1] = 2 * p[n] /\ p[n] \in Nat \ {0}
  BY PowersOfTwo, Positive
<1> HIDE DEF p
<1>1. 0 \in T
  <2>1. ASSUME NEW m \in Nat PROVE (m & (p[0] - 1)) = m % p[0]
    <3>1. p[0] - 1 = 0 /\ m % p[0] = 0 BY <1>0
    <3>2. (0 & m) = 0 BY CommonSteps
    <3> QED BY <3>1, <3>2, AndCommutes
  <2> QED BY <2>1
<1>2. ASSUME NEW n \in Nat, n \in T PROVE n + 1 \in T
  <2>1. ASSUME NEW m \in Nat PROVE (m & (p[n + 1] - 1)) = m % p[n + 1]
    <3> DEFINE a == p[n] - 1
               h == m \div 2
               b == m % 2
    <3>1. p[n + 1] - 1 = 2 * a + 1 /\ a \in Nat /\ 2 * a + 1 \in Nat /\ p[n] = a + 1 BY <1>0
    <3> HIDE DEF a
    <3>2. (2 * a + 1) \div 2 = a /\ (2 * a + 1) % 2 = 1 BY <3>1, Doubles
    <3>3. h \in Nat /\ b \in {0, 1} /\ m = 2 * h + b BY Halves
    <3>4. (m & (2 * a + 1)) = 2 * (h & a) + b * 1 BY <3>1, <3>2, CommonSteps
    <3> HIDE DEF h, b
    <3>5. (h & a) = h % p[n] BY <1>2, <3>3 DEF a
    <3> DEFINE P == p[n]
               d == h \div P
               r == h % P
    <3>6. P \in Nat \ {0} /\ p[n + 1] = 2 * P /\ 2 * P \in Nat \ {0} BY <1>0
    <3> HIDE DEF P
    <3>7. d \in Int /\ r \in 0 .. P - 1 /\ h = d * P + r
      <4>1. h \in Int BY <3>3
      <4> QED BY <4>1, <3>6, Division
    <3> HIDE DEF d, r
    <3>8. m = d * (2 * P) + (2 * r + b) /\ 2 * r + b \in 0 .. 2 * P - 1 BY <3>3, <3>6, <3>7
    <3>9. m % (2 * P) = 2 * r + b
      <4> DEFINE Q == 2 * P
                 e == 2 * r + b
      <4>1. Q \in Nat \ {0} /\ e \in 0 .. Q - 1 /\ m = d * Q + e BY <3>6, <3>8
      <4> HIDE DEF Q, e
      <4>2. m % Q = e BY <3>7, <4>1, Quotients
      <4> QED BY <4>2 DEF Q, e
    <3>10. (h & a) = r BY <3>5 DEF r, P
    <3>11. (m & (2 * a + 1)) = 2 * r + b
      <4>1. b * 1 = b BY <3>3
      <4> QED BY <3>4, <3>10, <4>1
    <3>12. m % p[n + 1] = 2 * r + b BY <3>6, <3>9
    <3> QED BY Zenon, <3>1, <3>11, <3>12
  <2> QED BY <2>1
<1> HIDE DEF T
<1>3. k \in T BY <1>1, <1>2, Induction
<1> QED BY <1>3 DEF T, p

\* A word has one bit if it has nothing in common with the number before it.
LEMMA OneBit ==
  ASSUME NEW w \in Nat \ {0}, PowerOf2(w)
  PROVE  \E k \in Nat : w = PowerOfTwo[k]
<1> DEFINE p == PowerOfTwo
           T == {n \in Nat : n # 0 /\ (n & (n - 1)) = 0 => \E k \in Nat : n = p[k]}
<1>0. p[0] = 1 /\ \A n \in Nat : p[n + 1] = 2 * p[n] BY PowersOfTwo
<1> HIDE DEF p
<1>1. 0 \in T OBVIOUS
<1>2. ASSUME NEW n \in Nat, n # 0, n \div 2 \in T PROVE n \in T
  <2>1. SUFFICES ASSUME (n & (n - 1)) = 0 PROVE \E k \in Nat : n = p[k] OBVIOUS
  <2> DEFINE h == n \div 2
             b == n % 2
  <2>2. h \in Nat /\ b \in {0, 1} /\ n = 2 * h + b BY Halves
  <2>3. n - 1 \in Nat BY <1>2
  <2>4. (n & (n - 1)) = 2 * (h & ((n - 1) \div 2)) + b * ((n - 1) % 2) BY <2>3, CommonSteps
  <2> HIDE DEF h, b
  <2>5. CASE h = 0
    <3>1. n = 1 BY <1>2, <2>2, <2>5
    <3> QED BY <1>0, <3>1
  <2>6. CASE h # 0 /\ b = 1
    <3>1. n - 1 = 2 * h + 0 BY <2>2, <2>6
    <3>2. (n - 1) \div 2 = h /\ (n - 1) % 2 = 0 BY <2>2, <3>1, Doubles
    <3>3. (h & h) = h BY <2>2, AndSelf
    <3> QED BY <2>1, <2>2, <2>4, <2>6, <3>2, <3>3
  <2>7. CASE h # 0 /\ b = 0
    <3>1. n - 1 = 2 * (h - 1) + 1 /\ h - 1 \in Nat BY <2>2, <2>7
    <3>2. (n - 1) \div 2 = h - 1 /\ (n - 1) % 2 = 1 BY <3>1, Doubles
    <3>3. (h & (h - 1)) \in Nat BY <2>2, <3>1, AndNumber
    <3>4. (h & (h - 1)) = 0 BY <2>1, <2>4, <2>7, <3>2, <3>3
    <3>5. PICK k \in Nat : h = p[k] BY <1>2, <2>7, <3>4 DEF h
    <3>6. n = p[k + 1] /\ k + 1 \in Nat BY <1>0, <2>2, <2>7, <3>5
    <3> QED BY <3>6
  <2> QED BY <2>2, <2>5, <2>6, <2>7
<1> HIDE DEF T
<1>3. w \in T BY <1>1, <1>2, HalvesInduction
<1> QED BY <1>3 DEF T, p, PowerOf2

\* Numbers that differ by a multiple of the range of the type are stored alike.
LEMMA StoredModulo ==
  ASSUME NEW u \in Int, NEW k \in Int
  PROVE  Stored(u + k * Size) = Stored(u)
<1>1. Base \in Nat \ {0} BY Bases
<1> HIDE DEF Base
<1> DEFINE m == u \div Size
           r == u % Size
<1>2. Size \in Nat \ {0} /\ k * Size = (k * Base) * Base /\ k * Size \in Int BY <1>1 DEF Size
<1>3. (u + k * Size) % Size = u % Size
  <2> HIDE DEF Size
  <2>1. m \in Int /\ r \in 0 .. Size - 1 /\ u = m * Size + r BY <1>2, Division
  <2> HIDE DEF m, r
  <2>2. u + k * Size = (m + k) * Size + r BY <1>2, <2>1
  <2>3. (u + k * Size) % Size = r BY <1>2, <2>1, <2>2, Quotients
  <2>4. u % Size = r BY <1>2, <2>1, Quotients
  <2> QED BY <2>3, <2>4
<1>4. (u + k * Size) % Base = u % Base
  <2> DEFINE d == u \div Base
             e == u % Base
  <2>1. d \in Int /\ e \in 0 .. Base - 1 /\ u = d * Base + e BY <1>1, Division
  <2> HIDE DEF d, e
  <2>2. u + k * Size = (d + k * Base) * Base + e BY <1>1, <1>2, <2>1
  <2>3. (u + k * Size) % Base = e
    <3>1. d + k * Base \in Int BY <1>1, <2>1
    <3>2. ((d + k * Base) * Base + e) % Base = e BY <1>1, <2>1, <3>1, Quotients
    <3> QED BY <2>2, <3>2
  <2>4. u % Base = e BY <1>1, <2>1, Quotients
  <2> QED BY <2>3, <2>4
<1> QED BY <1>3, <1>4 DEF Stored

\* So are words that differ by multiples of Base.
LEMMA WordsModulo ==
  ASSUME NEW h \in Int, NEW l \in Int, NEW i \in Int, NEW j \in Int
  PROVE  gp_uint128(h + i * Base, l + j * Base) = gp_uint128(h, l)
<1>1. Base \in Nat \ {0} BY Bases
<1>2. ASSUME NEW u \in Int, NEW k \in Int PROVE (u + k * Base) % Base = u % Base
  <2> DEFINE d == u \div Base
             e == u % Base
  <2> HIDE DEF Base
  <2>1. d \in Int /\ e \in 0 .. Base - 1 /\ u = d * Base + e BY <1>1, Division
  <2> HIDE DEF d, e
  <2>2. u + k * Base = (d + k) * Base + e BY <1>1, <2>1
  <2>3. (u + k * Base) % Base = e BY <1>1, <2>1, <2>2, Quotients
  <2>4. u % Base = e BY <1>1, <2>1, Quotients
  <2> QED BY <2>3, <2>4
<1> QED BY <1>2 DEF gp_uint128

\* The value of what is stored
LEMMA ValueStored ==
  ASSUME NEW u \in Int
  PROVE  /\ Stored(u) \in TwoWords
         /\ Value(Stored(u)) = u % Size
         /\ \E k \in Int : Value(Stored(u)) = u + k * Size
<1>1. Base \in Nat \ {0} BY Bases
<1> HIDE DEF Base
<1> DEFINE s == u % Size
           h == s \div Base
           l == s % Base
           m == u \div Size
<1>2. Size \in Nat \ {0} /\ Size = Base * Base BY <1>1 DEF Size
<1>3. s \in 0 .. Size - 1 /\ m \in Int /\ u = m * Size + s
  <2> HIDE DEF Size
  <2> QED BY <1>2, Division
<1> HIDE DEF s, m
<1>4. h \in Int /\ l \in 0 .. Base - 1 /\ s = h * Base + l BY <1>1, <1>3, Division
<1> HIDE DEF h, l
<1>5. h \in 0 .. Base - 1
  <2>1. h < 0 => h * Base <= - Base BY <1>1, <1>4
  <2>2. h >= Base => h * Base >= Base * Base BY <1>1, <1>4
  <2> QED BY <1>1, <1>2, <1>3, <1>4, <2>1, <2>2
<1>6. u % Base = l
  <2>1. u = (m * Base + h) * Base + l BY <1>1, <1>2, <1>3, <1>4
  <2>2. m * Base + h \in Int BY <1>1, <1>3, <1>4
  <2>3. ((m * Base + h) * Base + l) % Base = l BY <1>1, <1>4, <2>2, Quotients
  <2> QED BY <2>1, <2>3
<1>7. Stored(u) = << h, l >> BY <1>6 DEF Stored, h, s
<1>8. Value(Stored(u)) = s BY <1>4, <1>7 DEF Value, Hi, Lo
<1>9. s = u + (- m) * Size BY <1>2, <1>3
<1>10. - m \in Int BY <1>3
<1>11. Stored(u) \in TwoWords BY <1>4, <1>5, <1>7 DEF TwoWords, Words
<1> QED BY <1>8, <1>9, <1>10, <1>11 DEF s

\* What is computed of stored numbers is what is stored of what is computed.
LEMMA StoredAgain ==
  ASSUME NEW u \in Int, NEW w \in Int
  PROVE  /\ Stored(Value(Stored(u)) + w) = Stored(u + w)
         /\ Stored(w + Value(Stored(u))) = Stored(w + u)
         /\ Stored(w - Value(Stored(u))) = Stored(w - u)
         /\ Stored(Value(Stored(u)) - w) = Stored(u - w)
         /\ Stored(Value(Stored(u)) * w) = Stored(u * w)
<1>1. Size \in Nat BY Bases DEF Size
<1>2. PICK k \in Int : Value(Stored(u)) = u + k * Size BY ValueStored
<1> HIDE DEF Size
<1> DEFINE x1 == Value(Stored(u))
<1>3. /\ x1 + w = (u + w) + k * Size /\ w + x1 = (w + u) + k * Size
      /\ w - x1 = (w - u) + (- k) * Size /\ x1 - w = (u - w) + k * Size
      /\ x1 * w = u * w + (k * w) * Size BY <1>1, <1>2
<1>4. u + w \in Int /\ w + u \in Int /\ w - u \in Int /\ u - w \in Int /\ u * w \in Int
      /\ k * w \in Int /\ - k \in Int OBVIOUS
<1> HIDE DEF x1
<1>5. /\ Stored((u + w) + k * Size) = Stored(u + w) /\ Stored((w + u) + k * Size) = Stored(w + u)
      /\ Stored((w - u) + (- k) * Size) = Stored(w - u) /\ Stored((u - w) + k * Size) = Stored(u - w)
      /\ Stored(u * w + (k * w) * Size) = Stored(u * w) BY <1>4, StoredModulo
<1> QED BY <1>3, <1>5 DEF x1

\* gp_uint128_not turns a number into the one that is left to the greatest,
LEMMA NotAgrees ==
  ASSUME NEW a \in TwoWords
  PROVE  gp_uint128_not(a) = Stored(-1 - Value(a))
<1>1. Base \in Nat \ {0} BY Bases
<1>2. Hi(a) \in 0 .. Base - 1 /\ Lo(a) \in 0 .. Base - 1 /\ Value(a) = Hi(a) * Base + Lo(a) BY Parts
<1> DEFINE h == Hi(a)
           l == Lo(a)
<1> HIDE DEF Base, h, l
<1>3. h \in 0 .. Base - 1 /\ l \in 0 .. Base - 1 /\ Value(a) = h * Base + l BY <1>2 DEF h, l
<1>4. -1 - Value(a) = (-1 - h) * Base + (Base - 1 - l) BY <1>1, <1>3
<1>5. (Base - 1 - l) \div Base = 0 BY <1>1, <1>3
<1>6. Stored(-1 - Value(a)) = gp_uint128((-1 - h) + 0, Base - 1 - l)
  <2>1. -1 - h \in Int /\ Base - 1 - l \in Int BY <1>1, <1>3
  <2> QED BY <1>4, <1>5, <2>1, StoredSum
<1>7. gp_uint128(((-1 - h) + 0) + 1 * Base, (Base - 1 - l) + 0 * Base)
        = gp_uint128((-1 - h) + 0, Base - 1 - l)
  <2>1. (-1 - h) + 0 \in Int /\ Base - 1 - l \in Int /\ 1 \in Int /\ 0 \in Int BY <1>1, <1>3
  <2> QED BY <2>1, WordsModulo
<1>8. ((-1 - h) + 0) + 1 * Base = Base - 1 - h /\ (Base - 1 - l) + 0 * Base = Base - 1 - l
  BY <1>1, <1>3
<1> QED BY <1>6, <1>7, <1>8 DEF gp_uint128_not, h, l

\* The carry of a negation
LEMMA NegateAgrees ==
  ASSUME NEW a \in TwoWords
  PROVE  gp_uint128_negate(a) = Stored(- Value(a))
<1>1. Base \in Nat \ {0} BY Bases
<1>2. Hi(a) \in 0 .. Base - 1 /\ Lo(a) \in 0 .. Base - 1 /\ Value(a) = Hi(a) * Base + Lo(a) BY Parts
<1> DEFINE h == Hi(a)
           l == Lo(a)
           c == One(l = 0)
<1> HIDE DEF Base, h, l
<1>3. h \in 0 .. Base - 1 /\ l \in 0 .. Base - 1 /\ Value(a) = h * Base + l BY <1>2 DEF h, l
<1>4. c \in Int /\ (- l) \div Base = c - 1
  <2>1. CASE l = 0
    <3>1. 0 \div Base = 0 BY <1>1
    <3> QED BY <2>1, <3>1 DEF One
  <2>2. CASE l # 0
    <3>1. - l = (-1) * Base + (Base - l) /\ Base - l \in 0 .. Base - 1 BY <1>1, <1>3, <2>2
    <3>2. (- l) \div Base = -1 BY <1>1, <3>1, Quotients
    <3> QED BY <2>2, <3>2 DEF One
  <2> QED BY <2>1, <2>2
<1> HIDE DEF c
<1>5. - Value(a) = (- h) * Base + (- l) BY <1>1, <1>3
<1>6. Stored(- Value(a)) = gp_uint128((- h) + (c - 1), - l)
  <2>1. - h \in Int /\ - l \in Int /\ c - 1 \in Int BY <1>3, <1>4
  <2> QED BY <1>4, <1>5, <2>1, StoredSum
<1>7. gp_uint128(((- h) + (c - 1)) + 1 * Base, (- l) + 1 * Base) = gp_uint128((- h) + (c - 1), - l)
  <2>1. (- h) + (c - 1) \in Int /\ - l \in Int /\ 1 \in Int BY <1>3, <1>4
  <2> QED BY <2>1, WordsModulo
<1>8. ((- h) + (c - 1)) + 1 * Base = Base - 1 - h + c /\ (- l) + 1 * Base = Base - l
  BY <1>1, <1>3, <1>4
<1> QED BY <1>6, <1>7, <1>8 DEF gp_uint128_negate, h, l, c

\* What a word is as a signed one
LEMMA SignedWord ==
  ASSUME NEW w \in 0 .. Base - 1
  PROVE  /\ Signed(w) \in - (Base \div 2) .. Base \div 2 - 1
         /\ Signed(w) = w \/ Signed(w) = w - Base
         /\ Signed(w) < 0 <=> Signed(w) = w - Base
<1>1. Base \in Nat \ {0} /\ Base = 2 * (Base \div 2) /\ Base \div 2 \in Nat BY Bases
<1> DEFINE t == Base \div 2
<1> HIDE DEF Base, t
<1>2. t \in Nat /\ Base = 2 * t /\ Base \div 2 = t BY <1>1 DEF t
<1> QED BY <1>1, <1>2 DEF Signed

\* gp_uint128_i64 extends the sign of a word to the high word.
LEMMA I64Agrees ==
  ASSUME NEW w \in 0 .. Base - 1
  PROVE  gp_uint128_i64(w) = Stored(Signed(w))
<1>1. Base \in Nat \ {0} BY Bases
<1> HIDE DEF Base
<1>2. w \div Base = 0 BY <1>1
<1>3. CASE Signed(w) = w
  <2>1. ~ (Signed(w) < 0) BY <1>3
  <2>2. Signed(w) = 0 * Base + w BY <1>1, <1>3
  <2>3. Stored(0 * Base + w) = gp_uint128(0 + 0, w)
    <3>1. 0 \in Int /\ w \in Int OBVIOUS
    <3> QED BY <1>2, <3>1, StoredSum
  <2> QED BY <2>1, <2>2, <2>3 DEF gp_uint128_i64
<1>4. CASE Signed(w) = w - Base
  <2>1. Signed(w) < 0 BY <1>1, <1>4
  <2>2. Signed(w) = (-1) * Base + w BY <1>1, <1>4
  <2>3. Stored((-1) * Base + w) = gp_uint128((-1) + 0, w)
    <3>1. -1 \in Int /\ w \in Int /\ 0 \in Int OBVIOUS
    <3> QED BY <1>2, <3>1, StoredSum
  <2>4. gp_uint128(((-1) + 0) + 1 * Base, w + 0 * Base) = gp_uint128((-1) + 0, w)
    <3>1. (-1) + 0 \in Int /\ w \in Int /\ 0 \in Int /\ 1 \in Int OBVIOUS
    <3> QED BY <3>1, WordsModulo
  <2>5. ((-1) + 0) + 1 * Base = Base - 1 /\ w + 0 * Base = w BY <1>1
  <2> QED BY <2>1, <2>2, <2>3, <2>4, <2>5 DEF gp_uint128_i64
<1> QED BY <1>3, <1>4, SignedWord

\* Numbers of k bits have no more than k bits together.
LEMMA OrBelow ==
  ASSUME NEW k \in Nat, NEW v \in 0 .. PowerOfTwo[k] - 1, NEW w \in 0 .. PowerOfTwo[k] - 1
  PROVE  (v | w) \in 0 .. PowerOfTwo[k] - 1
<1> DEFINE p == PowerOfTwo
           T == {n \in Nat : \A a, b \in Nat : a < p[n] /\ b < p[n] => a + b - (a & b) < p[n]}
<1>0. p[0] = 1 /\ \A n \in Nat : p[n + 1] = 2 * p[n] /\ p[n] \in Nat \ {0}
  BY PowersOfTwo, Positive
<1> HIDE DEF p
<1>1. 0 \in T
  <2>1. ASSUME NEW a \in Nat, NEW b \in Nat, a < p[0], b < p[0] PROVE a + b - (a & b) < p[0]
    <3>1. a = 0 /\ b = 0 BY <1>0, <2>1
    <3>2. (0 & 0) = 0 BY CommonSteps
    <3> QED BY <1>0, <3>1, <3>2
  <2> QED BY <2>1
<1>2. ASSUME NEW n \in Nat, n \in T PROVE n + 1 \in T
  <2>1. ASSUME NEW a \in Nat, NEW b \in Nat, a < p[n + 1], b < p[n + 1]
        PROVE  a + b - (a & b) < p[n + 1]
    <3> DEFINE g == a \div 2
               h == b \div 2
               c == a % 2
               d == b % 2
               P == p[n]
    <3>1. g \in Nat /\ c \in {0, 1} /\ a = 2 * g + c /\ h \in Nat /\ d \in {0, 1} /\ b = 2 * h + d
      BY Halves
    <3>2. (a & b) = 2 * (g & h) + c * d BY CommonSteps
    <3>3. P \in Nat /\ p[n + 1] = 2 * P BY <1>0
    <3> HIDE DEF g, h, c, d, P
    <3>4. g < P /\ h < P BY <2>1, <3>1, <3>3
    <3>5. g + h - (g & h) < P BY <1>2, <3>1, <3>4 DEF P
    <3>6. (g & h) \in Nat BY <3>1, AndNumber
    <3>7. c + d - c * d <= 1 /\ c * d \in Nat BY <3>1
    <3> DEFINE e == c * d
    <3> HIDE DEF e
    <3>8. a + b - (2 * (g & h) + e) < 2 * P BY <3>1, <3>3, <3>5, <3>6, <3>7 DEF e
    <3> QED BY <3>2, <3>3, <3>8 DEF e
  <2> QED BY <2>1
<1> HIDE DEF T
<1>3. k \in T BY <1>1, <1>2, Induction
<1>4. v \in Nat /\ w \in Nat /\ v < p[k] /\ w < p[k] /\ p[k] \in Nat BY <1>0 DEF p
<1>5. v + w - (v & w) < p[k] BY <1>3, <1>4 DEF T
<1>6. (v & w) \in Nat /\ (v & w) <= v BY <1>4, AndNumber, AndAtMost
<1> QED BY <1>4, <1>5, <1>6 DEF |, p

\* Words have words in common, together and apart.
LEMMA BitsOfWords ==
  ASSUME NEW v \in 0 .. Base - 1, NEW w \in 0 .. Base - 1
  PROVE  /\ (v & w) \in 0 .. Base - 1 /\ (v | w) \in 0 .. Base - 1 /\ (v ^^ w) \in 0 .. Base - 1
         /\ (v | w) + (v & w) = v + w /\ (v | w) - (v & w) = (v ^^ w)
<1>1. Base \in Nat \ {0} /\ WordBits \in Nat BY Bases, WordBitsAssumption
<1>2. (v | w) \in 0 .. Base - 1 BY <1>1, OrBelow DEF Base
<1> HIDE DEF Base
<1>3. v \in Nat /\ w \in Nat BY <1>1
<1>4. (v & w) \in Nat /\ (v & w) <= v /\ (v & w) <= w BY <1>3, AndNumber, AndAtMost
<1>5. (v | w) = v + w - (v & w) /\ (v ^^ w) = v + w - 2 * (v & w) BY DEF |, ^^
<1> QED BY <1>1, <1>2, <1>3, <1>4, <1>5

\* Two words of what is computed of words
LEMMA PairOf ==
  ASSUME NEW h \in 0 .. Base - 1, NEW l \in 0 .. Base - 1
  PROVE  /\ gp_uint128(h, l) = << h, l >>
         /\ gp_uint128(h, l) \in TwoWords
         /\ Value(gp_uint128(h, l)) = h * Base + l
<1>1. Base \in Nat \ {0} BY Bases
<1> HIDE DEF Base
<1>2. h % Base = h /\ l % Base = l BY <1>1
<1>3. gp_uint128(h, l) = << h, l >> BY <1>2 DEF gp_uint128
<1> QED BY <1>3 DEF TwoWords, Words, Value, Hi, Lo

\* gp_uint128_and, gp_uint128_or and gp_uint128_xor: every bit is in one or the other, or in both.
LEMMA BitsAgree ==
  ASSUME NEW a \in TwoWords, NEW b \in TwoWords
  PROVE  /\ gp_uint128_or(a, b) \in TwoWords /\ gp_uint128_and(a, b) \in TwoWords
         /\ gp_uint128_xor(a, b) \in TwoWords
         /\ gp_uint128_add(gp_uint128_or(a, b), gp_uint128_and(a, b)) = Stored(Value(a) + Value(b))
         /\ gp_uint128_sub(gp_uint128_or(a, b), gp_uint128_and(a, b)) = gp_uint128_xor(a, b)
<1>1. Base \in Nat \ {0} BY Bases
<1>2. /\ Hi(a) \in 0 .. Base - 1 /\ Lo(a) \in 0 .. Base - 1 /\ Value(a) = Hi(a) * Base + Lo(a)
      /\ Hi(b) \in 0 .. Base - 1 /\ Lo(b) \in 0 .. Base - 1 /\ Value(b) = Hi(b) * Base + Lo(b)
  BY Parts
<1> DEFINE h == Hi(a)
           l == Lo(a)
           g == Hi(b)
           m == Lo(b)
<1>3. /\ gp_uint128_or(a, b) = gp_uint128(h | g, l | m)
      /\ gp_uint128_and(a, b) = gp_uint128(h & g, l & m)
      /\ gp_uint128_xor(a, b) = gp_uint128(h ^^ g, l ^^ m)
  BY DEF gp_uint128_or, gp_uint128_and, gp_uint128_xor
<1> HIDE DEF Base, h, l, g, m
<1>4. /\ h \in 0 .. Base - 1 /\ l \in 0 .. Base - 1 /\ Value(a) = h * Base + l
      /\ g \in 0 .. Base - 1 /\ m \in 0 .. Base - 1 /\ Value(b) = g * Base + m
  BY <1>2 DEF h, l, g, m
<1> DEFINE or1 == h | g
           or0 == l | m
           and1 == h & g
           and0 == l & m
           xor1 == h ^^ g
           xor0 == l ^^ m
<1>5. /\ and1 \in 0 .. Base - 1 /\ or1 \in 0 .. Base - 1 /\ xor1 \in 0 .. Base - 1
      /\ or1 + and1 = h + g /\ or1 - and1 = xor1
      /\ and0 \in 0 .. Base - 1 /\ or0 \in 0 .. Base - 1 /\ xor0 \in 0 .. Base - 1
      /\ or0 + and0 = l + m /\ or0 - and0 = xor0
  BY <1>4, BitsOfWords
<1>6. /\ gp_uint128_or(a, b) = gp_uint128(or1, or0)
      /\ gp_uint128_and(a, b) = gp_uint128(and1, and0)
      /\ gp_uint128_xor(a, b) = gp_uint128(xor1, xor0)
  BY <1>3
<1> HIDE DEF or1, or0, and1, and0, xor1, xor0
<1>7. /\ gp_uint128_or(a, b) \in TwoWords /\ Value(gp_uint128_or(a, b)) = or1 * Base + or0
      /\ gp_uint128_and(a, b) \in TwoWords /\ Value(gp_uint128_and(a, b)) = and1 * Base + and0
      /\ gp_uint128_xor(a, b) \in TwoWords /\ Value(gp_uint128_xor(a, b)) = xor1 * Base + xor0
  BY <1>5, <1>6, PairOf
<1>8. (or1 * Base + or0) + (and1 * Base + and0) = Value(a) + Value(b)
  <2>1. (or1 * Base + or0) + (and1 * Base + and0) = (or1 + and1) * Base + (or0 + and0)
    BY <1>1, <1>5
  <2>2. (h + g) * Base + (l + m) = (h * Base + l) + (g * Base + m) BY <1>1, <1>4
  <2> QED BY <1>4, <1>5, <2>1, <2>2
<1>9. (or1 * Base + or0) - (and1 * Base + and0) = xor1 * Base + xor0
  <2>1. (or1 * Base + or0) - (and1 * Base + and0) = (or1 - and1) * Base + (or0 - and0)
    BY <1>1, <1>5
  <2> QED BY <1>5, <2>1
<1>10. gp_uint128_add(gp_uint128_or(a, b), gp_uint128_and(a, b)) = Stored(Value(a) + Value(b))
  BY <1>7, <1>8, AddAgrees
<1>11. gp_uint128_sub(gp_uint128_or(a, b), gp_uint128_and(a, b)) = Stored(Value(gp_uint128_xor(a, b)))
  BY <1>7, <1>9, SubAgrees
<1> QED BY <1>7, <1>10, <1>11, StoredValue

\* Pairs of parts are ordered by the high part first.
LEMMA PairOrder ==
  ASSUME NEW g \in Int, NEW h \in Int, NEW l \in 0 .. Base - 1, NEW m \in 0 .. Base - 1
  PROVE  /\ h * Base + l < g * Base + m <=> h < g \/ (h = g /\ l < m)
         /\ h * Base + l = g * Base + m <=> h = g /\ l = m
<1>1. Base \in Nat \ {0} BY Bases
<1> HIDE DEF Base
<1>2. ASSUME NEW i \in Int, NEW j \in Int, NEW s \in 0 .. Base - 1, NEW t \in 0 .. Base - 1, i < j
      PROVE  i * Base + s < j * Base + t
  <2>1. (j - i) * Base >= 1 * Base BY <1>1, <1>2
  <2>2. (j - i) * Base = j * Base - i * Base BY <1>1
  <2>3. j * Base \in Int /\ i * Base \in Int BY <1>1
  <2> QED BY <1>1, <2>1, <2>2, <2>3
<1>3. h < g => h * Base + l < g * Base + m BY <1>2
<1>4. g < h => g * Base + m < h * Base + l BY <1>2
<1>5. h * Base \in Int /\ g * Base \in Int BY <1>1
<1>6. h < g \/ g < h \/ h = g OBVIOUS
<1> QED BY <1>3, <1>4, <1>5, <1>6

\* The sign of two words is that of the high one.
LEMMA SignedParts ==
  ASSUME NEW a \in TwoWords
  PROVE  /\ SignedValue(a) = Signed(Hi(a)) * Base + Lo(a)
         /\ Signed(Hi(a)) \in Int
         /\ SignedValue(a) = IF Negative(a) THEN Value(a) - Size ELSE Value(a)
<1>1. Base \in Nat \ {0} /\ Base = 2 * (Base \div 2) /\ Base \div 2 \in Nat BY Bases
<1> DEFINE t == Base \div 2
           h == Hi(a)
           l == Lo(a)
<1>2. h \in 0 .. Base - 1 /\ l \in 0 .. Base - 1 /\ Value(a) = h * Base + l BY Parts
<1> HIDE DEF Base, t, h, l
<1>3. t \in Nat /\ Base = 2 * t BY <1>1 DEF t
<1>4. Size = 2 * (t * Base) /\ Size = Base * Base BY <1>1, <1>3 DEF Size
<1>5. (h * Base + l < t * Base + 0) <=> (h < t \/ (h = t /\ l < 0))
  <2>1. 0 \in 0 .. Base - 1 BY <1>1
  <2> QED BY <1>2, <1>3, <2>1, PairOrder
<1>6. 2 * Value(a) >= Size <=> 2 * h >= Base
  <2>1. t * Base \in Int /\ h * Base \in Int BY <1>1, <1>2, <1>3
  <2> QED BY <1>2, <1>3, <1>4, <1>5, <2>1
<1>7. Signed(h) = IF 2 * h >= Base THEN h - Base ELSE h BY DEF Signed
<1>8. (h - Base) * Base + l = (h * Base + l) - Size BY <1>1, <1>2, <1>4
<1>9. Negative(a) <=> 2 * h >= Base BY <1>1, <1>2, <1>7 DEF Negative, h
<1> QED BY <1>1, <1>2, <1>6, <1>7, <1>8, <1>9 DEF SignedValue, h, l

\* The comparisons of int128.h decide by the high words, and by the low words where those are equal.
LEMMA ComparisonsAgree ==
  ASSUME NEW a \in TwoWords, NEW b \in TwoWords
  PROVE  /\ gp_uint128_equal(a, b) <=> Value(a) = Value(b)
         /\ gp_uint128_not_equal(a, b) <=> Value(a) # Value(b)
         /\ gp_uint128_greater_than(a, b) <=> Value(a) > Value(b)
         /\ gp_uint128_less_than(a, b) <=> Value(a) < Value(b)
         /\ gp_uint128_greater_than_equal(a, b) <=> Value(a) >= Value(b)
         /\ gp_uint128_less_than_equal(a, b) <=> Value(a) <= Value(b)
         /\ gp_int128_greater_than(a, b) <=> SignedValue(a) > SignedValue(b)
         /\ gp_int128_less_than(a, b) <=> SignedValue(a) < SignedValue(b)
         /\ gp_int128_greater_than_equal(a, b) <=> SignedValue(a) >= SignedValue(b)
         /\ gp_int128_less_than_equal(a, b) <=> SignedValue(a) <= SignedValue(b)
<1>1. Base \in Nat \ {0} BY Bases
<1> DEFINE h == Hi(a)
           l == Lo(a)
           g == Hi(b)
           m == Lo(b)
           v == Value(a)
           w == Value(b)
           sh == Signed(h)
           sg == Signed(g)
           sv == SignedValue(a)
           sw == SignedValue(b)
<1>2. /\ h \in 0 .. Base - 1 /\ l \in 0 .. Base - 1 /\ v = h * Base + l
      /\ g \in 0 .. Base - 1 /\ m \in 0 .. Base - 1 /\ w = g * Base + m
  BY Parts
<1>3. sh \in Int /\ sv = sh * Base + l /\ sg \in Int /\ sw = sg * Base + m BY SignedParts
<1>4. (sh = sg) <=> (h = g)
  <2>1. /\ sh = h \/ sh = h - Base
        /\ sh < 0 <=> sh = h - Base
        /\ sg = g \/ sg = g - Base
        /\ sg < 0 <=> sg = g - Base BY <1>2, SignedWord
  <2>2. h \in 0 .. Base - 1 /\ g \in 0 .. Base - 1 /\ sh \in Int /\ sg \in Int BY <1>2, <1>3
  <2> HIDE DEF Base, h, g, sh, sg
  <2>3. sh = sg => h = g
    <3>1. CASE sh < 0 BY <1>1, <2>1, <2>2, <3>1
    <3>2. CASE ~ (sh < 0) BY <1>1, <2>1, <2>2, <3>2
    <3> QED BY <3>1, <3>2
  <2>4. h = g => sh = sg BY DEF sh, sg
  <2> QED BY <2>3, <2>4
<1> HIDE DEF Base, h, l, g, m, v, w, sh, sg, sv, sw
<1>5. /\ v \in Int /\ w \in Int /\ sv \in Int /\ sw \in Int BY <1>1, <1>2, <1>3
<1>6. /\ v < w <=> h < g \/ (h = g /\ l < m)
      /\ v = w <=> h = g /\ l = m
      /\ w < v <=> g < h \/ (g = h /\ m < l)
  <2>1. h \in Int /\ g \in Int BY <1>2
  <2> QED BY <1>2, <2>1, PairOrder
<1>7. /\ sv < sw <=> sh < sg \/ (h = g /\ l < m)
      /\ sv = sw <=> h = g /\ l = m
      /\ sw < sv <=> sg < sh \/ (g = h /\ m < l) BY <1>2, <1>3, <1>4, PairOrder
<1>8. l \in Int /\ m \in Int /\ h \in Int /\ g \in Int BY <1>2
<1>9. /\ gp_uint128_equal(a, b) <=> v = w
      /\ gp_uint128_not_equal(a, b) <=> v # w
  BY <1>6 DEF gp_uint128_equal, gp_uint128_not_equal, h, l, g, m
<1>10. /\ gp_uint128_greater_than(a, b) <=> v > w
       /\ gp_uint128_less_than(a, b) <=> v < w
       /\ gp_uint128_greater_than_equal(a, b) <=> v >= w
       /\ gp_uint128_less_than_equal(a, b) <=> v <= w
  <2>1. /\ gp_uint128_greater_than(a, b) <=> IF h = g THEN l > m ELSE h > g
        /\ gp_uint128_less_than(a, b) <=> IF h = g THEN l < m ELSE h < g
        /\ gp_uint128_greater_than_equal(a, b) <=> IF h = g THEN l >= m ELSE h >= g
        /\ gp_uint128_less_than_equal(a, b) <=> IF h = g THEN l <= m ELSE h <= g
    BY DEF gp_uint128_greater_than, gp_uint128_less_than, gp_uint128_greater_than_equal,
           gp_uint128_less_than_equal, h, l, g, m
  <2> QED BY <1>5, <1>6, <1>8, <2>1
<1>11. /\ gp_int128_greater_than(a, b) <=> sv > sw
       /\ gp_int128_less_than(a, b) <=> sv < sw
       /\ gp_int128_greater_than_equal(a, b) <=> sv >= sw
       /\ gp_int128_less_than_equal(a, b) <=> sv <= sw
  <2>1. /\ gp_int128_greater_than(a, b) <=> IF h = g THEN l > m ELSE sh > sg
        /\ gp_int128_less_than(a, b) <=> IF h = g THEN l < m ELSE sh < sg
        /\ gp_int128_greater_than_equal(a, b) <=> IF h = g THEN l >= m ELSE sh >= sg
        /\ gp_int128_less_than_equal(a, b) <=> IF h = g THEN l <= m ELSE sh <= sg
    BY DEF gp_int128_greater_than, gp_int128_less_than, gp_int128_greater_than_equal,
           gp_int128_less_than_equal, h, l, g, m, sh, sg
  <2> QED BY <1>3, <1>4, <1>5, <1>7, <1>8, <2>1
<1> QED BY <1>9, <1>10, <1>11 DEF v, w, sv, sw

\* The product of two numbers of two parts each
LEMMA ProductOfParts ==
  ASSUME NEW h \in Int, NEW a \in Int, NEW b \in Int, NEW c \in Int, NEW d \in Int
  PROVE  (a * h + b) * (c * h + d) = (a * c) * (h * h) + ((b * c) * h + (a * d) * h + b * d)
OBVIOUS

\* The product of two halves of words has no more than two halves.
LEMMA SmallProduct ==
  ASSUME NEW h \in Nat, NEW a \in 0 .. h - 1, NEW b \in 0 .. h - 1
  PROVE  a * b \in Nat /\ a * b <= (h - 1) * (h - 1)
<1>1. a * b <= a * (h - 1) BY ProductOrder
<1>2. (h - 1) * a <= (h - 1) * (h - 1)
  <2>1. CASE h = 0 BY <2>1
  <2>2. CASE h # 0
    <3>1. h - 1 \in Nat /\ a <= h - 1 BY <2>2
    <3> QED BY <3>1, ProductOrder
  <2> QED BY <2>1, <2>2
<1>3. (h - 1) * a = a * (h - 1) OBVIOUS
<1>4. a * b \in Nat /\ a * (h - 1) \in Int /\ (h - 1) * (h - 1) \in Int OBVIOUS
<1> QED BY <1>1, <1>2, <1>3, <1>4

\* gp_uint128_long_mul64: no carry of the sum of four products is lost.
LEMMA LongMulAgrees ==
  ASSUME NEW v \in 0 .. Base - 1, NEW w \in 0 .. Base - 1
  PROVE  gp_uint128_long_mul64(v, w) = Stored(v * w)
<1>1. Base \in Nat \ {0} /\ Half \in Nat \ {0} /\ Base = Half * Half BY Bases
<1> HIDE DEF Base, Half
<1>2. v \in Nat /\ w \in Nat BY <1>1
<1>3. CASE (v | w) < Half
  <2>1. (v & w) \in Nat /\ (v & w) <= v /\ (v & w) <= w /\ (v | w) = v + w - (v & w)
    BY <1>2, AndNumber, AndAtMost DEF |
  <2>2. v \in 0 .. Half - 1 /\ w \in 0 .. Half - 1 BY <1>1, <1>2, <1>3, <2>1
  <2>3. v * w \in Nat /\ v * w <= (Half - 1) * (Half - 1) BY <1>1, <2>2, SmallProduct
  <2>4. (Half - 1) * (Half - 1) < Base BY <1>1
  <2>5. (Half - 1) * (Half - 1) \in Int BY <1>1
  <2>6. v * w \in 0 .. Base - 1 BY <1>1, <2>3, <2>4, <2>5
  <2> DEFINE u == v * w
  <2> HIDE DEF u
  <2>7. u \in 0 .. Base - 1 BY <2>6 DEF u
  <2>8. u \div Base = 0 BY <1>1, <2>7
  <2>9. Stored(0 * Base + u) = gp_uint128(0 + 0, u)
    <3>1. 0 \in Int /\ u \in Int BY <2>7
    <3> QED BY <2>8, <3>1, StoredSum
  <2>10. 0 * Base + u = u /\ 0 + 0 = 0 BY <1>1, <2>7
  <2> QED BY <1>3, <2>9, <2>10 DEF gp_uint128_long_mul64, u
<1>4. CASE ~ ((v | w) < Half)
  <2> DEFINE ah == v \div Half
             al == v % Half
             bh == w \div Half
             bl == w % Half
             x1 == (ah * bl) \div Half
             x0 == (ah * bl) % Half
             y1 == (al * bh) \div Half
             y0 == (al * bh) % Half
             z1 == (al * bl) \div Half
             z0 == (al * bl) % Half
             c == (x0 + y0 + z1) \div Half
             r == (x0 + y0 + z1) % Half
  <2>1. gp_uint128_long_mul64(v, w) =
          gp_uint128(ah * bh + x1 + y1 + c, (ah * bl) * Half + (al * bh) * Half + al * bl)
    BY <1>4 DEF gp_uint128_long_mul64
  <2>2. /\ ah \in Int /\ al \in 0 .. Half - 1 /\ v = ah * Half + al
        /\ bh \in Int /\ bl \in 0 .. Half - 1 /\ w = bh * Half + bl BY <1>1, <1>2, Division
  <2> HIDE DEF ah, al, bh, bl
  <2>3. ah * bl \in Int /\ al * bh \in Int /\ al * bl \in Int /\ ah * bh \in Int BY <2>2
  <2> DEFINE ahbl == ah * bl
             albh == al * bh
             albl == al * bl
             ahbh == ah * bh
  <2>4. /\ x1 \in Int /\ x0 \in 0 .. Half - 1 /\ ahbl = x1 * Half + x0
        /\ y1 \in Int /\ y0 \in 0 .. Half - 1 /\ albh = y1 * Half + y0
        /\ z1 \in Int /\ z0 \in 0 .. Half - 1 /\ albl = z1 * Half + z0
    BY <1>1, <2>3, Division
  <2>5. v * w = ahbh * Base + (albh * Half + ahbl * Half + albl)
    BY <1>1, <2>2, ProductOfParts
  <2>6. ahbl \in Int /\ albh \in Int /\ albl \in Int /\ ahbh \in Int BY <2>3
  <2>7. gp_uint128_long_mul64(v, w) = gp_uint128(ahbh + x1 + y1 + c, ahbl * Half + albh * Half + albl) BY <2>1
  <2> HIDE DEF x1, x0, y1, y0, z1, z0, ahbl, albh, albl, ahbh
  <2>8. x0 + y0 + z1 \in Int BY <2>4
  <2>9. c \in Int /\ r \in 0 .. Half - 1 /\ x0 + y0 + z1 = c * Half + r BY <1>1, <2>8, Division
  <2> HIDE DEF c, r
  <2>10. r * Half + z0 \in 0 .. Base - 1
    <3>1. r * Half <= (Half - 1) * Half /\ r * Half \in Nat
      <4>1. r \in Nat /\ r <= Half - 1 BY <1>1, <2>9
      <4>2. Half * r <= Half * (Half - 1) BY <1>1, <4>1, ProductOrder
      <4>3. Half * r = r * Half /\ Half * (Half - 1) = (Half - 1) * Half BY <1>1, <4>1
      <4> QED BY <1>1, <4>1, <4>2, <4>3
    <3>2. (Half - 1) * Half = Base - Half BY <1>1
    <3> QED BY <1>1, <2>4, <3>1, <3>2
  <2> DEFINE l == ahbl * Half + albh * Half + albl
             k == x1 + y1 + c
  <2>11. l = k * Base + (r * Half + z0)
    <3>1. ahbl * Half + albh * Half = (x1 + y1) * (Half * Half) + (x0 + y0) * Half
      BY <1>1, <2>4
    <3>2. l = (x1 + y1) * (Half * Half) + (x0 + y0 + z1) * Half + z0
      <4>1. (x0 + y0 + z1) * Half = (x0 + y0) * Half + z1 * Half BY <1>1, <2>4
      <4> QED BY <1>1, <2>4, <2>6, <3>1, <4>1
    <3>3. (x0 + y0 + z1) * Half = c * (Half * Half) + r * Half BY <1>1, <2>9
    <3>4. k * (Half * Half) = (x1 + y1) * (Half * Half) + c * (Half * Half) BY <1>1, <2>4, <2>9
    <3> QED BY <1>1, <2>4, <2>9, <3>2, <3>3, <3>4
  <2>12. k \in Int /\ l \in Int BY <1>1, <2>4, <2>6, <2>9
  <2>13. l \div Base = k
    <3> DEFINE e == r * Half + z0
    <3>1. e \in 0 .. Base - 1 /\ l = k * Base + e BY <2>10, <2>11
    <3> HIDE DEF e, k, l
    <3>2. (k * Base + e) \div Base = k BY <1>1, <2>12, <3>1, Quotients
    <3> QED BY <3>1, <3>2
  <2>14. albh * Half + ahbl * Half + albl = l BY <1>1, <2>6
  <2>15. ahbh + x1 + y1 + c = ahbh + k BY <2>4, <2>6, <2>9
  <2> HIDE DEF k, l
  <2>16. Stored(ahbh * Base + l) = gp_uint128(ahbh + k, l) BY <2>6, <2>12, <2>13, StoredSum
  <2>17. v * w = ahbh * Base + l BY <2>5, <2>14
  <2> QED BY <2>7, <2>15, <2>16, <2>17 DEF l
<1> QED BY <1>3, <1>4

\* gp_uint128_mul: the product of the high words is beyond the type, the others are added to the high word.
LEMMA MulAgrees ==
  ASSUME NEW a \in TwoWords, NEW b \in TwoWords
  PROVE  gp_uint128_mul(a, b) = Stored(Value(a) * Value(b))
<1>1. Base \in Nat \ {0} BY Bases
<1> DEFINE h == Hi(a)
           l == Lo(a)
           g == Hi(b)
           m == Lo(b)
           lm == Stored(l * m)
<1>2. /\ h \in 0 .. Base - 1 /\ l \in 0 .. Base - 1 /\ Value(a) = h * Base + l
      /\ g \in 0 .. Base - 1 /\ m \in 0 .. Base - 1 /\ Value(b) = g * Base + m BY Parts
<1>3. gp_uint128_long_mul64(l, m) = lm BY <1>2, LongMulAgrees
<1>4. gp_uint128_mul(a, b) = gp_uint128(Hi(lm) + h * m + l * g, Lo(lm))
  BY <1>3 DEF gp_uint128_mul
<1> HIDE DEF Base, h, l, g, m
<1>5. l * m \in Int BY <1>2
<1>6. lm \in TwoWords /\ \E k \in Int : Value(lm) = l * m + k * Size BY <1>5, ValueStored
<1>7. PICK k \in Int : Value(lm) = l * m + k * Size BY <1>6
<1>8. Hi(lm) \in 0 .. Base - 1 /\ Lo(lm) \in 0 .. Base - 1 /\ Value(lm) = Hi(lm) * Base + Lo(lm)
  BY <1>6, Parts
<1> DEFINE yh == Hi(lm)
           yl == Lo(lm)
           d == yh + h * m + l * g
<1> HIDE DEF lm, yh, yl
<1>9. yh \in 0 .. Base - 1 /\ yl \in 0 .. Base - 1 /\ yh * Base + yl = l * m + k * Size
  BY <1>7, <1>8 DEF yh, yl
<1>10. Size = Base * Base BY DEF Size
<1>11. d \in Int /\ d * Base = yh * Base + (h * m) * Base + (l * g) * Base BY <1>1, <1>2, <1>9
<1>12. Value(a) * Value(b) = (h * g) * Size + ((l * g) * Base + (h * m) * Base + l * m)
  BY <1>1, <1>2, <1>10, ProductOfParts
<1>13. Value(a) * Value(b) = (d * Base + yl) + (h * g - k) * Size
  <2> DEFINE p1 == (h * m) * Base
             p2 == (l * g) * Base
             p3 == l * m
             p4 == (h * g) * Size
             p5 == k * Size
             p6 == yh * Base
             p7 == d * Base
  <2>1. p1 \in Int /\ p2 \in Int /\ p3 \in Int /\ p4 \in Int /\ p5 \in Int /\ p6 \in Int /\ p7 \in Int
    BY <1>1, <1>2, <1>9, <1>10, <1>11
  <2>2. (h * g - k) * Size = p4 - p5 BY <1>1, <1>2, <1>10
  <2>3. p6 + yl = p3 + p5 BY <1>9
  <2>4. p7 = p6 + p1 + p2 BY <1>11
  <2>5. Value(a) * Value(b) = p4 + (p2 + p1 + p3) BY <1>12
  <2>6. yl \in Int BY <1>9
  <2>7. p4 + (p2 + p1 + p3) = (p7 + yl) + (p4 - p5)
    <3> HIDE DEF p1, p2, p3, p4, p5, p6, p7
    <3> QED BY <2>1, <2>3, <2>4, <2>6
  <2> HIDE DEF d, Size
  <2> QED BY <2>2, <2>5, <2>7
<1>14. h * g - k \in Int /\ d * Base + yl \in Int BY <1>1, <1>2, <1>9, <1>11
<1> HIDE DEF d
<1>15. Stored((d * Base + yl) + (h * g - k) * Size) = Stored(d * Base + yl)
  BY <1>14, StoredModulo
<1>16. Stored(d * Base + yl) = gp_uint128(d + 0, yl)
  <2>1. yl \div Base = 0 /\ yl \in Int /\ 0 \in Int BY <1>1, <1>9
  <2> QED BY <1>11, <2>1, StoredSum
<1>17. d + 0 = d BY <1>11
<1>18. gp_uint128_mul(a, b) = gp_uint128(d, yl) BY <1>4 DEF d, yh, yl
<1> QED BY <1>13, <1>15, <1>16, <1>17, <1>18

\* gp_int128_mul64 multiplies signed words.
LEMMA Mul64Agrees ==
  ASSUME NEW v \in 0 .. Base - 1, NEW w \in 0 .. Base - 1
  PROVE  gp_int128_mul64(v, w) = Stored(Signed(v) * Signed(w))
<1> DEFINE s == Signed(v)
           t == Signed(w)
<1>1. s \in Int /\ t \in Int BY SignedWord, Bases
<1>2. gp_uint128_i64(v) = Stored(s) /\ gp_uint128_i64(w) = Stored(t) BY I64Agrees
<1> HIDE DEF s, t
<1>3. Stored(s) \in TwoWords /\ Stored(t) \in TwoWords BY <1>1, ValueStored
<1>4. gp_int128_mul64(v, w) = Stored(Value(Stored(s)) * Value(Stored(t)))
  BY <1>2, <1>3, MulAgrees DEF gp_int128_mul64
<1> DEFINE x1 == Value(Stored(t))
<1>5. x1 \in Int
  <2>1. \E k \in Int : x1 = t + k * Size BY <1>1, ValueStored
  <2>2. Size \in Int BY Bases DEF Size
  <2> HIDE DEF x1
  <2> QED BY <1>1, <2>1, <2>2
<1>6. Stored(Value(Stored(s)) * x1) = Stored(s * x1)
  <2> HIDE DEF x1
  <2> QED BY <1>1, <1>5, StoredAgain
<1>7. s * x1 = x1 * s
  <2> HIDE DEF x1
  <2> QED BY <1>1, <1>5
<1>8. Stored(x1 * s) = Stored(t * s) BY <1>1, StoredAgain
<1>9. t * s = s * t BY <1>1
<1> QED BY <1>4, <1>6, <1>7, <1>8, <1>9 DEF s, t

\* The two factors that a word is cut by
LEMMA Factors ==
  ASSUME NEW n \in 0 .. WordBits
  PROVE  /\ PowerOfTwo[n] \in Nat \ {0} /\ PowerOfTwo[WordBits - n] \in Nat \ {0}
         /\ PowerOfTwo[n] * PowerOfTwo[WordBits - n] = Base
<1>1. n \in Nat /\ WordBits - n \in Nat /\ n + (WordBits - n) = WordBits BY WordBitsAssumption
<1> QED BY <1>1, Positive, PowerOfSum DEF Base

\* A word shifted to the left keeps its low part, as a multiple of the power.
LEMMA LeftPart ==
  ASSUME NEW p \in Nat \ {0}, NEW q \in Nat \ {0}, p * q = Base, NEW h \in Int
  PROVE  (h * p) % Base = (h % q) * p
<1>1. Base \in Nat \ {0} BY Bases
<1> DEFINE d == h \div q
           e == h % q
<1>2. d \in Int /\ e \in 0 .. q - 1 /\ h = d * q + e BY Division
<1> HIDE DEF Base, d, e
<1>3. h * p = d * Base + e * p
  <2>1. (d * q + e) * p = d * (p * q) + e * p BY <1>2
  <2> QED BY <1>2, <2>1
<1>4. e * p \in 0 .. Base - 1
  <2>1. p * e <= p * (q - 1) BY <1>2, ProductOrder
  <2>2. p * (q - 1) = p * q - p /\ p * e = e * p /\ e * p \in Nat BY <1>2
  <2> QED BY <1>1, <2>1, <2>2
<1> DEFINE f == e * p
<1>5. f \in 0 .. Base - 1 /\ h * p = d * Base + f BY <1>3, <1>4
<1> HIDE DEF f
<1>6. (d * Base + f) % Base = f BY <1>1, <1>2, <1>5, Quotients
<1> QED BY <1>5, <1>6 DEF f, e

\* A number of two parts divided by a power
LEMMA ShiftedDown ==
  ASSUME NEW p \in Nat \ {0}, NEW q \in Nat \ {0}, p * q = Base,
         NEW s \in Int, NEW l \in 0 .. Base - 1
  PROVE  /\ l \div p \in 0 .. q - 1
         /\ s % p \in 0 .. p - 1 /\ s \div p \in Int
         /\ (s % p) * q + l \div p \in 0 .. Base - 1
         /\ (s * Base + l) \div p = (s \div p) * Base + ((s % p) * q + l \div p)
<1>1. Base \in Nat \ {0} BY Bases
<1> DEFINE d == s \div p
           e == s % p
           t == l \div p
           u == l % p
<1> HIDE DEF Base
<1>2. d \in Int /\ e \in 0 .. p - 1 /\ s = d * p + e BY Division
<1>3. t \in Int /\ u \in 0 .. p - 1 /\ l = t * p + u
  <2>1. l \in Int BY <1>1
  <2> QED BY <2>1, Division
<1> HIDE DEF d, e, t, u
<1>4. t \in 0 .. q - 1
  <2>1. t < 0 => t * p <= - p BY <1>3
  <2>2. t >= q => t * p >= p * q BY <1>3
  <2> QED BY <1>1, <1>3, <2>1, <2>2
<1>5. e * q + t \in 0 .. Base - 1
  <2>1. q * e <= q * (p - 1) BY <1>2, ProductOrder
  <2>2. q * (p - 1) = p * q - q /\ q * e = e * q /\ e * q \in Nat BY <1>2
  <2> QED BY <1>1, <1>4, <2>1, <2>2
<1> DEFINE r == d * Base + (e * q + t)
<1>6. r \in Int BY <1>1, <1>2, <1>3
<1>7. s * Base + l = r * p + u
  <2>1. (d * p + e) * Base = (d * Base) * p + (e * q) * p
    <3>1. (d * p + e) * (p * q) = (d * (p * q)) * p + (e * q) * p BY <1>2
    <3> QED BY <3>1
  <2>2. r * p = (d * Base) * p + (e * q) * p + t * p BY <1>1, <1>2, <1>3
  <2>3. (d * Base) * p \in Int /\ (e * q) * p \in Int /\ t * p \in Int BY <1>1, <1>2, <1>3
  <2> HIDE DEF r
  <2> QED BY <1>2, <1>3, <2>1, <2>2, <2>3
<1>8. (s * Base + l) \div p = r
  <2> HIDE DEF r
  <2>1. (r * p + u) \div p = r BY <1>3, <1>6, Quotients
  <2> QED BY <1>7, <2>1
<1> QED BY <1>2, <1>4, <1>5, <1>8 DEF d, e, t

\* How far a count of bits shifts a word
LEMMA Counts ==
  /\ \A n \in 0 .. WordBits - 1 : n % WordBits = n
  /\ \A n \in WordBits .. 2 * WordBits - 1 : n - WordBits \in 0 .. WordBits - 1
  /\ WordBits \in Nat \ {0}
BY WordBitsAssumption

\* gp_uint128_shift_left multiplies by a power of two, in each of its three cases.
LEMMA ShiftLeftAgrees ==
  ASSUME NEW a \in TwoWords, NEW n \in 0 .. 2 * WordBits - 1
  PROVE  gp_uint128_shift_left(a, n) = Stored(Value(a) * PowerOfTwo[n])
<1>1. Base \in Nat \ {0} /\ WordBits \in Nat \ {0} BY Bases, Counts
<1> DEFINE h == Hi(a)
           l == Lo(a)
<1>2. h \in 0 .. Base - 1 /\ l \in 0 .. Base - 1 /\ Value(a) = h * Base + l BY Parts
<1>3. CASE n = 0
  <2>1. PowerOfTwo[n] = 1 BY <1>3, PowersOfTwo
  <2>2. Value(a) * 1 = Value(a) BY <1>1, <1>2
  <2>3. Stored(Value(a)) = a BY StoredValue
  <2> QED BY <1>3, <2>1, <2>2, <2>3 DEF gp_uint128_shift_left
<1>4. CASE n >= WordBits
  <2> DEFINE m == n - WordBits
             p == PowerOfTwo[m]
  <2>1. m \in 0 .. WordBits - 1 /\ m \in Nat /\ m % WordBits = m BY <1>4, Counts
  <2>2. p \in Nat \ {0} BY <2>1, Positive
  <2>3. PowerOfTwo[n] = p * Base
    <3>1. m + WordBits = n BY <1>1
    <3> QED BY <1>1, <2>1, <3>1, PowerOfSum DEF Base
  <2>4. gp_uint128_shift_left(a, n) = gp_uint128((l * p) % Base, 0)
    BY <1>1, <1>4, <2>1 DEF gp_uint128_shift_left, Left
  <2> HIDE DEF Base, p, m, h, l
  <2>5. Value(a) * PowerOfTwo[n] = ((l * p) * Base + 0) + (h * p) * Size
    BY <1>1, <1>2, <2>2, <2>3 DEF Size
  <2>6. l * p \in Int /\ h * p \in Int /\ (l * p) * Base + 0 \in Int BY <1>1, <1>2, <2>2
  <2>7. Stored(((l * p) * Base + 0) + (h * p) * Size) = Stored((l * p) * Base + 0)
    BY <2>6, StoredModulo
  <2>8. Stored((l * p) * Base + 0) = gp_uint128(l * p + 0, 0)
    <3>1. 0 \div Base = 0 /\ 0 \in Int BY <1>1
    <3> QED BY <2>6, <3>1, StoredSum
  <2>9. gp_uint128(l * p + 0, 0) = gp_uint128((l * p) % Base, 0)
    <3> DEFINE f == l * p
    <3>1. f + 0 = f /\ (f % Base) % Base = f % Base BY <1>1, <2>6
    <3> QED BY <3>1 DEF gp_uint128
  <2> QED BY <2>4, <2>5, <2>7, <2>8, <2>9
<1>5. CASE n # 0 /\ ~ (n >= WordBits)
  <2> DEFINE p == PowerOfTwo[n]
             q == PowerOfTwo[WordBits - n]
  <2>1. n \in 0 .. WordBits /\ n \in Nat /\ n % WordBits = n /\ (WordBits - n) % WordBits = WordBits - n
    BY <1>1, <1>5, Counts
  <2>2. p \in Nat \ {0} /\ q \in Nat \ {0} /\ p * q = Base /\ q * p = Base BY <2>1, Factors
  <2> DEFINE hp == (h * p) % Base
             k == l \div q
             lp == (l * p) % Base
  <2>3. gp_uint128_shift_left(a, n) = gp_uint128(hp | k, lp)
    BY <1>1, <1>5, <2>1 DEF gp_uint128_shift_left, Left, Right
  <2>4. hp = (h % q) * p
    <3>1. h \in Int BY <1>2
    <3> HIDE DEF p, q, h
    <3> QED BY <2>2, <3>1, LeftPart
  <2>5. k \in 0 .. p - 1 /\ (l * p) \div Base = k
    <3>1. l \in Int BY <1>1, <1>2
    <3>2. k \in 0 .. p - 1 BY <1>2, <2>2, <3>1, ShiftedDown
    <3> DEFINE e == l % q
    <3>3. e \in 0 .. q - 1 /\ l = k * q + e BY <2>2, <3>1, Division
    <3> HIDE DEF Base, k, e, p, q
    <3>4. l * p = k * Base + e * p
      <4>1. (k * q + e) * p = k * (p * q) + e * p BY <2>2, <3>2, <3>3
      <4> QED BY <2>2, <3>3, <4>1
    <3>5. e * p \in 0 .. Base - 1
      <4>1. e \in 0 .. q - 1 BY <3>3
      <4>2. p * e <= p * (q - 1) BY <2>2, <4>1, ProductOrder
      <4>3. p * (q - 1) = p * q - p /\ p * e = e * p /\ e * p \in Nat BY <2>2, <4>1
      <4> QED BY <1>1, <2>2, <4>2, <4>3
    <3> DEFINE f == e * p
    <3>6. f \in 0 .. Base - 1 /\ l * p = k * Base + f BY <3>4, <3>5
    <3> HIDE DEF f
    <3>7. k \in Int BY <3>2
    <3>8. (k * Base + f) \div Base = k BY <1>1, <3>6, <3>7, Quotients
    <3> QED BY <3>2, <3>6, <3>8
  <2>6. (hp | k) = hp + k
    <3>1. h % q \in Nat /\ k \in Nat /\ k < PowerOfTwo[n]
      <4>1. h % q \in 0 .. q - 1
        <5>1. h \in Int BY <1>2
        <5> QED BY <2>2, <5>1, Division
      <4> QED BY <2>2, <2>5, <4>1
    <3> HIDE DEF k
    <3> QED BY <2>1, <2>4, <3>1, OrShifted
  <2>7. h * p \in Int /\ l * p \in Int /\ k \in Int BY <1>2, <2>2, <2>5
  <2>8. Value(a) * p = (h * p) * Base + l * p
    <3> HIDE DEF Base, h, l, p
    <3> QED BY <1>1, <1>2, <2>2
  <2> DEFINE x1 == h * p
             x0 == l * p
  <2>9. Stored(x1 * Base + x0) = gp_uint128(x1 + k, x0)
    <3>1. x1 \in Int /\ x0 \in Int /\ k \in Int /\ x0 \div Base = k BY <2>5, <2>7
    <3> HIDE DEF x1, x0, k
    <3> QED BY <3>1, StoredSum
  <2>10. gp_uint128(x1 + k, x0) = gp_uint128(hp + k, lp)
    <3> DEFINE i == x1 \div Base
               j == x0 \div Base
    <3>1. /\ i \in Int /\ hp \in Int /\ x1 = i * Base + hp
          /\ j \in Int /\ lp \in Int /\ x0 = j * Base + lp
      <4>1. x1 \in Int /\ x0 \in Int BY <2>7
      <4>2. hp = x1 % Base /\ lp = x0 % Base OBVIOUS
      <4> HIDE DEF x1, x0, hp, lp, Base
      <4> QED BY <1>1, <4>1, <4>2, Division
    <3> HIDE DEF i, j, x1, x0, hp, lp, k, Base
    <3>2. gp_uint128((hp + k) + i * Base, lp + j * Base) = gp_uint128(hp + k, lp)
      <4>1. hp + k \in Int BY <3>1, <2>7
      <4> QED BY <3>1, <4>1, WordsModulo
    <3>3. (hp + k) + i * Base = x1 + k /\ lp + j * Base = x0 BY <1>1, <3>1, <2>7
    <3> QED BY <3>2, <3>3
  <2> QED BY <2>3, <2>6, <2>8, <2>9, <2>10
<1> QED BY <1>3, <1>4, <1>5

\* A number of two parts divided by more than a word
LEMMA HighDown ==
  ASSUME NEW p \in Nat \ {0}, NEW s \in Int, NEW l \in 0 .. Base - 1
  PROVE  (s * Base + l) \div (p * Base) = s \div p
<1>1. Base \in Nat \ {0} BY Bases
<1> DEFINE d == s \div p
           e == s % p
           q == p * Base
           f == e * Base + l
<1> HIDE DEF Base
<1>2. d \in Int /\ e \in 0 .. p - 1 /\ s = d * p + e BY Division
<1> HIDE DEF d, e
<1>3. q \in Nat \ {0} BY <1>1
<1>4. f \in 0 .. q - 1
  <2>1. Base * e <= Base * (p - 1) BY <1>1, <1>2, ProductOrder
  <2>2. Base * (p - 1) = p * Base - Base /\ Base * e = e * Base /\ e * Base \in Nat
    BY <1>1, <1>2
  <2> QED BY <1>1, <2>1, <2>2
<1>5. s * Base + l = d * q + f
  <2>1. (d * p + e) * Base = d * (p * Base) + e * Base BY <1>1, <1>2
  <2>2. d * (p * Base) \in Int /\ e * Base \in Int BY <1>1, <1>2
  <2> QED BY <1>1, <1>2, <2>1, <2>2
<1> HIDE DEF q, f
<1>6. (d * q + f) \div q = d BY <1>2, <1>3, <1>4, Quotients
<1> QED BY <1>5, <1>6 DEF q, d

\* What fits a word is stored in the low one.
LEMMA StoredLow ==
  ASSUME NEW w \in 0 .. Base - 1
  PROVE  Stored(w) = gp_uint128(0, w)
<1>1. Base \in Nat \ {0} BY Bases
<1> HIDE DEF Base
<1>2. w \div Base = 0 /\ 0 * Base + w = w /\ 0 + 0 = 0 /\ w \in Int /\ 0 \in Int BY <1>1
<1>3. Stored(0 * Base + w) = gp_uint128(0 + 0, w) BY <1>2, StoredSum
<1> QED BY <1>2, <1>3

\* gp_uint128_shift_right divides by a power of two, in each of its three cases.
LEMMA ShiftRightAgrees ==
  ASSUME NEW a \in TwoWords, NEW n \in 0 .. 2 * WordBits - 1
  PROVE  gp_uint128_shift_right(a, n) = Stored(Value(a) \div PowerOfTwo[n])
<1>1. Base \in Nat \ {0} /\ WordBits \in Nat \ {0} BY Bases, Counts
<1> DEFINE h == Hi(a)
           l == Lo(a)
<1>2. h \in 0 .. Base - 1 /\ l \in 0 .. Base - 1 /\ Value(a) = h * Base + l BY Parts
<1>3. CASE n = 0
  <2>1. PowerOfTwo[n] = 1 BY <1>3, PowersOfTwo
  <2>2. Value(a) \div 1 = Value(a)
    <3>1. Value(a) \in Int BY <1>1, <1>2
    <3> QED BY <3>1
  <2>3. Stored(Value(a)) = a BY StoredValue
  <2> QED BY <1>3, <2>1, <2>2, <2>3 DEF gp_uint128_shift_right
<1>4. CASE n >= WordBits
  <2> DEFINE m == n - WordBits
             p == PowerOfTwo[m]
  <2>1. m \in 0 .. WordBits - 1 /\ m \in Nat /\ m % WordBits = m BY <1>4, Counts
  <2>2. p \in Nat \ {0} BY <2>1, Positive
  <2>3. PowerOfTwo[n] = p * Base
    <3>1. m + WordBits = n BY <1>1
    <3> QED BY <1>1, <2>1, <3>1, PowerOfSum DEF Base
  <2>4. gp_uint128_shift_right(a, n) = gp_uint128(0, h \div p)
    BY <1>1, <1>4, <2>1 DEF gp_uint128_shift_right, Right
  <2> HIDE DEF Base, p, m, h, l
  <2>5. Value(a) \div PowerOfTwo[n] = h \div p
    <3>1. h \in Int BY <1>2
    <3>2. (h * Base + l) \div (p * Base) = h \div p BY <1>2, <2>2, <3>1, HighDown
    <3> QED BY <1>2, <2>3, <3>2
  <2>6. h \div p \in 0 .. Base - 1
    <3> DEFINE d == h \div p
               e == h % p
    <3>1. d \in Int /\ e \in 0 .. p - 1 /\ h = d * p + e
      <4>1. h \in Int BY <1>2
      <4> QED BY <2>2, <4>1, Division
    <3> HIDE DEF d, e
    <3>2. d < 0 => d * p <= - p BY <2>2, <3>1
    <3>3. d >= 0 => d <= d * p BY <2>2, <3>1
    <3>4. d * p \in Int BY <2>2, <3>1
    <3>5. d \in 0 .. Base - 1 BY <1>1, <1>2, <2>2, <3>1, <3>2, <3>3, <3>4
    <3> QED BY <3>5 DEF d
  <2> QED BY <2>4, <2>5, <2>6, StoredLow
<1>5. CASE n # 0 /\ ~ (n >= WordBits)
  <2> DEFINE p == PowerOfTwo[n]
             q == PowerOfTwo[WordBits - n]
  <2>1. n \in 0 .. WordBits /\ n \in Nat /\ WordBits - n \in Nat /\ n % WordBits = n
        /\ (WordBits - n) % WordBits = WordBits - n
    BY <1>1, <1>5, Counts
  <2>2. p \in Nat \ {0} /\ q \in Nat \ {0} /\ p * q = Base /\ q * p = Base BY <2>1, Factors
  <2> DEFINE x1 == h \div p
             x0 == (h % p) * q
             k == l \div p
  <2>3. gp_uint128_shift_right(a, n) = gp_uint128(x1, k | ((h * q) % Base))
    BY <1>1, <1>5, <2>1 DEF gp_uint128_shift_right, Left, Right
  <2>4. h \in Int BY <1>2
  <2>5. (h * q) % Base = x0
    <3> HIDE DEF p, q, h
    <3> QED BY <2>2, <2>4, LeftPart
  <2>6. /\ k \in 0 .. q - 1 /\ h % p \in 0 .. p - 1 /\ x1 \in Int
        /\ x0 + k \in 0 .. Base - 1
        /\ (h * Base + l) \div p = x1 * Base + (x0 + k)
    <3> HIDE DEF p, q, h, l
    <3> QED BY <1>2, <2>2, <2>4, ShiftedDown
  <2>7. (k | x0) = x0 + k
    <3>1. h % p \in Nat /\ k \in Nat /\ k < PowerOfTwo[WordBits - n] BY <2>2, <2>6
    <3> HIDE DEF k
    <3> QED BY <2>1, <3>1, OrShifted
  <2> DEFINE f == x0 + k
  <2>8. Stored(x1 * Base + f) = gp_uint128(x1 + 0, f)
    <3>1. f \in 0 .. Base - 1 /\ x1 \in Int BY <2>6
    <3> HIDE DEF f, x1, Base
    <3>2. f \div Base = 0 /\ f \in Int /\ 0 \in Int BY <1>1, <3>1
    <3> QED BY <3>1, <3>2, StoredSum
  <2>9. x1 + 0 = x1 BY <2>6
  <2> QED BY <1>2, <2>3, <2>5, <2>6, <2>7, <2>8, <2>9
<1> QED BY <1>3, <1>4, <1>5

\* gp_int128_shift_right divides and rounds down, in each of its three cases.
LEMMA SignedShiftAgrees ==
  ASSUME NEW a \in TwoWords, NEW n \in 0 .. 2 * WordBits - 1
  PROVE  gp_int128_shift_right(a, n) = Stored(SignedValue(a) \div PowerOfTwo[n])
<1>1. Base \in Nat \ {0} /\ WordBits \in Nat \ {0} BY Bases, Counts
<1> DEFINE h == Hi(a)
           l == Lo(a)
           s == Signed(h)
<1>2. h \in 0 .. Base - 1 /\ l \in 0 .. Base - 1 /\ Value(a) = h * Base + l BY Parts
<1>3. SignedValue(a) = s * Base + l /\ s \in Int BY SignedParts
<1>4. s \in - (Base \div 2) .. Base \div 2 - 1 /\ (s = h \/ s = h - Base)
  BY <1>2, SignedWord
<1>5. CASE n = 0
  <2>1. PowerOfTwo[n] = 1 BY <1>5, PowersOfTwo
  <2>2. SignedValue(a) \in Int BY <1>1, <1>2, <1>3
  <2>3. SignedValue(a) \div 1 = SignedValue(a) BY <2>2
  <2>4. Stored(SignedValue(a)) = Stored(Value(a))
    <3>1. Size \in Int /\ Value(a) \in Int BY <1>1, <1>2 DEF Size
    <3>2. SignedValue(a) = Value(a) + 0 * Size \/ SignedValue(a) = Value(a) + (-1) * Size
      BY <3>1, SignedParts
    <3>3. Stored(Value(a) + 0 * Size) = Stored(Value(a)) /\ Stored(Value(a) + (-1) * Size) = Stored(Value(a))
      BY <3>1, StoredModulo
    <3> QED BY <3>2, <3>3
  <2>5. Stored(Value(a)) = a BY StoredValue
  <2> QED BY <1>5, <2>1, <2>3, <2>4, <2>5 DEF gp_int128_shift_right
<1>6. CASE n >= WordBits
  <2> DEFINE m == n - WordBits
             p == PowerOfTwo[m]
             t == PowerOfTwo[WordBits - 1]
             u == s \div p
  <2>1. /\ m \in 0 .. WordBits - 1 /\ m \in Nat /\ m % WordBits = m
        /\ WordBits - 1 \in Nat /\ (WordBits - 1) % WordBits = WordBits - 1
    BY <1>1, <1>6, Counts
  <2>2. p \in Nat \ {0} /\ t \in Nat \ {0} /\ Base = 2 * t
    <3>1. (WordBits - 1) + 1 = WordBits BY <1>1
    <3>2. Base = 2 * PowerOfTwo[WordBits - 1] BY <2>1, <3>1, PowersOfTwo DEF Base
    <3> QED BY <2>1, <3>2, Positive
  <2>3. PowerOfTwo[n] = p * Base
    <3>1. m + WordBits = n BY <1>1
    <3> QED BY <1>1, <2>1, <3>1, PowerOfSum DEF Base
  <2>4. gp_int128_shift_right(a, n) = gp_uint128(s \div t, u)
    BY <1>1, <1>6, <2>1 DEF gp_int128_shift_right, SignedRight
  <2> HIDE DEF Base, p, m, h, l, s, t
  <2>5. SignedValue(a) \div PowerOfTwo[n] = u
    <3>1. (s * Base + l) \div (p * Base) = s \div p BY <1>2, <1>3, <2>2, HighDown
    <3> QED BY <1>3, <2>3, <3>1
  <2>6. s \in - t .. t - 1 BY <1>4, <2>2
  <2>7. u \in Int /\ u \in - t .. t - 1 /\ (u < 0 <=> s < 0)
    <3> DEFINE e == s % p
    <3>1. u \in Int /\ e \in 0 .. p - 1 /\ s = u * p + e BY <1>3, <2>2, Division
    <3> HIDE DEF u, e
    <3>2. u < 0 => u * p <= u /\ u * p <= - p BY <2>2, <3>1
    <3>3. u >= 0 => u <= u * p BY <2>2, <3>1
    <3>4. u * p \in Int BY <2>2, <3>1
    <3>5. u < 0 => s < 0 BY <2>2, <3>1, <3>2, <3>4
    <3>6. u >= 0 => s >= 0 BY <2>2, <3>1, <3>3, <3>4
    <3>7. u >= 0 => u <= t - 1 BY <2>2, <2>6, <3>1, <3>3, <3>4
    <3>8. u < 0 => u >= - t
      <4>1. u + 1 <= 0 => (u + 1) * p <= u + 1 BY <2>2, <3>1
      <4>2. (u + 1) * p = u * p + p BY <2>2, <3>1
      <4> QED BY <2>2, <2>6, <3>1, <3>4, <4>1, <4>2
    <3> QED BY <2>2, <3>1, <3>5, <3>6, <3>7, <3>8
  <2> DEFINE k == s \div t
  <2>8. k \in Int /\ u \div Base = k
    <3>1. CASE s < 0
      <4>1. s = (-1) * t + (s + t) /\ s + t \in 0 .. t - 1 BY <2>2, <2>6, <3>1
      <4>2. s \div t = -1
        <5> DEFINE f == s + t
        <5>1. f \in 0 .. t - 1 /\ s = (-1) * t + f BY <4>1
        <5> HIDE DEF f
        <5>2. ((-1) * t + f) \div t = -1 BY <2>2, <5>1, Quotients
        <5> QED BY <5>1, <5>2
      <4> HIDE DEF u
      <4>3. u \div Base = -1
        <5> DEFINE f == u + Base
        <5>1. f \in 0 .. Base - 1 /\ u = (-1) * Base + f BY <2>2, <2>7, <3>1
        <5> HIDE DEF f
        <5>2. ((-1) * Base + f) \div Base = -1 BY <1>1, <5>1, Quotients
        <5> QED BY <5>1, <5>2
      <4> QED BY <4>2, <4>3
    <3>2. CASE ~ (s < 0)
      <4>1. s \in 0 .. t - 1 BY <2>2, <2>6, <3>2
      <4>2. s \div t = 0 BY <2>2, <4>1
      <4> HIDE DEF u
      <4>3. u \in 0 .. Base - 1 BY <2>2, <2>7, <3>2
      <4>4. u \div Base = 0 BY <1>1, <4>3
      <4> QED BY <4>2, <4>4
    <3> QED BY <3>1, <3>2
  <2>9. Stored(0 * Base + u) = gp_uint128(0 + k, u)
    <3>1. 0 \in Int /\ u \in Int BY <2>7
    <3> HIDE DEF u, k
    <3> QED BY <2>8, <3>1, StoredSum
  <2>10. 0 * Base + u = u /\ 0 + k = k
    <3> HIDE DEF u, k
    <3> QED BY <1>1, <2>7, <2>8
  <2> QED BY <2>4, <2>5, <2>9, <2>10
<1>7. CASE n # 0 /\ ~ (n >= WordBits)
  <2> DEFINE p == PowerOfTwo[n]
             q == PowerOfTwo[WordBits - n]
  <2>1. n \in 0 .. WordBits /\ n \in Nat /\ WordBits - n \in Nat /\ n % WordBits = n
        /\ (WordBits - n) % WordBits = WordBits - n
    BY <1>1, <1>7, Counts
  <2>2. p \in Nat \ {0} /\ q \in Nat \ {0} /\ p * q = Base /\ q * p = Base BY <2>1, Factors
  <2> DEFINE x1 == s \div p
             x0 == (h % p) * q
             k == l \div p
  <2>3. gp_int128_shift_right(a, n) = gp_uint128(x1, k | ((h * q) % Base))
    BY <1>1, <1>7, <2>1 DEF gp_int128_shift_right, Left, Right, SignedRight
  <2>4. h \in Int BY <1>2
  <2>5. (h * q) % Base = x0
    <3> HIDE DEF p, q, h
    <3> QED BY <2>2, <2>4, LeftPart
  <2>6. s % p = h % p
    <3>1. CASE s = h BY <3>1
    <3>2. CASE s = h - Base
      <4> DEFINE d == h \div p
                 e == h % p
      <4> HIDE DEF p, q, h, s
      <4>1. d \in Int /\ e \in 0 .. p - 1 /\ h = d * p + e BY <2>2, <2>4, Division
      <4> HIDE DEF d, e
      <4>2. s = (d - q) * p + e
        <5>1. (d - q) * p = d * p - p * q BY <2>2, <4>1
        <5>2. d * p \in Int BY <2>2, <4>1
        <5> QED BY <1>1, <2>2, <3>2, <4>1, <5>1, <5>2
      <4>3. d - q \in Int BY <2>2, <4>1
      <4>4. ((d - q) * p + e) % p = e BY <2>2, <4>1, <4>3, Quotients
      <4> QED BY <4>2, <4>4 DEF e
    <3> QED BY <1>4, <3>1, <3>2
  <2>7. /\ k \in 0 .. q - 1 /\ h % p \in 0 .. p - 1 /\ x1 \in Int
        /\ x0 + k \in 0 .. Base - 1
        /\ (s * Base + l) \div p = x1 * Base + (x0 + k)
    <3> HIDE DEF p, q, h, l, s
    <3>1. /\ l \div p \in 0 .. q - 1 /\ s % p \in 0 .. p - 1 /\ s \div p \in Int
          /\ (s % p) * q + l \div p \in 0 .. Base - 1
          /\ (s * Base + l) \div p = (s \div p) * Base + ((s % p) * q + l \div p)
      BY <1>2, <1>3, <2>2, ShiftedDown
    <3> QED BY <2>6, <3>1
  <2>8. (k | x0) = x0 + k
    <3>1. h % p \in Nat /\ k \in Nat /\ k < PowerOfTwo[WordBits - n] BY <2>2, <2>7
    <3> HIDE DEF k
    <3> QED BY <2>1, <3>1, OrShifted
  <2> DEFINE f == x0 + k
  <2>9. Stored(x1 * Base + f) = gp_uint128(x1 + 0, f)
    <3>1. f \in 0 .. Base - 1 /\ x1 \in Int BY <2>7
    <3> HIDE DEF f, x1, Base
    <3>2. f \div Base = 0 /\ f \in Int /\ 0 \in Int BY <1>1, <3>1
    <3> QED BY <3>1, <3>2, StoredSum
  <2>10. x1 + 0 = x1 BY <2>7
  <2> QED BY <1>3, <2>3, <2>5, <2>7, <2>8, <2>9, <2>10
<1> QED BY <1>5, <1>6, <1>7

\* What is in the registers are integers of two words.
IsInteger == x \in TwoWords /\ y \in TwoWords

\* Counting keeps the registers integers of two words.
LEMMA RegistersHoldIntegers == Spec => []IsInteger
<1>1. Init => IsInteger
  <2>1. 0 \in Int OBVIOUS
  <2>2. Zero \in TwoWords BY <2>1, StoredWords DEF Zero
  <2> QED BY <2>2 DEF Init, IsInteger
<1>2. IsInteger /\ [Next]_vars => IsInteger'
  <2>1. ASSUME NEW a \in TwoWords PROVE gp_uint128_add(a, gp_uint128(0, 1)) \in TwoWords
    <3>1. gp_uint128(0, 1) \in TwoWords BY StoredWords
    <3>2. Value(a) \in Int /\ Value(gp_uint128(0, 1)) \in Int
      <4>1. Size \in Int BY Bases DEF Size
      <4> QED BY <3>1, <4>1, Parts
    <3>3. Value(a) + Value(gp_uint128(0, 1)) \in Int BY <3>2
    <3>4. Stored(Value(a) + Value(gp_uint128(0, 1))) \in TwoWords BY <3>3, ValueStored
    <3> QED BY <3>1, <3>4, AddAgrees
  <2>2. SUFFICES ASSUME IsInteger, [Next]_vars PROVE IsInteger' OBVIOUS
  <2>3. CASE CountX BY <2>1, <2>2, <2>3 DEF CountX, Next1, IsInteger
  <2>4. CASE CountY BY <2>1, <2>2, <2>4 DEF CountY, Next2, IsInteger
  <2>5. CASE UNCHANGED vars BY <2>2, <2>5 DEF vars, IsInteger
  <2> QED BY <2>2, <2>3, <2>4, <2>5 DEF Next
<1> QED BY <1>1, <1>2, PTL DEF Spec

\* The arithmetic of two words is that of numbers, for words of any even width.
THEOREM ArithmeticIsExact == Spec => []ArithmeticAgrees
<1>1. IsInteger => ArithmeticAgrees
  <2>1. SUFFICES ASSUME IsInteger PROVE ArithmeticAgrees OBVIOUS
  <2>2. x \in TwoWords /\ y \in TwoWords BY <2>1 DEF IsInteger
  <2>3. Lo(x) \in 0 .. Base - 1 /\ Lo(y) \in 0 .. Base - 1 BY <2>2, Parts
  <2>4. /\ gp_uint128_add(x, y) = Stored(Value(x) + Value(y))
        /\ gp_uint128_sub(x, y) = Stored(Value(x) - Value(y))
        /\ gp_uint128_negate(x) = Stored(- Value(x))
        /\ gp_uint128_mul(x, y) = Stored(Value(x) * Value(y))
    BY <2>2, AddAgrees, SubAgrees, NegateAgrees, MulAgrees
  <2>5. /\ gp_uint128_long_mul64(Lo(x), Lo(y)) = Stored(Lo(x) * Lo(y))
        /\ gp_int128_mul64(Lo(x), Lo(y)) = Stored(Signed(Lo(x)) * Signed(Lo(y)))
        /\ gp_uint128_i64(Lo(x)) = Stored(Signed(Lo(x)))
    BY <2>3, LongMulAgrees, Mul64Agrees, I64Agrees
  <2>6. /\ gp_uint128_not(x) = Stored(-1 - Value(x))
        /\ gp_uint128_add(gp_uint128_or(x, y), gp_uint128_and(x, y)) = Stored(Value(x) + Value(y))
        /\ gp_uint128_sub(gp_uint128_or(x, y), gp_uint128_and(x, y)) = gp_uint128_xor(x, y)
    BY <2>2, NotAgrees, BitsAgree
  <2>7. \A n \in 0 .. 2 * WordBits - 1 :
          /\ gp_uint128_shift_left(x, n) = Stored(Value(x) * PowerOfTwo[n])
          /\ gp_uint128_shift_right(x, n) = Stored(Value(x) \div PowerOfTwo[n])
          /\ gp_int128_shift_right(x, n) = Stored(SignedValue(x) \div PowerOfTwo[n])
    BY <2>2, ShiftLeftAgrees, ShiftRightAgrees, SignedShiftAgrees
  <2>8. /\ gp_uint128_equal(x, y) = (Value(x) = Value(y))
        /\ gp_uint128_not_equal(x, y) = (Value(x) # Value(y))
        /\ gp_uint128_greater_than(x, y) = (Value(x) > Value(y))
        /\ gp_uint128_less_than(x, y) = (Value(x) < Value(y))
        /\ gp_uint128_greater_than_equal(x, y) = (Value(x) >= Value(y))
        /\ gp_uint128_less_than_equal(x, y) = (Value(x) <= Value(y))
        /\ gp_int128_greater_than(x, y) = (SignedValue(x) > SignedValue(y))
        /\ gp_int128_less_than(x, y) = (SignedValue(x) < SignedValue(y))
        /\ gp_int128_greater_than_equal(x, y) = (SignedValue(x) >= SignedValue(y))
        /\ gp_int128_less_than_equal(x, y) = (SignedValue(x) <= SignedValue(y))
    BY <2>2, ComparisonsAgree
       DEF gp_uint128_equal, gp_uint128_not_equal, gp_uint128_greater_than, gp_uint128_less_than,
           gp_uint128_greater_than_equal, gp_uint128_less_than_equal, gp_int128_greater_than,
           gp_int128_less_than, gp_int128_greater_than_equal, gp_int128_less_than_equal
  <2> QED BY <2>4, <2>5, <2>6, <2>7, <2>8 DEF ArithmeticAgrees
<1> QED BY <1>1, RegistersHoldIntegers, PTL

\* Half of the range of two words
Top == PowerOfTwo[2 * WordBits - 1]

\* The range of two words is twice its half.
LEMMA Tops ==
  /\ Top \in Nat \ {0} /\ Size = 2 * Top /\ Size = PowerOfTwo[2 * WordBits]
  /\ Top % 2 = 0 /\ Base <= Top /\ Size = Base * Base
<1>1. WordBits \in Nat /\ WordBits >= 2 BY WordBitsAssumption
<1>2. /\ 2 * WordBits - 1 \in Nat /\ (2 * WordBits - 1) + 1 = 2 * WordBits
      /\ 2 * WordBits - 2 \in Nat /\ (2 * WordBits - 2) + 1 = 2 * WordBits - 1
      /\ WordBits + WordBits = 2 * WordBits /\ WordBits <= 2 * WordBits - 1 BY <1>1
<1>3. Size = PowerOfTwo[2 * WordBits] BY <1>1, <1>2, PowerOfSum DEF Size, Base
<1>4. PowerOfTwo[2 * WordBits] = 2 * Top /\ Top = 2 * PowerOfTwo[2 * WordBits - 2]
  BY <1>2, PowersOfTwo DEF Top
<1>5. Top \in Nat \ {0} /\ PowerOfTwo[2 * WordBits - 2] \in Nat BY <1>2, Positive DEF Top
<1>6. Base <= Top BY <1>1, <1>2, PowersIncrease DEF Base, Top
<1>7. Top % 2 = 0 BY <1>4, <1>5
<1> QED BY <1>3, <1>4, <1>5, <1>6, <1>7 DEF Size

\* The upper bit of a word
LEMMA TopBit ==
  ASSUME NEW w \in 0 .. Base - 1
  PROVE  Right(w, WordBits - 1) = One(2 * w >= Base)
<1> DEFINE m == PowerOfTwo[WordBits - 1]
<1>1. WordBits - 1 \in Nat /\ (WordBits - 1) % WordBits = WordBits - 1 /\ (WordBits - 1) + 1 = WordBits
  BY WordBitsAssumption
<1>2. m \in Nat \ {0} /\ Base = 2 * m
  <2>1. Base = 2 * PowerOfTwo[WordBits - 1] BY <1>1, PowersOfTwo DEF Base
  <2> QED BY <1>1, <2>1, Positive
<1>3. Right(w, WordBits - 1) = w \div m BY <1>1 DEF Right
<1> HIDE DEF m, Base
<1>4. CASE 2 * w >= Base
  <2>1. w = 1 * m + (w - m) /\ w - m \in 0 .. m - 1 /\ 1 \in Int BY <1>2, <1>4
  <2> DEFINE f == w - m
  <2>2. f \in 0 .. m - 1 /\ w = 1 * m + f BY <2>1
  <2> HIDE DEF f
  <2>3. (1 * m + f) \div m = 1 BY <1>2, <2>1, <2>2, Quotients
  <2> QED BY <1>3, <1>4, <2>2, <2>3 DEF One
<1>5. CASE ~ (2 * w >= Base)
  <2>1. w \in 0 .. m - 1 BY <1>2, <1>5
  <2>2. w \div m = 0 BY <1>2, <2>1
  <2> QED BY <1>3, <1>5, <2>2 DEF One
<1> QED BY <1>4, <1>5

\* A word doubled, with a bit in the place that is free then
LEMMA UpWord ==
  ASSUME NEW w \in 0 .. Base - 1, NEW e \in {0, 1}
  PROVE  (Left(w, 1) | e) = ((2 * w) % Base) + e
<1> DEFINE m == PowerOfTwo[WordBits - 1]
<1>1. WordBits - 1 \in Nat /\ 1 % WordBits = 1 /\ (WordBits - 1) + 1 = WordBits /\ 1 \in Nat
  BY WordBitsAssumption
<1>2. m \in Nat \ {0} /\ Base = 2 * m
  <2>1. Base = 2 * PowerOfTwo[WordBits - 1] BY <1>1, PowersOfTwo DEF Base
  <2> QED BY <1>1, <2>1, Positive
<1>3. PowerOfTwo[1] = 2
  <2>1. PowerOfTwo[0 + 1] = 2 * PowerOfTwo[0] /\ PowerOfTwo[0] = 1 BY PowersOfTwo
  <2> QED BY <2>1
<1>4. Left(w, 1) = (w * 2) % Base BY <1>1, <1>3 DEF Left
<1> HIDE DEF m, Base
<1>5. w \in Int /\ w * 2 = 2 * w BY <1>2
<1>6. (w * 2) % Base = (w % m) * 2
  <2>1. 2 \in Nat \ {0} /\ m \in Nat \ {0} /\ 2 * m = Base /\ w \in Int BY <1>2, <1>5
  <2> HIDE DEF m
  <2> QED BY <2>1, LeftPart
<1>7. w % m \in Nat BY <1>2, <1>5
<1> DEFINE v == w % m
<1>8. v \in Nat /\ e \in Nat /\ e < PowerOfTwo[1] BY <1>3, <1>7
<1> HIDE DEF v
<1>9. ((v * PowerOfTwo[1]) | e) = v * PowerOfTwo[1] + e BY <1>1, <1>8, OrShifted
<1>10. (Left(w, 1) | e) = ((v * 2) | e) BY <1>4, <1>6 DEF v
<1>11. ((v * 2) | e) = v * 2 + e BY <1>3, <1>9
<1>12. (2 * w) % Base = v * 2 BY <1>5, <1>6 DEF v
<1> QED BY <1>10, <1>11, <1>12

\* Two words doubled, with a bit in the place that is free then
LEMMA Brought ==
  ASSUME NEW a \in TwoWords, NEW e \in {0, 1}
  PROVE  gp_uint128(Left(Hi(a), 1) | Right(Lo(a), WordBits - 1), Left(Lo(a), 1) | e)
           = Stored(2 * Value(a) + e)
<1> DEFINE h == Hi(a)
           l == Lo(a)
           c == One(2 * l >= Base)
           x1 == (2 * h) % Base
           x0 == (2 * l) % Base
           i == (2 * h) \div Base
           j == (2 * l) \div Base
<1>1. Base \in Nat \ {0} /\ Base % 2 = 0 BY Bases
<1>2. h \in 0 .. Base - 1 /\ l \in 0 .. Base - 1 /\ Value(a) = h * Base + l BY Parts
<1>3. c \in {0, 1} BY DEF One
<1>4. gp_uint128(Left(h, 1) | Right(l, WordBits - 1), Left(l, 1) | e) = gp_uint128(x1 + c, x0 + e)
  BY <1>2, <1>3, UpWord, TopBit
<1> HIDE DEF Base, h, l
<1>5. 2 * h \in Int /\ 2 * l \in Int BY <1>1, <1>2
<1>6. /\ i \in Int /\ x1 \in 0 .. Base - 1 /\ 2 * h = i * Base + x1
      /\ j \in Int /\ x0 \in 0 .. Base - 1 /\ 2 * l = j * Base + x0 BY <1>1, <1>5, Division
<1>7. (2 * l + e) \div Base = c
  <2>0. Base = 2 * (Base \div 2) /\ Base \div 2 \in Nat BY <1>1
  <2> DEFINE m == Base \div 2
  <2> HIDE DEF m
  <2>1. m \in Nat /\ Base = 2 * m BY <2>0 DEF m
  <2>2. CASE 2 * l >= Base
    <3> DEFINE f == 2 * l + e - Base
    <3>1. f \in 0 .. Base - 1 /\ 2 * l + e = 1 * Base + f /\ 1 \in Int BY <1>1, <1>2, <2>2
    <3> HIDE DEF f
    <3>2. (1 * Base + f) \div Base = 1 BY <1>1, <3>1, Quotients
    <3> QED BY <2>2, <3>1, <3>2 DEF One
  <2>3. CASE ~ (2 * l >= Base)
    <3>1. 2 * l + e \in 0 .. Base - 1 BY <1>1, <1>2, <2>1, <2>3
    <3> DEFINE f == 2 * l + e
    <3> HIDE DEF f
    <3>2. f \in 0 .. Base - 1 BY <3>1 DEF f
    <3>3. f \div Base = 0 BY <1>1, <3>2
    <3> QED BY <2>3, <3>3 DEF One, f
  <2> QED BY <2>2, <2>3
<1>8. Stored((2 * h) * Base + (2 * l + e)) = gp_uint128(2 * h + c, 2 * l + e)
  <2>1. 2 * l + e \in Int /\ c \in Int BY <1>3, <1>5
  <2> HIDE DEF c
  <2> QED BY <1>5, <1>7, <2>1, StoredSum
<1>9. 2 * Value(a) + e = (2 * h) * Base + (2 * l + e) BY <1>1, <1>2
<1> HIDE DEF i, j, x1, x0, c
<1>10. gp_uint128((x1 + c) + i * Base, (x0 + e) + j * Base) = gp_uint128(x1 + c, x0 + e)
  <2>1. x1 + c \in Int /\ x0 + e \in Int BY <1>3, <1>6
  <2> QED BY <1>6, <2>1, WordsModulo
<1>11. (x1 + c) + i * Base = 2 * h + c /\ (x0 + e) + j * Base = 2 * l + e BY <1>1, <1>3, <1>6
<1> QED BY <1>4, <1>8, <1>9, <1>10, <1>11 DEF h, l

\* All bits, and none
LEMMA AllOrNone ==
  /\ Stored(-1) = << Base - 1, Base - 1 >> /\ Stored(0) = << 0, 0 >>
  /\ Stored(-1) \in TwoWords /\ Stored(0) \in TwoWords
<1>1. Base \in Nat \ {0} BY Bases
<1> HIDE DEF Base
<1>2. -1 \in Int /\ 0 \in Int OBVIOUS
<1>3. Stored(-1) \in TwoWords /\ Stored(0) \in TwoWords BY <1>2, ValueStored
<1>4. 0 \in 0 .. Base - 1 /\ Base - 1 \in 0 .. Base - 1 BY <1>1
<1>5. Stored(0) = << 0, 0 >> BY <1>4, StoredLow, PairOf
<1>6. Stored(-1) = << Base - 1, Base - 1 >>
  <2>1. -1 = (-1) * Base + (Base - 1) BY <1>1
  <2>2. (Base - 1) \div Base = 0 /\ Base - 1 \in Int BY <1>1
  <2>3. Stored((-1) * Base + (Base - 1)) = gp_uint128((-1) + 0, Base - 1)
    BY <1>2, <2>2, StoredSum
  <2>4. gp_uint128(((-1) + 0) + 1 * Base, (Base - 1) + 0 * Base) = gp_uint128((-1) + 0, Base - 1)
    <3>1. (-1) + 0 \in Int /\ 1 \in Int /\ 0 \in Int OBVIOUS
    <3> QED BY <2>2, <3>1, WordsModulo
  <2>5. ((-1) + 0) + 1 * Base = Base - 1 /\ (Base - 1) + 0 * Base = Base - 1 BY <1>1
  <2>6. gp_uint128(Base - 1, Base - 1) = << Base - 1, Base - 1 >> BY <1>4, PairOf
  <2> QED BY <2>1, <2>3, <2>4, <2>5, <2>6
<1> QED BY <1>3, <1>5, <1>6

\* Masking with all bits and with none
LEMMA Masked ==
  ASSUME NEW a \in TwoWords
  PROVE  /\ gp_uint128_and(a, Stored(-1)) = a
         /\ gp_uint128_and(a, Stored(0)) = Stored(0)
         /\ gp_uint128_xor(a, Stored(-1)) = gp_uint128_not(a)
         /\ gp_uint128_xor(a, Stored(0)) = a
<1>1. Base \in Nat \ {0} BY Bases
<1> DEFINE h == Hi(a)
           l == Lo(a)
<1>2. h \in 0 .. Base - 1 /\ l \in 0 .. Base - 1 BY Parts
<1>3. /\ Hi(Stored(-1)) = Base - 1 /\ Lo(Stored(-1)) = Base - 1
      /\ Hi(Stored(0)) = 0 /\ Lo(Stored(0)) = 0 BY AllOrNone DEF Hi, Lo
<1>4. ASSUME NEW w \in 0 .. Base - 1
      PROVE  /\ (w & (Base - 1)) = w /\ (w & 0) = 0
             /\ (w ^^ (Base - 1)) = Base - 1 - w /\ (w ^^ 0) = w
  <2>1. w \in Nat /\ 0 \in Nat /\ WordBits \in Nat BY <1>1, <1>4, WordBitsAssumption
  <2>2. (w & (Base - 1)) = w % Base BY <2>1, AndMask DEF Base
  <2>3. w % Base = w BY <1>1, <1>4
  <2>4. (w & 0) = 0
    <3>1. (w & 0) \in Nat /\ (w & 0) <= 0 BY <2>1, AndNumber, AndAtMost
    <3> QED BY <3>1
  <2>5. (w ^^ (Base - 1)) = w + (Base - 1) - 2 * (w & (Base - 1)) /\ (w ^^ 0) = w + 0 - 2 * (w & 0)
    BY DEF ^^
  <2> HIDE DEF Base
  <2> QED BY <1>1, <1>4, <2>1, <2>2, <2>3, <2>4, <2>5
<1>5. gp_uint128(h, l) = a BY StoredValue
<1>6. gp_uint128(0, 0) = Stored(0)
  <2>1. 0 \in 0 .. Base - 1 BY <1>1
  <2> QED BY <2>1, StoredLow
<1>7. gp_uint128_and(a, Stored(-1)) = gp_uint128(h & (Base - 1), l & (Base - 1))
  BY <1>3 DEF gp_uint128_and
<1>8. gp_uint128_and(a, Stored(0)) = gp_uint128(h & 0, l & 0) BY <1>3 DEF gp_uint128_and
<1>9. gp_uint128_xor(a, Stored(-1)) = gp_uint128(h ^^ (Base - 1), l ^^ (Base - 1))
  BY <1>3 DEF gp_uint128_xor
<1>10. gp_uint128_xor(a, Stored(0)) = gp_uint128(h ^^ 0, l ^^ 0) BY <1>3 DEF gp_uint128_xor
<1>11. gp_uint128_not(a) = gp_uint128(Base - 1 - h, Base - 1 - l) BY DEF gp_uint128_not
<1> HIDE DEF h, l, Base
<1>12. /\ (h & (Base - 1)) = h /\ (h & 0) = 0 /\ (h ^^ (Base - 1)) = Base - 1 - h /\ (h ^^ 0) = h
       /\ (l & (Base - 1)) = l /\ (l & 0) = 0 /\ (l ^^ (Base - 1)) = Base - 1 - l /\ (l ^^ 0) = l
  BY <1>2, <1>4
<1> QED BY <1>5, <1>6, <1>7, <1>8, <1>9, <1>10, <1>11, <1>12

\* Where the signed values are
LEMMA SignedRange ==
  ASSUME NEW a \in TwoWords
  PROVE  /\ SignedValue(a) \in - Top .. Top - 1
         /\ SignedValue(a) = Value(a) \/ SignedValue(a) = Value(a) - Size
         /\ SignedValue(a) < 0 <=> Value(a) >= Top
<1>1. Top \in Nat /\ Size = 2 * Top BY Tops
<1>2. Value(a) \in 0 .. Size - 1 BY Parts
<1> HIDE DEF Size
<1> DEFINE v == Value(a)
<1>3. SignedValue(a) = IF 2 * v >= Size THEN v - Size ELSE v BY DEF SignedValue
<1> HIDE DEF v
<1>4. v \in 0 .. Size - 1 BY <1>2 DEF v
<1>5. SignedValue(a) \in - Top .. Top - 1 /\ (SignedValue(a) = v \/ SignedValue(a) = v - Size)
      /\ (SignedValue(a) < 0 <=> v >= Top)
  BY <1>1, <1>3, <1>4
<1> QED BY <1>5 DEF v

\* A shift by all bits but one makes a mask of the sign.
LEMMA SignMask ==
  ASSUME NEW a \in TwoWords
  PROVE  gp_int128_shift_right(a, 2 * WordBits - 1) = IF SignedValue(a) < 0 THEN Stored(-1) ELSE Stored(0)
<1>1. 2 * WordBits - 1 \in 0 .. 2 * WordBits - 1 BY WordBitsAssumption
<1> DEFINE s == SignedValue(a)
<1>2. gp_int128_shift_right(a, 2 * WordBits - 1) = Stored(s \div Top)
  BY <1>1, SignedShiftAgrees DEF Top
<1>3. s \in - Top .. Top - 1 /\ Top \in Nat \ {0} BY SignedRange, Tops
<1> HIDE DEF s
<1>4. CASE s < 0
  <2> DEFINE f == s + Top
  <2>1. f \in 0 .. Top - 1 /\ s = (-1) * Top + f /\ -1 \in Int BY <1>3, <1>4
  <2> HIDE DEF f
  <2>2. ((-1) * Top + f) \div Top = -1 BY <1>3, <2>1, Quotients
  <2> QED BY <1>2, <1>4, <2>1, <2>2 DEF s
<1>5. CASE ~ (s < 0)
  <2>1. s \in 0 .. Top - 1 BY <1>3, <1>5
  <2>2. s \div Top = 0 BY <1>3, <2>1
  <2> QED BY <1>2, <1>5, <2>2 DEF s
<1> QED BY <1>4, <1>5

\* The upper bit of two words is that of the high one.
LEMMA TopBits ==
  ASSUME NEW a \in TwoWords
  PROVE  2 * Hi(a) >= Base <=> 2 * Value(a) >= Size
<1>1. Base \in Nat \ {0} /\ Base = 2 * (Base \div 2) /\ Base \div 2 \in Nat BY Bases
<1> DEFINE m == Base \div 2
           h == Hi(a)
           l == Lo(a)
<1>2. h \in 0 .. Base - 1 /\ l \in 0 .. Base - 1 /\ Value(a) = h * Base + l BY Parts
<1> HIDE DEF Base, m, h, l
<1>3. m \in Nat /\ Base = 2 * m BY <1>1 DEF m
<1>4. Size = 2 * (m * Base) /\ m * Base \in Int /\ h * Base \in Int BY <1>1, <1>2, <1>3 DEF Size
<1>5. (h * Base + l < m * Base + 0) <=> (h < m \/ (h = m /\ l < 0))
  <2>1. 0 \in 0 .. Base - 1 /\ h \in Int /\ m \in Int BY <1>1, <1>2, <1>3
  <2> QED BY <1>2, <2>1, PairOrder
<1>6. 2 * h >= Base <=> 2 * Value(a) >= Size BY <1>1, <1>2, <1>3, <1>4, <1>5
<1> QED BY <1>6 DEF h

\* The remainder that a turn brings the upper bit of what is left to divide down to
BroughtDown(t) == Stored(2 * Value(t.r) + One(2 * Value(t.q) >= Size))

\* The sign that the code takes the divisor to fit by
Fits(t) == SignedValue(Stored(Value(t.d) - Value(BroughtDown(t)) - 1)) < 0

\* A turn of the loop: what is brought down, and what is subtracted if it fits
LEMMA TurnParts ==
  ASSUME NEW t \in Turns
  PROVE  /\ BroughtDown(t) \in TwoWords
         /\ OneTurn(t) = [t EXCEPT
              !.q = Stored(2 * Value(t.q) + t.carry),
              !.r = gp_uint128_sub(BroughtDown(t), IF Fits(t) THEN t.d ELSE Stored(0)),
              !.sr = @ - 1,
              !.carry = One(Fits(t))]
<1> DEFINE up(w, below) == Left(w, 1) | Right(below, WordBits - 1)
           r1 == gp_uint128(up(Hi(t.r), Lo(t.r)), up(Lo(t.r), Hi(t.q)))
           q1 == gp_uint128(up(Hi(t.q), Lo(t.q)), Left(Lo(t.q), 1) | t.carry)
           u == gp_uint128_sub(gp_uint128_sub(t.d, r1), gp_uint128(0, 1))
           s == gp_int128_shift_right(u, 2 * WordBits - 1)
<1>1. /\ t.q \in TwoWords /\ t.r \in TwoWords /\ t.d \in TwoWords
      /\ t.carry \in {0, 1} /\ t.sr \in Nat
  BY DEF Turns, TwoWords
<1>2. OneTurn(t) = [t EXCEPT !.q = q1, !.r = gp_uint128_sub(r1, gp_uint128_and(t.d, s)),
                          !.sr = @ - 1, !.carry = Lo(s) & 1]
  BY DEF OneTurn
<1>3. q1 = Stored(2 * Value(t.q) + t.carry) BY <1>1, Brought
<1>4. r1 = BroughtDown(t)
  <2> DEFINE e == One(2 * Value(t.q) >= Size)
  <2>1. Hi(t.q) \in 0 .. Base - 1 BY <1>1, Parts
  <2>2. Right(Hi(t.q), WordBits - 1) = e BY <1>1, <2>1, TopBit, TopBits DEF One
  <2>3. e \in {0, 1} BY DEF One
  <2>4. r1 = gp_uint128(Left(Hi(t.r), 1) | Right(Lo(t.r), WordBits - 1), Left(Lo(t.r), 1) | e)
    BY <2>2
  <2> HIDE DEF e, r1
  <2>5. r1 = Stored(2 * Value(t.r) + e) BY <1>1, <2>3, <2>4, Brought
  <2> QED BY <2>5 DEF BroughtDown, e
<1> HIDE DEF r1, q1
<1>5. /\ Value(t.d) \in Int /\ Value(t.r) \in Int /\ Value(t.q) \in Int /\ Base \in Nat \ {0}
  <2>1. Size \in Int /\ Base \in Nat \ {0} BY Bases DEF Size
  <2> QED BY <1>1, <2>1, Parts
<1>6. BroughtDown(t) \in TwoWords /\ Value(BroughtDown(t)) \in Int
  <2>1. 2 * Value(t.r) + One(2 * Value(t.q) >= Size) \in Int BY <1>5 DEF One
  <2>2. BroughtDown(t) \in TwoWords BY <2>1, ValueStored DEF BroughtDown
  <2>3. Size \in Int BY Bases DEF Size
  <2> QED BY <2>2, <2>3, Parts
<1>7. u = Stored(Value(t.d) - Value(BroughtDown(t)) - 1) /\ u \in TwoWords
  <2> DEFINE i == Value(t.d) - Value(BroughtDown(t))
  <2>1. gp_uint128_sub(t.d, r1) = Stored(i) BY <1>1, <1>4, <1>6, SubAgrees
  <2>2. i \in Int BY <1>5, <1>6
  <2> HIDE DEF i
  <2>3. 1 \in 0 .. Base - 1 /\ 0 \in 0 .. Base - 1
    <3>1. Base >= 2 /\ Base \in Nat BY Bases
    <3> QED BY <3>1
  <2>4. gp_uint128(0, 1) \in TwoWords /\ Value(gp_uint128(0, 1)) = 0 * Base + 1 BY <2>3, PairOf
  <2>5. Value(gp_uint128(0, 1)) = 1 BY <1>5, <2>4
  <2>6. Stored(i) \in TwoWords BY <2>2, ValueStored
  <2>7. u = Stored(Value(Stored(i)) - 1) BY <2>1, <2>4, <2>5, <2>6, SubAgrees
  <2>8. Stored(Value(Stored(i)) - 1) = Stored(i - 1) /\ i - 1 \in Int BY <2>2, StoredAgain
  <2> QED BY <2>7, <2>8, ValueStored DEF i
<1>8. s = IF Fits(t) THEN Stored(-1) ELSE Stored(0)
  <2>1. SignedValue(u) < 0 <=> Fits(t) BY <1>7 DEF Fits
  <2> HIDE DEF u
  <2> QED BY <1>7, <2>1, SignMask
<1> HIDE DEF u, s
<1>9. gp_uint128_and(t.d, s) = (IF Fits(t) THEN t.d ELSE Stored(0))
  BY <1>1, <1>8, Masked
<1>10. (Lo(s) & 1) = One(Fits(t))
  <2>1. Lo(Stored(-1)) = Base - 1 /\ Lo(Stored(0)) = 0 BY AllOrNone DEF Lo
  <2>2. ((Base - 1) & 1) = 1
    <3>1. PowerOfTwo[0 + 1] = 2 * PowerOfTwo[0] /\ PowerOfTwo[0] = 1 BY PowersOfTwo
    <3>2. PowerOfTwo[1] = 2 BY <3>1
    <3>3. Base - 1 \in Nat /\ (Base - 1) % 2 = 1
      <4>1. Base \in Nat /\ Base >= 2 /\ Base = 2 * (Base \div 2) /\ Base \div 2 \in Nat BY Bases
      <4> DEFINE m == Base \div 2
      <4> HIDE DEF m
      <4>2. m - 1 \in Int /\ Base = 2 * m /\ Base - 1 = (m - 1) * 2 + 1 BY <4>1 DEF m
      <4>3. ((m - 1) * 2 + 1) % 2 = 1 BY <4>2
      <4> QED BY <4>1, <4>2, <4>3
    <3>4. ((Base - 1) & (PowerOfTwo[1] - 1)) = (Base - 1) % PowerOfTwo[1]
      <4>1. 1 \in Nat OBVIOUS
      <4> QED BY <3>3, <4>1, AndMask
    <3>5. PowerOfTwo[1] - 1 = 1 BY <3>2
    <3> QED BY <3>2, <3>3, <3>4, <3>5
  <2>3. (0 & 1) = 0 BY CommonSteps
  <2> QED BY <1>8, <2>1, <2>2, <2>3 DEF One
<1> QED BY <1>2, <1>3, <1>4, <1>6, <1>9, <1>10

\* A turn is a step of the loop, whatever it is in the middle of,
LEMMA TurnTurns ==
  ASSUME NEW t \in Turns, t.sr # 0
  PROVE  /\ OneTurn(t) \in Turns
         /\ OneTurn(t).sr = t.sr - 1 /\ OneTurn(t).d = t.d
         /\ OneTurn(t).q = Stored(2 * Value(t.q) + t.carry)
         /\ OneTurn(t).r = gp_uint128_sub(BroughtDown(t), IF Fits(t) THEN t.d ELSE Stored(0))
         /\ OneTurn(t).carry = One(Fits(t))
<1>1. /\ t.q \in TwoWords /\ t.r \in TwoWords /\ t.d \in TwoWords
      /\ t.carry \in {0, 1} /\ t.sr \in Nat
  BY DEF Turns, TwoWords
<1>2. Size \in Int BY Bases DEF Size
<1>3. Value(t.q) \in Int BY <1>1, <1>2, Parts
<1> DEFINE q1 == Stored(2 * Value(t.q) + t.carry)
           b == IF Fits(t) THEN t.d ELSE Stored(0)
           r1 == gp_uint128_sub(BroughtDown(t), b)
           c1 == One(Fits(t))
<1>4. OneTurn(t) = [t EXCEPT !.q = q1, !.r = r1, !.sr = @ - 1, !.carry = c1] BY TurnParts
<1>5. q1 \in TwoWords
  <2>1. 2 * Value(t.q) + t.carry \in Int BY <1>1, <1>3
  <2> QED BY <2>1, ValueStored
<1>6. r1 \in TwoWords
  <2>1. BroughtDown(t) \in TwoWords /\ b \in TwoWords BY <1>1, TurnParts, AllOrNone
  <2>2. Value(BroughtDown(t)) \in Int /\ Value(b) \in Int
    <3> HIDE DEF b
    <3> QED BY <1>2, <2>1, Parts
  <2> HIDE DEF b
  <2>3. Value(BroughtDown(t)) - Value(b) \in Int BY <2>2
  <2>4. Stored(Value(BroughtDown(t)) - Value(b)) \in TwoWords BY <2>3, ValueStored
  <2> QED BY <2>1, <2>4, SubAgrees
<1>7. c1 \in {0, 1} BY DEF One
<1>8. t.sr - 1 \in Nat BY <1>1
<1> HIDE DEF q1, r1, c1, b
<1>9. OneTurn(t) \in Turns /\ OneTurn(t).sr = t.sr - 1 /\ OneTurn(t).d = t.d
      /\ OneTurn(t).q = q1 /\ OneTurn(t).r = r1 /\ OneTurn(t).carry = c1
  BY <1>4, <1>5, <1>6, <1>7, <1>8 DEF Turns, TwoWords
<1> QED BY <1>9 DEF q1, r1, c1, b

\* and in a division it subtracts the divisor when it fits.
LEMMA TurnSubtracts ==
  ASSUME NEW t \in Turns, t.sr # 0,
         NEW r \in Nat, r = Value(t.r), NEW d \in Nat, d = Value(t.d), r < d,
         d <= Top \/ (r < Top /\ 2 * r >= Top)
  PROVE  \E r1 \in Nat :
           /\ r1 = 2 * r + One(2 * Value(t.q) >= Size)
           /\ OneTurn(t).carry = One(r1 >= d)
           /\ Value(OneTurn(t).r) = r1 - One(r1 >= d) * d
           /\ Value(OneTurn(t).r) < d
<1> DEFINE e == One(2 * Value(t.q) >= Size)
           r1 == 2 * r + e
           b == BroughtDown(t)
           u == Stored(d - Value(b) - 1)
<1>1. Top \in Nat \ {0} /\ Size = 2 * Top /\ Top % 2 = 0 BY Tops
<1>2. t.r \in TwoWords /\ t.d \in TwoWords BY DEF Turns, TwoWords
<1>3. d \in 0 .. Size - 1
  <2> HIDE DEF Size
  <2> QED BY <1>2, Parts
<1> HIDE DEF Size
<1>4. e \in {0, 1} BY DEF One
<1>5. b = Stored(r1) /\ b \in TwoWords BY TurnParts DEF BroughtDown
<1>6. Value(b) = r1 /\ r1 \in 0 .. Size - 1
  <2> HIDE DEF e
  <2>1. r1 \in 0 .. Size - 1
    <3>1. CASE d <= Top BY <1>1, <1>4, <3>1
    <3>2. CASE r < Top BY <1>1, <1>4, <3>2
    <3> QED BY <3>1, <3>2
  <2> HIDE DEF r1, b
  <2>2. Value(Stored(r1)) = r1 % Size BY <2>1, ValueStored
  <2>3. r1 % Size = r1 BY <1>1, <2>1
  <2> QED BY <1>5, <2>1, <2>2, <2>3
<1>7. Fits(t) <=> SignedValue(u) < 0 BY DEF Fits
<1> HIDE DEF b
<1>8. Fits(t) <=> r1 >= d
  <2> DEFINE i == d - r1 - 1
  <2>0. u = Stored(i) BY <1>6
  <2>1. i \in Int BY <1>6
  <2> HIDE DEF u
  <2>2. u \in TwoWords /\ Value(u) = i % Size
    <3> HIDE DEF i
    <3> QED BY <2>0, <2>1, ValueStored
  <2>3. SignedValue(u) < 0 <=> i % Size >= Top BY <2>2, SignedRange
  <2> HIDE DEF e
  <2>4. CASE r1 >= d
    <3>1. i + Size \in Top .. Size - 1
      <4>1. CASE d <= Top BY <1>1, <1>3, <1>4, <1>6, <2>4, <4>1
      <4>2. CASE ~ (d <= Top) BY <1>1, <1>3, <1>4, <1>6, <2>4, <4>2
      <4> QED BY <4>1, <4>2
    <3>2. i % Size = i + Size
      <4> DEFINE f == i + Size
      <4>1. f \in 0 .. Size - 1 /\ i = (-1) * Size + f /\ -1 \in Int BY <1>1, <2>1, <3>1
      <4>2. Size \in Nat \ {0} BY <1>1
      <4> HIDE DEF f, i
      <4>3. ((-1) * Size + f) % Size = f BY <4>1, <4>2, Quotients
      <4> QED BY <4>1, <4>3 DEF f
    <3> HIDE DEF i
    <3> QED BY <1>1, <1>7, <2>1, <2>3, <2>4, <3>1, <3>2
  <2>5. CASE ~ (r1 >= d)
    <3>1. i \in 0 .. Top - 1
      <4>1. CASE d <= Top BY <1>1, <1>3, <1>4, <1>6, <2>5, <4>1
      <4>2. CASE ~ (d <= Top)
        <5>1. 2 * r >= Top /\ d <= 2 * Top - 1 BY <1>1, <1>3, <4>2
        <5> QED BY <1>1, <1>3, <1>4, <1>6, <2>5, <5>1
      <4> QED BY <4>1, <4>2
    <3> HIDE DEF i, r1
    <3>2. i % Size = i BY <1>1, <3>1
    <3> QED BY <1>1, <1>7, <2>3, <2>5, <3>1, <3>2
  <2> QED BY <2>4, <2>5
<1>9. OneTurn(t).carry = One(r1 >= d) BY <1>8, TurnTurns DEF One
<1>10. OneTurn(t).r = gp_uint128_sub(b, IF r1 >= d THEN t.d ELSE Stored(0))
  BY <1>8, TurnTurns DEF b
<1>11. Value(Stored(0)) = 0
  <2>1. 0 \in Int /\ 0 % Size = 0 BY <1>1
  <2> QED BY <2>1, ValueStored
<1>12. ASSUME NEW v \in 0 .. Size - 1 PROVE Value(Stored(v)) = v
  <2>1. v \in Int /\ v % Size = v BY <1>1, <1>12
  <2> QED BY <2>1, ValueStored
<1>13. Value(OneTurn(t).r) = (IF r1 >= d THEN r1 - d ELSE r1)
  <2>1. CASE r1 >= d
    <3>1. OneTurn(t).r = Stored(r1 - d) BY <1>2, <1>5, <1>6, <1>10, <2>1, SubAgrees
    <3> HIDE DEF r1
    <3>2. r1 - d \in 0 .. Size - 1 BY <1>1, <1>3, <1>6, <2>1
    <3> QED BY <1>12, <2>1, <3>1, <3>2
  <2>2. CASE ~ (r1 >= d)
    <3>1. OneTurn(t).r = Stored(Value(b) - Value(Stored(0))) BY <1>5, <1>10, <2>2, SubAgrees, AllOrNone
    <3> HIDE DEF r1
    <3>2. Value(b) - Value(Stored(0)) = r1 BY <1>6, <1>11
    <3> QED BY <1>6, <1>12, <2>2, <3>1, <3>2
  <2> QED BY <2>1, <2>2
<1>14. Value(OneTurn(t).r) < d
  <2> HIDE DEF e
  <2> QED BY <1>4, <1>13
<1>15. r1 \in Nat /\ r1 = 2 * r + One(2 * Value(t.q) >= Size) BY <1>6
<1> HIDE DEF r1
<1>16. (IF r1 >= d THEN r1 - d ELSE r1) = r1 - One(r1 >= d) * d BY <1>15 DEF One
<1> QED BY <1>9, <1>13, <1>14, <1>15, <1>16

\* Taking a multiple of the divisor from a number leaves its remainder.
LEMMA MultipleTaken ==
  ASSUME NEW m \in Int, NEW d \in Nat \ {0}, NEW k \in Int
  PROVE  (m - k * d) \div d = m \div d - k /\ (m - k * d) % d = m % d
<1> DEFINE i == m \div d
           r == m % d
<1>1. i \in Int /\ r \in 0 .. d - 1 /\ m = i * d + r BY Division
<1> HIDE DEF i, r
<1>2. m - k * d = (i - k) * d + r /\ i - k \in Int BY <1>1
<1>3. ((i - k) * d + r) \div d = i - k /\ ((i - k) * d + r) % d = r BY <1>1, <1>2, Quotients
<1> QED BY <1>2, <1>3 DEF i, r

\* What is still to be divided, from the quotient and remainder so far, in units of p, and the power
\* of two that the quotient is above
StillDivided(q, r, p, u) == r * p + q \div u

\* The numbers of a turn: t is the upper bit of what is left to divide, q, and e is 1 if it has it.
TurnOf(t, q, r, d, c, p, u, e, c1, q1, r1) ==
  /\ t \in Nat \ {0} /\ q \in 0 .. 2 * t - 1 /\ r \in Nat /\ d \in Nat \ {0}
  /\ c \in {0, 1} /\ p \in Nat \ {0} /\ u \in Nat \ {0} /\ p * u = t
  /\ e \in {0, 1} /\ (e = 1 <=> 2 * q >= 2 * t) /\ c1 \in {0, 1}
  /\ q1 \in Nat /\ q1 = (2 * q + c) % (2 * t)
  /\ r1 \in Int /\ r1 = 2 * r + e - c1 * d

\* A turn leaves the quotient and the remainder of the division what they are.
TurnKeeps(t, q, r, d, c, p, u, e, c1, q1, r1) ==
  LET m == StillDivided(q, r, 2 * p, u)
      m1 == StillDivided(q1, r1, p, 2 * u)
  IN  /\ m1 % d = m % d
      /\ (2 * q1 + c1) * p + m1 \div d
           = ((2 * q + c) * (2 * p) + m \div d) + (- (2 * (e * p))) * (2 * t)

\* What a turn does to numbers: q gives its upper bit to r, and d is subtracted
\* from r if it fits. What is still to be divided loses P times what was subtracted.
LEMMA TurnOfNumbers ==
  ASSUME NEW t, NEW q, NEW r, NEW d, NEW c, NEW p, NEW u, NEW e, NEW c1, NEW q1, NEW r1,
         TurnOf(t, q, r, d, c, p, u, e, c1, q1, r1)
  PROVE  TurnKeeps(t, q, r, d, c, p, u, e, c1, q1, r1)
<1> DEFINE ql == q - e * t
           i == ql \div u
           j == ql % u
           m == r * (2 * p) + q \div u
           m1 == r1 * p + q1 \div (2 * u)
<1>0. /\ t \in Nat \ {0} /\ q \in 0 .. 2 * t - 1 /\ r \in Nat /\ d \in Nat \ {0}
      /\ c \in {0, 1} /\ p \in Nat \ {0} /\ u \in Nat \ {0} /\ p * u = t
      /\ e \in {0, 1} /\ (e = 1 <=> 2 * q >= 2 * t) /\ c1 \in {0, 1}
      /\ q1 \in Nat /\ q1 = (2 * q + c) % (2 * t)
      /\ r1 \in Int /\ r1 = 2 * r + e - c1 * d
  BY DEF TurnOf
<1> USE <1>0
<1>1. ql \in 0 .. t - 1 /\ q = e * t + ql
  <2>1. CASE e = 0 BY <2>1
  <2>2. CASE e = 1 BY <2>2
  <2> QED BY <2>1, <2>2
<1> HIDE DEF ql
<1>2. q1 = 2 * ql + c
  <2> DEFINE f == 2 * ql + c
             s == 2 * t
  <2>1. f \in 0 .. s - 1 /\ 2 * q + c = e * s + f /\ s \in Nat \ {0} /\ e \in Int BY <1>1
  <2> HIDE DEF f, s
  <2>2. (e * s + f) % s = f BY <2>1, Quotients
  <2>3. q1 = (2 * q + c) % s BY DEF s
  <2> QED BY <2>1, <2>2, <2>3 DEF f
<1>3. i \in Int /\ j \in 0 .. u - 1 /\ ql = i * u + j
  <2>1. ql \in Int BY <1>1
  <2> QED BY <2>1, Division
<1> HIDE DEF i, j
<1>4. q \div u = e * p + i
  <2>1. q = (e * p + i) * u + j
    <3>1. (e * p + i) * u = e * (p * u) + i * u BY <1>3
    <3> QED BY <1>1, <1>3, <3>1
  <2>2. e * p + i \in Int BY <1>3
  <2>3. ((e * p + i) * u + j) \div u = e * p + i BY <1>3, <2>2, Quotients
  <2> QED BY <2>1, <2>3
<1>5. q1 \div (2 * u) = i
  <2> DEFINE s == 2 * u
             f == 2 * j + c
  <2>1. q1 = i * s + f /\ f \in 0 .. s - 1 /\ s \in Nat \ {0}
    <3>1. 2 * (i * u + j) = i * (2 * u) + 2 * j BY <1>3
    <3> QED BY <1>2, <1>3, <3>1
  <2> HIDE DEF s, f
  <2>2. (i * s + f) \div s = i BY <1>3, <2>1, Quotients
  <2> QED BY <2>1, <2>2 DEF s
<1>6. m1 = m - (c1 * p) * d
  <2>1. m1 = (2 * r + e - c1 * d) * p + i BY <1>5
  <2>2. m = r * (2 * p) + (e * p + i) BY <1>4
  <2>3. (2 * r + e - c1 * d) * p = r * (2 * p) + e * p - (c1 * p) * d BY <1>3
  <2>4. r * (2 * p) \in Int /\ e * p \in Int /\ (c1 * p) * d \in Int OBVIOUS
  <2> QED BY <1>3, <2>1, <2>2, <2>3, <2>4
<1>7. m \in Int BY <1>3, <1>4
<1> DEFINE g == m \div d
<1>8. g \in Int
  <2> HIDE DEF m
  <2> QED BY <1>7, Division
<1>9. m1 \div d = g - c1 * p /\ m1 % d = m % d
  <2>1. c1 * p \in Int OBVIOUS
  <2> DEFINE k == c1 * p
  <2>2. k \in Int /\ m1 = m - k * d BY <1>6, <2>1
  <2> HIDE DEF k, m, m1
  <2>3. (m - k * d) \div d = m \div d - k /\ (m - k * d) % d = m % d
    BY <1>7, <2>2, MultipleTaken
  <2> QED BY <2>2, <2>3 DEF k
<1>10. (2 * q1 + c1) * p + (g - c1 * p) = ((2 * q + c) * (2 * p) + g) + (- (2 * (e * p))) * (2 * t)
  <2>1. 2 * q1 = 2 * (2 * q + c) - e * (4 * t) BY <1>1, <1>2
  <2>2. (2 * q1 + c1) * p = (2 * q1) * p + c1 * p OBVIOUS
  <2>3. (2 * (2 * q + c) - e * (4 * t)) * p = (2 * q + c) * (2 * p) - (e * (4 * t)) * p OBVIOUS
  <2>4. (e * (4 * t)) * p = (2 * (e * p)) * (2 * t) OBVIOUS
  <2> DEFINE a1 == (2 * q + c) * (2 * p)
             a2 == (2 * (e * p)) * (2 * t)
             a3 == c1 * p
             a4 == (2 * q1) * p
  <2>5. a1 \in Int /\ a2 \in Int /\ a3 \in Int /\ (- (2 * (e * p))) * (2 * t) = - a2 OBVIOUS
  <2>6. a4 = a1 - a2 BY <2>1, <2>3, <2>4
  <2>7. (2 * q1 + c1) * p = a4 + a3 BY <2>2
  <2> HIDE DEF a1, a2, a3, a4, g
  <2>8. (a4 + a3) + (g - a3) = (a1 + g) + (- a2) BY <1>8, <2>5, <2>6
  <2> QED BY <2>5, <2>7, <2>8 DEF a1, a3
<1> HIDE DEF g, m, m1
<1>11. (2 * q1 + c1) * p + m1 \div d = ((2 * q + c) * (2 * p) + m \div d) + (- (2 * (e * p))) * (2 * t)
  BY <1>9, <1>10 DEF g
<1> QED BY <1>9, <1>11 DEF m, m1, TurnKeeps, StillDivided

\* ShiftSubtract is the loop that its recursive definition says it is.
LEMMA LoopTurns ==
  ASSUME NEW t \in Turns
  PROVE  ShiftSubtract[t] =
           IF t.sr = 0
           THEN Results(gp_uint128_or(gp_uint128_shift_left(t.q, 1), gp_uint128(0, t.carry)), t.r)
           ELSE ShiftSubtract[OneTurn(t)]
<1> DEFINE result(p) == Results(gp_uint128_or(gp_uint128_shift_left(p.q, 1), gp_uint128(0, p.carry)), p.r)
           Stop == {p \in Turns : p.sr = 0}
           R == [p \in Turns |-> result(p)]
           G == [p \in Turns |-> IF p.sr = 0 THEN p ELSE OneTurn(p)]
<1>1. G \in [Turns -> Turns] BY TurnTurns
<1>2. \A p \in Turns : G[p] = (IF p.sr = 0 THEN p ELSE OneTurn(p)) /\ R[p] = result(p) OBVIOUS
<1> HIDE DEF G, R
<1>3. PICK f : IsLoop(f, Turns, Stop, R, G)
  <2> HIDE DEF Stop
  <2> QED BY <1>1, TailRecursion
<1>4. f = [p \in Turns |-> f[p]] BY <1>3 DEF IsLoop
<1>5. \A p \in Turns : f[p] = IF p.sr = 0 THEN result(p) ELSE f[OneTurn(p)]
  <2>1. \A p \in Turns : f[p] = IF p \in Stop THEN R[p] ELSE f[G[p]] BY <1>3 DEF IsLoop
  <2> HIDE DEF result
  <2> QED BY <1>2, <2>1
<1> HIDE DEF result
<1>6. f = [p \in Turns |-> IF p.sr = 0 THEN result(p) ELSE f[OneTurn(p)]]
  <2> DEFINE F == [p \in Turns |-> IF p.sr = 0 THEN result(p) ELSE f[OneTurn(p)]]
  <2>1. F = [p \in Turns |-> f[p]] BY <1>5
  <2> HIDE DEF F
  <2> QED BY <1>4, <2>1 DEF F
<1>7. f = [p \in Turns |->
             IF p.sr = 0
             THEN Results(gp_uint128_or(gp_uint128_shift_left(p.q, 1), gp_uint128(0, p.carry)), p.r)
             ELSE f[OneTurn(p)]]
  BY <1>6 DEF result
<1>8. ShiftSubtract = [p \in Turns |->
             IF p.sr = 0
             THEN Results(gp_uint128_or(gp_uint128_shift_left(p.q, 1), gp_uint128(0, p.carry)), p.r)
             ELSE ShiftSubtract[OneTurn(p)]]
  BY <1>7, Zenon DEF ShiftSubtract
<1> DEFINE F == ShiftSubtract
<1> HIDE DEF F
<1>9. F = [p \in Turns |->
             IF p.sr = 0
             THEN Results(gp_uint128_or(gp_uint128_shift_left(p.q, 1), gp_uint128(0, p.carry)), p.r)
             ELSE F[OneTurn(p)]] BY <1>8, Zenon DEF F
<1>10. F[t] = IF t.sr = 0
             THEN Results(gp_uint128_or(gp_uint128_shift_left(t.q, 1), gp_uint128(0, t.carry)), t.r)
             ELSE F[OneTurn(t)] BY <1>9
<1> QED BY <1>10 DEF F

\* The last bit of the quotient comes to what was stored of it.
LEMMA LastBit ==
  ASSUME NEW a \in TwoWords, NEW e \in {0, 1}
  PROVE  gp_uint128_or(gp_uint128_shift_left(a, 1), gp_uint128(0, e)) = Stored(2 * Value(a) + e)
<1> DEFINE h == Hi(a)
           l == Lo(a)
           x1 == Left(h, 1) | Right(l, WordBits - 1)
           x0 == Left(l, 1)
<1>1. Base \in Nat \ {0} /\ Base >= 2 BY Bases
<1>2. h \in 0 .. Base - 1 /\ l \in 0 .. Base - 1 BY Parts
<1>3. gp_uint128_shift_left(a, 1) = gp_uint128(x1, x0)
  <2>1. ~ (1 >= WordBits) /\ 1 # 0 BY WordBitsAssumption
  <2> QED BY <2>1 DEF gp_uint128_shift_left
<1>4. x0 \in 0 .. Base - 1 /\ Left(h, 1) \in 0 .. Base - 1
  <2>1. PowerOfTwo[1 % WordBits] \in Nat
    <3>1. 1 % WordBits \in Nat BY WordBitsAssumption
    <3> QED BY <3>1, Positive
  <2> DEFINE p == PowerOfTwo[1 % WordBits]
  <2>2. x0 = (l * p) % Base /\ Left(h, 1) = (h * p) % Base BY DEF Left
  <2> HIDE DEF p, Base
  <2>3. l * p \in Int /\ h * p \in Int BY <1>2, <2>1 DEF p
  <2>4. (l * p) % Base \in 0 .. Base - 1 /\ (h * p) % Base \in 0 .. Base - 1 BY <1>1, <2>3, Division
  <2> QED BY <2>2, <2>4
<1>5. x1 \in 0 .. Base - 1
  <2>1. Right(l, WordBits - 1) \in 0 .. Base - 1 BY <1>1, <1>2, TopBit DEF One
  <2> QED BY <1>4, <2>1, BitsOfWords
<1>6. Hi(gp_uint128(x1, x0)) = x1 /\ Lo(gp_uint128(x1, x0)) = x0
  BY <1>4, <1>5, PairOf DEF Hi, Lo
<1>7. Hi(gp_uint128(0, e)) = 0 /\ Lo(gp_uint128(0, e)) = e
  <2>1. 0 \in 0 .. Base - 1 /\ e \in 0 .. Base - 1 BY <1>1
  <2> QED BY <2>1, PairOf DEF Hi, Lo
<1>8. (x1 | 0) = x1
  <2>1. x1 \in Nat /\ 0 \in Nat BY <1>1, <1>5
  <2>2. (x1 & 0) \in Nat /\ (x1 & 0) <= 0 BY <2>1, AndNumber, AndAtMost
  <2>3. (x1 | 0) = x1 + 0 - (x1 & 0) BY DEF |
  <2> HIDE DEF x1
  <2> QED BY <2>1, <2>2, <2>3
<1>9. gp_uint128_or(gp_uint128(x1, x0), gp_uint128(0, e)) = gp_uint128(x1, x0 | e)
  BY <1>6, <1>7, <1>8 DEF gp_uint128_or
<1> QED BY <1>3, <1>9, Brought

\* What is still to be divided in the middle of a division
Dividing(t) == Value(t.r) * PowerOfTwo[t.sr] + Value(t.q) \div PowerOfTwo[2 * WordBits - t.sr]

\* The remainder is less than the divisor, and either no doubled remainder exceeds two words or
\* this is the only turn.
InDivision(t) ==
  /\ t.sr <= 2 * WordBits /\ Value(t.r) < Value(t.d)
  /\ \/ t.sr = 0
     \/ Value(t.d) <= Top
     \/ t.sr = 1 /\ Value(t.r) < Top /\ 2 * Value(t.r) >= Top

\* Whatever turn a division is in, the loop comes to its quotient and remainder.
LEMMA LoopDivides ==
  ASSUME NEW k \in Nat
  PROVE  \A t \in Turns : t.sr = k /\ InDivision(t) =>
           ShiftSubtract[t] =
             Results(Stored((2 * Value(t.q) + t.carry) * PowerOfTwo[k] + Dividing(t) \div Value(t.d)),
                     Stored(Dividing(t) % Value(t.d)))
<1> DEFINE Divides(t) ==
             ShiftSubtract[t] =
               Results(Stored((2 * Value(t.q) + t.carry) * PowerOfTwo[t.sr] + Dividing(t) \div Value(t.d)),
                       Stored(Dividing(t) % Value(t.d)))
           T == {j \in Nat : \A t \in Turns : t.sr = j /\ InDivision(t) => Divides(t)}
<1>1. /\ Top \in Nat \ {0} /\ Size = 2 * Top /\ Size = PowerOfTwo[2 * WordBits] /\ Size \in Nat \ {0}
      /\ WordBits \in Nat
  BY Tops, WordBitsAssumption
<1> HIDE DEF Size
<1>2. ASSUME NEW t \in Turns
      PROVE  /\ t.q \in TwoWords /\ t.r \in TwoWords /\ t.d \in TwoWords
             /\ t.carry \in {0, 1} /\ t.sr \in Nat
             /\ Value(t.q) \in 0 .. Size - 1 /\ Value(t.r) \in 0 .. Size - 1
             /\ Value(t.d) \in 0 .. Size - 1
  <2>1. /\ t.q \in TwoWords /\ t.r \in TwoWords /\ t.d \in TwoWords
        /\ t.carry \in {0, 1} /\ t.sr \in Nat
    BY DEF Turns, TwoWords
  <2> QED BY <2>1, Parts
<1>3. 0 \in T
  <2>1. ASSUME NEW t \in Turns, t.sr = 0, InDivision(t) PROVE Divides(t)
    <3> DEFINE q == Value(t.q)
               r == Value(t.r)
               d == Value(t.d)
    <3>1. q \in 0 .. Size - 1 /\ r \in 0 .. Size - 1 /\ d \in 0 .. Size - 1 /\ r < d
      BY <1>2, <2>1 DEF InDivision
    <3>2. PowerOfTwo[0] = 1 /\ PowerOfTwo[2 * WordBits - t.sr] = Size
      <4>1. 2 * WordBits - t.sr = 2 * WordBits BY <1>1, <2>1
      <4> QED BY <1>1, <4>1, PowersOfTwo
    <3>3. Dividing(t) = r * 1 + q \div Size BY <2>1, <3>2 DEF Dividing
    <3>4. ShiftSubtract[t] = Results(Stored(2 * q + t.carry), t.r)
      BY <1>2, <2>1, LoopTurns, LastBit
    <3>5. t.r = Stored(r) BY <1>2, StoredValue
    <3> HIDE DEF q, r, d
    <3>6. q \div Size = 0 BY <1>1, <3>1
    <3>7. Dividing(t) = r BY <1>1, <3>1, <3>3, <3>6
    <3>8. r \div d = 0 /\ r % d = r BY <1>1, <3>1
    <3>9. (2 * q + t.carry) * PowerOfTwo[t.sr] + 0 = 2 * q + t.carry
      <4>1. t.carry \in {0, 1} BY <1>2
      <4> QED BY <2>1, <3>1, <3>2, <4>1
    <3>10. Divides(t) <=> ShiftSubtract[t] =
               Results(Stored((2 * q + t.carry) * PowerOfTwo[t.sr] + Dividing(t) \div d),
                       Stored(Dividing(t) % d))
      BY DEF q, d
    <3> HIDE DEF Divides
    <3> QED BY <3>4, <3>5, <3>7, <3>8, <3>9, <3>10
  <2> QED BY <2>1
<1>4. ASSUME NEW j \in Nat, j \in T PROVE j + 1 \in T
  <2>1. ASSUME NEW t \in Turns, t.sr = j + 1, InDivision(t) PROVE Divides(t)
    <3> DEFINE q == Value(t.q)
               r == Value(t.r)
               d == Value(t.d)
               c == t.carry
               n == OneTurn(t)
               q1 == Value(n.q)
               r1 == Value(n.r)
               c1 == n.carry
               e == One(2 * Value(t.q) >= Size)
               p == PowerOfTwo[j]
               u == PowerOfTwo[2 * WordBits - (j + 1)]
               m == Dividing(t)
               m1 == Dividing(n)
    <3>1. /\ q \in 0 .. Size - 1 /\ r \in 0 .. Size - 1 /\ d \in 0 .. Size - 1 /\ r < d
          /\ c \in {0, 1} /\ j + 1 <= 2 * WordBits
          /\ d <= Top \/ (j = 0 /\ r < Top /\ 2 * r >= Top)
      <4>1. j + 1 # 0 /\ (j + 1 = 1 => j = 0) OBVIOUS
      <4> QED BY <1>2, <2>1, <4>1 DEF InDivision
    <3>2. /\ p \in Nat \ {0} /\ PowerOfTwo[j + 1] = 2 * p
          /\ u \in Nat \ {0} /\ PowerOfTwo[2 * WordBits - j] = 2 * u /\ p * u = Top
      <4>1. 2 * WordBits - (j + 1) \in Nat /\ (2 * WordBits - (j + 1)) + 1 = 2 * WordBits - j
            /\ j + (2 * WordBits - (j + 1)) = 2 * WordBits - 1
        BY <1>1, <3>1
      <4> QED BY <4>1, Positive, PowersOfTwo, PowerOfSum DEF Top
    <3>3. /\ n \in Turns /\ n.sr = j /\ n.d = t.d
          /\ n.q = Stored(2 * q + c)
      <4>1. t.sr # 0 /\ t.sr - 1 = j BY <2>1
      <4> QED BY <4>1, TurnTurns
    <3>4. PICK r2 \in Nat : r2 = 2 * r + e /\ c1 = One(r2 >= d) /\ r1 = r2 - One(r2 >= d) * d /\ r1 < d
      <4>1. t.sr # 0 BY <2>1
      <4>2. r \in Nat /\ d \in Nat /\ (d <= Top \/ (r < Top /\ 2 * r >= Top)) BY <1>1, <3>1
      <4> QED BY <3>1, <4>1, <4>2, TurnSubtracts
    <3>5. q1 = (2 * q + c) % Size /\ q1 \in Nat
      <4>1. 2 * q + c \in Int BY <1>1, <3>1
      <4> HIDE DEF q, c, n
      <4>2. Value(Stored(2 * q + c)) = (2 * q + c) % Size BY <4>1, ValueStored
      <4>3. q1 = (2 * q + c) % Size BY <3>3, <4>2
      <4>4. (2 * q + c) % Size \in Nat BY <1>1, <4>1
      <4> QED BY <4>3, <4>4
    <3>6. e \in {0, 1} /\ (e = 1 <=> 2 * q >= Size) /\ c1 \in {0, 1} BY <3>4 DEF One
    <3>7. r1 = 2 * r + e - c1 * d /\ r1 \in Int
      <4> HIDE DEF e, r, d, r1, c1
      <4> QED BY <1>1, <3>1, <3>4, <3>6 DEF One
    <3>8. m = r * (2 * p) + q \div u BY <2>1, <3>2 DEF Dividing
    <3>9. m1 = r1 * p + q1 \div (2 * u)
      <4> HIDE DEF n
      <4> QED BY <3>2, <3>3 DEF Dividing
    <3>10. ShiftSubtract[t] = ShiftSubtract[n]
      <4>1. t.sr # 0 BY <2>1
      <4> QED BY <4>1, LoopTurns
    <3>11. InDivision(n)
      <4>1. j <= 2 * WordBits /\ (j # 0 => d <= Top) BY <1>1, <3>1
      <4> HIDE DEF n
      <4> QED BY <3>3, <3>4, <4>1 DEF InDivision
    <3>12. Divides(n)
      <4> HIDE DEF n, Divides
      <4> QED BY <1>4, <3>3, <3>11
    <3>13. ShiftSubtract[n] = Results(Stored((2 * q1 + c1) * p + m1 \div d), Stored(m1 % d))
      <4> HIDE DEF n
      <4> QED BY <3>3, <3>12
    <3> HIDE DEF q, r, d, c, n, q1, r1, c1, e, p, u, m, m1
    <3>14. /\ m1 % d = m % d
           /\ (2 * q1 + c1) * p + m1 \div d
                = ((2 * q + c) * (2 * p) + m \div d) + (- (2 * (e * p))) * (2 * Top)
      <4>1. /\ q \in 0 .. 2 * Top - 1 /\ r \in Nat /\ d \in Nat \ {0} BY <1>1, <3>1
      <4>2. (e = 1 <=> 2 * q >= 2 * Top) /\ q1 = (2 * q + c) % (2 * Top) BY <1>1, <3>5, <3>6
      <4>3. TurnKeeps(Top, q, r, d, c, p, u, e, c1, q1, r1)
        <5>1. TurnOf(Top, q, r, d, c, p, u, e, c1, q1, r1)
          BY <1>1, <3>1, <3>2, <3>5, <3>6, <3>7, <4>1, <4>2 DEF TurnOf
        <5> QED BY Zenon, <5>1, TurnOfNumbers
      <4> QED BY <3>8, <3>9, <4>3 DEF TurnKeeps, StillDivided
    <3> DEFINE v == (2 * q + c) * (2 * p) + m \div d
               i == - (2 * (e * p))
    <3>15. v \in Int /\ i \in Int
      <4>1. m \in Int /\ d \in Nat \ {0}
        <5>1. q \div u \in Int BY <3>1, <3>2
        <5> QED BY <1>1, <3>1, <3>2, <3>8, <5>1
      <4>2. m \div d \in Int BY <4>1
      <4> QED BY <1>1, <3>1, <3>2, <3>6, <4>2
    <3>16. Stored(v + i * Size) = Stored(v)
      <4> HIDE DEF v, i
      <4> QED BY <3>15, StoredModulo
    <3>17. (2 * q1 + c1) * p + m1 \div d = v + i * Size BY <1>1, <3>14
    <3>18. ShiftSubtract[t] = Results(Stored(v), Stored(m % d))
      <4> HIDE DEF v, i
      <4> QED BY <3>10, <3>13, <3>14, <3>16, <3>17
    <3>19. Divides(t) <=> ShiftSubtract[t] = Results(Stored(v), Stored(m % d))
      BY <2>1, <3>2 DEF q, c, m, d
    <3> QED BY <3>18, <3>19
  <2> QED BY <2>1
<1> HIDE DEF T
<1>5. k \in T BY <1>3, <1>4, Induction
<1> QED BY <1>5 DEF T

\* The words of a number that is shifted either way at once
LEMMA ShiftedBoth ==
  ASSUME NEW a \in TwoWords, NEW sr \in 1 .. 2 * WordBits - 1
  PROVE  Shifted(a, sr) = Results(Stored(Value(a) * PowerOfTwo[2 * WordBits - sr]),
                                  Stored(Value(a) \div PowerOfTwo[sr]))
<1> DEFINE n == 2 * WordBits - sr
<1>1. WordBits \in Nat \ {0} BY WordBitsAssumption
<1>2. n \in 0 .. 2 * WordBits - 1 /\ sr \in 0 .. 2 * WordBits - 1 /\ n # 0 /\ sr # 0 /\ n \in Int
      /\ sr \in Int
  BY <1>1
<1>3. /\ gp_uint128_shift_left(a, n) = Stored(Value(a) * PowerOfTwo[n])
      /\ gp_uint128_shift_right(a, sr) = Stored(Value(a) \div PowerOfTwo[sr])
  BY <1>2, ShiftLeftAgrees, ShiftRightAgrees
<1>4. Shifted(a, sr) = Results(gp_uint128_shift_left(a, n), gp_uint128_shift_right(a, sr))
  <2>1. CASE sr = WordBits
    <3>1. n = WordBits /\ n >= WordBits /\ sr >= WordBits /\ n - WordBits = 0 /\ sr - WordBits = 0
      BY <1>1, <2>1
    <3>2. Left(Lo(a), 0) = Lo(a) /\ Right(Hi(a), 0) = Hi(a)
      <4>1. 0 % WordBits = 0 /\ PowerOfTwo[0] = 1 BY <1>1, PowersOfTwo
      <4>2. Lo(a) \in 0 .. Base - 1 /\ Hi(a) \in 0 .. Base - 1 /\ Base \in Nat \ {0} BY Parts, Bases
      <4> DEFINE l == Lo(a)
                 h == Hi(a)
      <4> HIDE DEF Base, l, h
      <4>3. (l * 1) % Base = l /\ h \div 1 = h BY <4>2 DEF l, h
      <4> QED BY <4>1, <4>3 DEF Left, Right, l, h
    <3>3. gp_uint128_shift_left(a, n) = gp_uint128(Lo(a), 0)
      BY <1>2, <3>1, <3>2 DEF gp_uint128_shift_left
    <3>4. gp_uint128_shift_right(a, sr) = gp_uint128(0, Hi(a))
      BY <1>2, <3>1, <3>2 DEF gp_uint128_shift_right
    <3> QED BY <2>1, <3>3, <3>4 DEF Shifted
  <2>2. CASE sr < WordBits
    <3>1. n >= WordBits /\ ~ (sr >= WordBits) /\ n - WordBits = WordBits - sr BY <1>1, <1>2, <2>2
    <3>2. gp_uint128_shift_left(a, n) = gp_uint128(Left(Lo(a), WordBits - sr), 0)
      BY <1>2, <3>1 DEF gp_uint128_shift_left
    <3>3. gp_uint128_shift_right(a, sr)
            = gp_uint128(Right(Hi(a), sr), Right(Lo(a), sr) | Left(Hi(a), WordBits - sr))
      BY <1>2, <3>1 DEF gp_uint128_shift_right
    <3>4. (Right(Lo(a), sr) | Left(Hi(a), WordBits - sr)) = (Left(Hi(a), WordBits - sr) | Right(Lo(a), sr))
      <4> DEFINE u == Right(Lo(a), sr)
                 v == Left(Hi(a), WordBits - sr)
      <4>1. u \in Nat /\ v \in Nat
        <5>1. sr % WordBits \in Nat /\ (WordBits - sr) % WordBits \in Nat BY <1>1, <1>2
        <5>2. PowerOfTwo[sr % WordBits] \in Nat \ {0} /\ PowerOfTwo[(WordBits - sr) % WordBits] \in Nat \ {0}
          BY <5>1, Positive
        <5>3. Lo(a) \in Nat /\ Hi(a) \in Nat /\ Base \in Nat \ {0}
          <6>1. Lo(a) \in 0 .. Base - 1 /\ Hi(a) \in 0 .. Base - 1 /\ Base \in Nat \ {0} BY Parts, Bases
          <6> QED BY <6>1
        <5> HIDE DEF Base
        <5>4. Lo(a) \div PowerOfTwo[sr % WordBits] \in Nat
              /\ (Hi(a) * PowerOfTwo[(WordBits - sr) % WordBits]) % Base \in Nat
          <6> DEFINE i == PowerOfTwo[sr % WordBits]
                     j == PowerOfTwo[(WordBits - sr) % WordBits]
                     h == Hi(a)
                     l == Lo(a)
          <6>1. i \in Nat \ {0} /\ j \in Nat \ {0} /\ h \in Nat /\ l \in Nat BY <5>2, <5>3
          <6> HIDE DEF i, j, h, l
          <6>2. l \div i \in Nat BY <6>1
          <6>3. h * j \in Int BY <6>1
          <6>4. (h * j) % Base \in Nat BY <5>3, <6>3
          <6> QED BY <6>2, <6>4 DEF i, j, h, l
        <5> QED BY <5>4 DEF Left, Right
      <4>2. (u | v) = u + v - (u & v) /\ (v | u) = v + u - (v & u) BY DEF |
      <4> HIDE DEF u, v
      <4>3. (u & v) = (v & u) /\ (u & v) \in Nat BY <4>1, AndCommutes, AndNumber
      <4>4. (u | v) = (v | u) BY <4>1, <4>2, <4>3
      <4> QED BY <4>4 DEF u, v
    <3>5. sr # WordBits BY <1>1, <2>2
    <3>6. Shifted(a, sr) = Results(gp_uint128(Left(Lo(a), WordBits - sr), 0),
             gp_uint128(Right(Hi(a), sr), Left(Hi(a), WordBits - sr) | Right(Lo(a), sr)))
      BY <2>2, <3>5 DEF Shifted
    <3> QED BY <3>2, <3>3, <3>4, <3>6
  <2>3. CASE sr > WordBits
    <3>1. sr >= WordBits /\ ~ (n >= WordBits) /\ WordBits - n = sr - WordBits
          /\ sr # WordBits /\ ~ (sr < WordBits) BY <1>1, <1>2, <2>3
    <3>2. gp_uint128_shift_left(a, n)
            = gp_uint128(Left(Hi(a), n) | Right(Lo(a), sr - WordBits), Left(Lo(a), n))
      BY <1>2, <3>1 DEF gp_uint128_shift_left
    <3>3. gp_uint128_shift_right(a, sr) = gp_uint128(0, Right(Hi(a), sr - WordBits))
      BY <1>2, <3>1 DEF gp_uint128_shift_right
    <3>4. Shifted(a, sr) = Results(gp_uint128(Left(Hi(a), n) | Right(Lo(a), sr - WordBits), Left(Lo(a), n)),
                                   gp_uint128(0, Right(Hi(a), sr - WordBits)))
      BY <3>1 DEF Shifted
    <3> QED BY <3>2, <3>3, <3>4
  <2> QED BY <1>1, <1>2, <2>1, <2>2, <2>3
<1> QED BY <1>3, <1>4

\* What a number shifted to the left keeps, as a multiple of the power
LEMMA KeptBelow ==
  ASSUME NEW p \in Nat \ {0}, NEW q \in Nat \ {0}, NEW h \in Int
  PROVE  /\ (h * p) % (p * q) = (h % q) * p
         /\ ((h % q) * p) \div p = h % q
<1> DEFINE d == h \div q
           e == h % q
           s == p * q
           f == e * p
<1>1. d \in Int /\ e \in 0 .. q - 1 /\ h = d * q + e BY Division
<1> HIDE DEF d, e
<1>2. h * p = d * s + f
  <2>1. (d * q + e) * p = d * (p * q) + e * p BY <1>1
  <2> QED BY <1>1, <2>1
<1>3. f \in 0 .. s - 1 /\ s \in Nat \ {0}
  <2>1. p * e <= p * (q - 1) BY <1>1, ProductOrder
  <2>2. p * (q - 1) = p * q - p /\ p * e = e * p /\ e * p \in Nat /\ p * q \in Nat BY <1>1
  <2> QED BY <2>1, <2>2
<1>4. (e * p + 0) \div p = e /\ e * p + 0 = f
  <2>1. e \in Int /\ 0 \in 0 .. p - 1 /\ e * p + 0 = e * p BY <1>1
  <2> QED BY <2>1, Quotients
<1> HIDE DEF s, f
<1>5. (d * s + f) % s = f BY <1>1, <1>3, Quotients
<1>6. (h * p) % s = f /\ f \div p = e BY <1>2, <1>4, <1>5
<1> QED BY <1>6 DEF s, f, e

\* A division that begins with as many turns as the divisor and the number differ in bits
LEMMA DivideAgrees ==
  ASSUME NEW a \in TwoWords, NEW b \in TwoWords, NEW sr \in 1 .. 2 * WordBits - 1,
         Value(a) < PowerOfTwo[sr] * Value(b),
         Value(b) <= Top \/ (sr = 1 /\ Value(a) >= Top)
  PROVE  Divide(a, b, sr) = Results(Stored(Value(a) \div Value(b)), Stored(Value(a) % Value(b)))
<1> DEFINE n == Value(a)
           d == Value(b)
           p == PowerOfTwo[sr]
           u == PowerOfTwo[2 * WordBits - sr]
           q == Stored(n * u)
           r == Stored(n \div p)
           t == [q |-> q, r |-> r, d |-> b, sr |-> sr, carry |-> 0]
<1>1. /\ Top \in Nat \ {0} /\ Size = 2 * Top /\ Size = PowerOfTwo[2 * WordBits] /\ Size \in Nat \ {0}
      /\ WordBits \in Nat /\ Top % 2 = 0
  BY Tops, WordBitsAssumption
<1> HIDE DEF Size
<1>2. n \in 0 .. Size - 1 /\ d \in 0 .. Size - 1 BY Parts
<1>3. /\ p \in Nat \ {0} /\ u \in Nat \ {0} /\ p * u = Size /\ u * p = Size
  <2>1. sr \in Nat /\ 2 * WordBits - sr \in Nat /\ sr + (2 * WordBits - sr) = 2 * WordBits BY <1>1
  <2>2. p \in Nat \ {0} /\ u \in Nat \ {0} /\ p * u = Size BY <1>1, <2>1, Positive, PowerOfSum
  <2> HIDE DEF p, u
  <2> QED BY <2>2
<1>4. Shifted(a, sr) = Results(q, r) BY ShiftedBoth
<1>5. Divide(a, b, sr) = ShiftSubtract[t]
  <2>1. Results(q, r).quotient = q /\ Results(q, r).remainder = r BY DEF Results
  <2> HIDE DEF q, r
  <2> QED BY <1>4, <2>1 DEF Divide
<1> HIDE DEF n, d, p, u
<1>6. n * u \in Int /\ n \div p \in 0 .. Size - 1 /\ n \div p < d
  <2> DEFINE i == n \div p
             j == n % p
  <2>1. i \in Int /\ j \in 0 .. p - 1 /\ n = i * p + j
    <3>1. n \in Int BY <1>2
    <3> QED BY <1>3, <3>1, Division
  <2> HIDE DEF i, j
  <2>2. n < p * d BY DEF n, p, d
  <2>3. i < d
    <3>1. i >= d => p * d <= p * i BY <1>2, <1>3, <2>1, ProductOrder
    <3>2. p * i = i * p /\ i * p \in Int /\ p * d \in Int BY <1>2, <1>3, <2>1
    <3> QED BY <1>2, <2>1, <2>2, <3>1, <3>2
  <2>4. i >= 0
    <3>1. i <= -1 => p * i <= p * (-1) BY <1>3, <2>1, ProductOrder
    <3>2. p * i = i * p /\ i * p \in Int /\ p * (-1) = - p BY <1>3, <2>1
    <3> QED BY <1>2, <1>3, <2>1, <3>1, <3>2
  <2>5. n * u \in Int BY <1>2, <1>3
  <2>6. i \in 0 .. Size - 1 BY <1>1, <1>2, <2>1, <2>3, <2>4
  <2> QED BY <2>3, <2>5, <2>6 DEF i
<1>7. /\ q \in TwoWords /\ r \in TwoWords /\ Value(q) = (n % p) * u /\ Value(r) = n \div p
      /\ Value(q) \div u = n % p
  <2> DEFINE i == n * u
             j == n \div p
  <2>1. i \in Int /\ j \in 0 .. Size - 1 /\ j \in Int BY <1>6
  <2> HIDE DEF i, j
  <2>2. Stored(i) \in TwoWords /\ Value(Stored(i)) = i % Size BY <2>1, ValueStored
  <2>3. Stored(j) \in TwoWords /\ Value(Stored(j)) = j % Size BY <2>1, ValueStored
  <2>4. j % Size = j BY <1>1, <2>1
  <2>5. (n * u) % Size = (n % p) * u /\ ((n % p) * u) \div u = n % p
    <3>1. n \in Int BY <1>2
    <3>2. (n * u) % (u * p) = (n % p) * u /\ ((n % p) * u) \div u = n % p
      BY <1>3, <3>1, KeptBelow
    <3> QED BY <1>3, <3>2
  <2> QED BY <2>2, <2>3, <2>4, <2>5 DEF i, j
<1>8. t \in Turns
  <2>1. sr \in Nat OBVIOUS
  <2> HIDE DEF q, r
  <2> QED BY <1>7, <2>1 DEF Turns, TwoWords
<1>9. t.q = q /\ t.r = r /\ t.d = b /\ t.sr = sr /\ t.carry = 0 OBVIOUS
<1> HIDE DEF t, q, r
<1>10. InDivision(t)
  <2>1. sr <= 2 * WordBits BY <1>1
  <2>2. d <= Top \/ (sr = 1 /\ Value(r) < Top /\ 2 * Value(r) >= Top)
    <3>1. CASE d <= Top BY <3>1
    <3>2. CASE sr = 1 /\ n >= Top
      <4>1. PowerOfTwo[0 + 1] = 2 * PowerOfTwo[0] /\ PowerOfTwo[0] = 1 BY PowersOfTwo
      <4>2. p = 2 BY <3>2, <4>1 DEF p
      <4>3. Value(r) = n \div 2 BY <1>7, <4>2
      <4>4. n \div 2 < Top /\ 2 * (n \div 2) >= Top BY <1>1, <1>2, <3>2
      <4> QED BY <3>2, <4>3, <4>4
    <3> QED BY <3>1, <3>2 DEF n, d
  <2>3. Value(r) < d BY <1>6, <1>7
  <2> QED BY <1>9, <2>1, <2>2, <2>3 DEF InDivision, d
<1>11. Dividing(t) = n
  <2>1. Dividing(t) = Value(r) * p + Value(q) \div u BY <1>9 DEF Dividing, p, u
  <2>2. Dividing(t) = (n \div p) * p + (n % p) BY <1>7, <2>1
  <2>3. n \in Int BY <1>2
  <2> QED BY <1>3, <2>2, <2>3, Division
<1>12. ShiftSubtract[t] = Results(Stored((2 * Value(q) + 0) * p + n \div d), Stored(n % d))
  <2>1. sr \in Nat OBVIOUS
  <2>2. ShiftSubtract[t] =
          Results(Stored((2 * Value(t.q) + t.carry) * PowerOfTwo[sr] + Dividing(t) \div Value(t.d)),
                  Stored(Dividing(t) % Value(t.d)))
    BY <1>8, <1>9, <1>10, <2>1, LoopDivides
  <2> QED BY <1>9, <1>11, <2>2 DEF p, d
<1>13. Stored((2 * Value(q) + 0) * p + n \div d) = Stored(n \div d)
  <2> DEFINE k == n % p
             g == n \div d
  <2>1. k \in Int /\ g \in Int
    <3>1. n \in Int /\ d \in Nat \ {0}
      <4>1. d # 0
        <5>1. n \div p >= 0 BY <1>6
        <5> QED BY <1>6, <5>1
      <4> QED BY <1>2, <4>1
    <3> QED BY <1>3, <3>1
  <2> HIDE DEF k, g
  <2>2. Value(q) = k * u BY <1>7 DEF k
  <2>3. (2 * Value(q) + 0) * p + g = g + (2 * k) * Size
    <3>1. (2 * (k * u) + 0) * p = (2 * k) * (u * p) BY <1>3, <2>1
    <3>2. (2 * k) * Size \in Int BY <1>1, <2>1
    <3> QED BY <1>3, <2>1, <2>2, <3>1, <3>2
  <2>4. 2 * k \in Int BY <2>1
  <2>5. Stored(g + (2 * k) * Size) = Stored(g) BY <2>1, <2>4, StoredModulo
  <2> QED BY <2>3, <2>5 DEF g
<1> QED BY <1>5, <1>12, <1>13 DEF n, d

\* Counting the zeros before the first bit finds the powers of two that a word is between.
LEMMA LeadingZeros ==
  ASSUME NEW w \in 1 .. Base - 1
  PROVE  /\ gp_leading_zeros_u64(w) \in 0 .. WordBits - 1
         /\ PowerOfTwo[WordBits - 1 - gp_leading_zeros_u64(w)] <= w
         /\ w < PowerOfTwo[WordBits - gp_leading_zeros_u64(w)]
<1> DEFINE T == {k \in Nat : w < PowerOfTwo[k]}
           Is(n) == PowerOfTwo[WordBits - 1 - n] <= w /\ w < PowerOfTwo[WordBits - n]
<1>1. WordBits \in Nat \ {0} /\ Base \in Nat BY WordBitsAssumption, Bases
<1>2. WordBits \in T BY <1>1 DEF Base
<1>3. PICK m \in T : \A k \in T : m <= k
  <2>1. T \subseteq Nat /\ T # {} BY <1>2
  <2> HIDE DEF T
  <2> QED BY <2>1, Least
<1>4. m <= WordBits /\ m \in Nat BY <1>2, <1>3
<1>5. m # 0
  <2>1. PowerOfTwo[0] = 1 BY PowersOfTwo
  <2>2. m = 0 => w < 1 BY <1>3, <2>1
  <2> QED BY <1>1, <2>2
<1>6. m - 1 \notin T
  <2>1. ~ (m <= m - 1) BY <1>4
  <2> QED BY <1>3, <2>1
<1>7. PowerOfTwo[m - 1] <= w
  <2>1. m - 1 \in Nat BY <1>4, <1>5
  <2>2. ~ (w < PowerOfTwo[m - 1]) BY <1>6, <2>1
  <2>3. PowerOfTwo[m - 1] \in Nat BY <2>1, Positive
  <2> QED BY <1>1, <2>2, <2>3
<1>8. WordBits - m \in 0 .. WordBits - 1 BY <1>1, <1>4, <1>5
<1>9. Is(WordBits - m)
  <2>1. WordBits - 1 - (WordBits - m) = m - 1 /\ WordBits - (WordBits - m) = m BY <1>1, <1>4
  <2>2. w < PowerOfTwo[m] BY <1>3
  <2> QED BY <1>7, <2>1, <2>2
<1>10. gp_leading_zeros_u64(w) = CHOOSE n \in 0 .. WordBits - 1 : Is(n) BY DEF gp_leading_zeros_u64
<1> HIDE DEF Is
<1>11. gp_leading_zeros_u64(w) \in 0 .. WordBits - 1 /\ Is(gp_leading_zeros_u64(w))
  BY <1>8, <1>9, <1>10
<1> QED BY <1>11 DEF Is

\* Powers of two divide the larger ones and no smaller one.
LEMMA PowersDivide ==
  ASSUME NEW k \in Nat, NEW n \in Nat
  PROVE  PowerOfTwo[k] % PowerOfTwo[n] = 0 <=> n <= k
<1>1. PowerOfTwo[n] \in Nat \ {0} /\ PowerOfTwo[k] \in Nat \ {0} BY Positive
<1>2. CASE n <= k
  <2>1. k - n \in Nat /\ (k - n) + n = k BY <1>2
  <2>2. PowerOfTwo[k] = PowerOfTwo[k - n] * PowerOfTwo[n] /\ PowerOfTwo[k - n] \in Nat
    BY <2>1, PowerOfSum, Positive
  <2> DEFINE p == PowerOfTwo[k - n]
             q == PowerOfTwo[n]
  <2>3. p \in Int /\ q \in Nat \ {0} /\ 0 \in 0 .. q - 1 /\ PowerOfTwo[k] = p * q + 0 BY <1>1, <2>2
  <2> HIDE DEF p, q
  <2>4. (p * q + 0) % q = 0 BY <2>3, Quotients
  <2> QED BY <1>2, <2>3, <2>4 DEF q
<1>3. CASE ~ (n <= k)
  <2>1. k + 1 \in Nat /\ k + 1 <= n BY <1>3
  <2>2. PowerOfTwo[k + 1] <= PowerOfTwo[n] /\ PowerOfTwo[k + 1] = 2 * PowerOfTwo[k]
    BY <2>1, PowersIncrease, PowersOfTwo
  <2> DEFINE p == PowerOfTwo[k]
             q == PowerOfTwo[n]
  <2>3. p \in 0 .. q - 1 /\ q \in Nat \ {0} /\ p # 0 BY <1>1, <2>2
  <2> HIDE DEF p, q
  <2>4. p % q = p BY <2>3
  <2> QED BY <1>3, <2>3, <2>4 DEF p, q
<1> QED BY <1>2, <1>3

\* Counting the zeros after the last bit of a power of two finds its exponent.
LEMMA TrailingZeros ==
  ASSUME NEW k \in 0 .. WordBits - 1
  PROVE  gp_trailing_zeros_u64(PowerOfTwo[k]) = k
<1> DEFINE Is(n) == PowerOfTwo[k] % PowerOfTwo[n] = 0 /\ PowerOfTwo[k] % PowerOfTwo[n + 1] # 0
<1>1. WordBits \in Nat BY WordBitsAssumption
<1>2. ASSUME NEW n \in 0 .. WordBits - 1 PROVE Is(n) <=> n = k
  <2>1. n \in Nat /\ n + 1 \in Nat /\ k \in Nat BY <1>1
  <2>2. Is(n) <=> n <= k /\ ~ (n + 1 <= k) BY <2>1, PowersDivide
  <2> HIDE DEF Is
  <2> QED BY <2>1, <2>2
<1>3. gp_trailing_zeros_u64(PowerOfTwo[k]) = CHOOSE n \in 0 .. WordBits - 1 : Is(n)
  BY DEF gp_trailing_zeros_u64
<1> HIDE DEF Is
<1>4. (CHOOSE n \in 0 .. WordBits - 1 : Is(n)) = k BY <1>2
<1> QED BY <1>3, <1>4

\* A word that the code takes for a power of two is one.
LEMMA OneBitOfWord ==
  ASSUME NEW w \in 1 .. Base - 1, PowerOf2(w)
  PROVE  \E k \in 0 .. WordBits - 1 : w = PowerOfTwo[k]
<1>1. WordBits \in Nat /\ Base \in Nat BY WordBitsAssumption, Bases
<1>2. w \in Nat \ {0} BY <1>1
<1>3. PICK k \in Nat : w = PowerOfTwo[k] BY <1>2, OneBit
<1>4. PowerOfTwo[k] < PowerOfTwo[WordBits] BY <1>1, <1>3 DEF Base
<1>5. k < WordBits BY <1>1, <1>4, PowersReflectOrder
<1> QED BY <1>1, <1>3, <1>5

\* The counts of zeros tell how many bits the quotient of two numbers with high words may have.
LEMMA BitsApart ==
  ASSUME NEW a \in TwoWords, NEW b \in TwoWords, Hi(a) # 0, Hi(b) # 0,
         NEW i \in Int, i = gp_leading_zeros_u64(Hi(b)) - gp_leading_zeros_u64(Hi(a))
  PROVE  /\ i < 0 => Value(a) < Value(b)
         /\ i >= 0 => /\ Value(a) < PowerOfTwo[i + 1] * Value(b)
                      /\ Value(b) <= Top \/ (i = 0 /\ Value(a) >= Top)
         /\ i \in - (WordBits - 1) .. WordBits - 1
         /\ i = WordBits - 1 => Hi(b) = 1
<1> DEFINE g == Hi(a)
           h == Hi(b)
           l == Lo(a)
           m == Lo(b)
           cn == gp_leading_zeros_u64(g)
           cd == gp_leading_zeros_u64(h)
           q == PowerOfTwo[WordBits - 1]
<1>1. Base \in Nat \ {0} /\ WordBits \in Nat \ {0} BY Bases, WordBitsAssumption
<1>2. /\ g \in 1 .. Base - 1 /\ l \in 0 .. Base - 1 /\ Value(a) = g * Base + l
      /\ h \in 1 .. Base - 1 /\ m \in 0 .. Base - 1 /\ Value(b) = h * Base + m
  <2>1. /\ g \in 0 .. Base - 1 /\ l \in 0 .. Base - 1 /\ Value(a) = g * Base + l
        /\ h \in 0 .. Base - 1 /\ m \in 0 .. Base - 1 /\ Value(b) = h * Base + m
        /\ g # 0 /\ h # 0 BY Parts
  <2> HIDE DEF g, h, l, m, Base
  <2> QED BY <1>1, <2>1
<1>3. /\ cn \in 0 .. WordBits - 1 /\ PowerOfTwo[WordBits - 1 - cn] <= g /\ g < PowerOfTwo[WordBits - cn]
      /\ cd \in 0 .. WordBits - 1 /\ PowerOfTwo[WordBits - 1 - cd] <= h /\ h < PowerOfTwo[WordBits - cd]
  BY <1>2, LeadingZeros
<1>4. i = cd - cn OBVIOUS
<1>5. q \in Nat \ {0} /\ Base = 2 * q /\ Top = q * Base
  <2>1. WordBits - 1 \in Nat /\ (WordBits - 1) + 1 = WordBits /\ (WordBits - 1) + WordBits = 2 * WordBits - 1
    BY <1>1
  <2>2. Base = 2 * q BY <2>1, PowersOfTwo DEF Base
  <2>3. Top = q * PowerOfTwo[WordBits] BY <1>1, <2>1, PowerOfSum DEF Top
  <2> QED BY <2>1, <2>2, <2>3, Positive DEF Base
<1> HIDE DEF g, h, l, m, cn, cd, q, Base
<1>6. i \in - (WordBits - 1) .. WordBits - 1 BY <1>1, <1>3, <1>4
<1>7. ASSUME NEW k \in Nat PROVE PowerOfTwo[k] \in Nat \ {0} BY Positive
<1>8. WordBits - 1 - cd \in Nat /\ WordBits - cd \in Nat /\ WordBits - cn \in Nat /\ WordBits - 1 - cn \in Nat
  BY <1>1, <1>3
<1>9. g * Base \in Int /\ h * Base \in Int BY <1>1, <1>2
<1>10. ASSUME i < 0 PROVE Value(a) < Value(b)
  <2>1. WordBits - cn <= WordBits - 1 - cd BY <1>1, <1>3, <1>4, <1>10
  <2>2. PowerOfTwo[WordBits - cn] <= PowerOfTwo[WordBits - 1 - cd] BY <1>8, <2>1, PowersIncrease
  <2>3. PowerOfTwo[WordBits - cn] \in Nat /\ PowerOfTwo[WordBits - 1 - cd] \in Nat BY <1>7, <1>8
  <2>4. g < h BY <1>2, <1>3, <2>2, <2>3
  <2>5. g \in Int /\ h \in Int BY <1>2
  <2>6. g * Base + l < h * Base + m BY <1>2, <2>4, <2>5, PairOrder
  <2> QED BY <1>2, <2>6
<1>11. ASSUME i >= 0 PROVE Value(a) < PowerOfTwo[i + 1] * Value(b)
  <2> DEFINE p == PowerOfTwo[i + 1]
             s == PowerOfTwo[WordBits - 1 - cd]
  <2>1. i + 1 \in Nat /\ (i + 1) + (WordBits - 1 - cd) = WordBits - cn BY <1>1, <1>3, <1>4, <1>11
  <2>2. PowerOfTwo[WordBits - cn] = p * s BY <1>8, <2>1, PowerOfSum
  <2>3. p \in Nat \ {0} /\ s \in Nat \ {0} /\ s <= h /\ g < p * s BY <1>3, <1>7, <1>8, <2>1, <2>2
  <2> HIDE DEF p, s
  <2>4. p * s <= p * h BY <1>2, <2>3, ProductOrder
  <2>5. p * s \in Int /\ p * h \in Int BY <1>2, <2>3
  <2>6. g + 1 <= p * h BY <1>2, <2>3, <2>4, <2>5
  <2>7. Base * (g + 1) <= Base * (p * h)
    <3>1. g + 1 \in Int BY <1>2
    <3> QED BY <1>1, <2>5, <2>6, <3>1, ProductOrder
  <2>8. Base * (g + 1) = g * Base + Base BY <1>1, <1>2
  <2>9. p * (h * Base + m) = Base * (p * h) + p * m /\ p * m \in Nat BY <1>1, <1>2, <2>3
  <2>10. Base * (p * h) \in Int BY <1>1, <2>5
  <2>11. g * Base + l < p * (h * Base + m) BY <1>1, <1>2, <1>9, <2>7, <2>8, <2>9, <2>10
  <2> QED BY <1>2, <2>11 DEF p
<1>12. ASSUME i >= 0 PROVE Value(b) <= Top \/ (i = 0 /\ Value(a) >= Top)
  <2>1. CASE cd = 0
    <3>1. i = 0 /\ cn = 0 BY <1>3, <1>4, <1>12, <2>1
    <3>2. WordBits - 1 - cn = WordBits - 1 BY <1>1, <3>1
    <3>3. q <= g BY <1>3, <3>2 DEF q
    <3>4. Base * q <= Base * g BY <1>1, <1>2, <1>5, <3>3, ProductOrder
    <3>5. Base * q = q * Base /\ Base * g = g * Base /\ q * Base \in Int BY <1>1, <1>2, <1>5
    <3>6. Value(a) >= Top BY <1>2, <1>5, <1>9, <3>4, <3>5
    <3> QED BY <3>1, <3>6
  <2>2. CASE cd # 0
    <3>1. WordBits - cd <= WordBits - 1 /\ WordBits - 1 \in Nat BY <1>1, <1>3, <2>2
    <3>2. PowerOfTwo[WordBits - cd] <= q BY <1>8, <3>1, PowersIncrease DEF q
    <3>3. PowerOfTwo[WordBits - cd] \in Nat BY <1>7, <1>8
    <3>4. h + 1 <= q BY <1>2, <1>3, <1>5, <3>2, <3>3
    <3>5. Base * (h + 1) <= Base * q
      <4>1. h + 1 \in Int BY <1>2
      <4> QED BY <1>1, <1>5, <3>4, <4>1, ProductOrder
    <3>6. Base * (h + 1) = h * Base + Base /\ Base * q = q * Base /\ q * Base \in Int
      BY <1>1, <1>2, <1>5
    <3>7. Value(b) <= Top BY <1>1, <1>2, <1>5, <1>9, <3>5, <3>6
    <3> QED BY <3>7
  <2> QED BY <2>1, <2>2
<1>13. ASSUME i = WordBits - 1 PROVE h = 1
  <2>1. cd = WordBits - 1 BY <1>1, <1>3, <1>4, <1>13
  <2>2. WordBits - cd = 0 + 1 BY <1>1, <2>1
  <2>3. PowerOfTwo[0 + 1] = 2 * PowerOfTwo[0] /\ PowerOfTwo[0] = 1 BY PowersOfTwo
  <2>4. h < 2 BY <1>3, <2>2, <2>3
  <2> QED BY <1>2, <2>4
<1> QED BY <1>6, <1>10, <1>11, <1>12, <1>13 DEF h

\* Where the divisor is larger, the code answers with zero and the dividend.
LEMMA NotDivided ==
  ASSUME NEW a \in TwoWords, NEW b \in TwoWords, Value(a) < Value(b)
  PROVE  Results(Zero, a) = Results(Stored(Value(a) \div Value(b)), Stored(Value(a) % Value(b)))
<1> DEFINE v == Value(a)
           w == Value(b)
<1>1. Size \in Nat BY Bases DEF Size
<1>2. v \in 0 .. Size - 1 /\ w \in 0 .. Size - 1 BY Parts
<1>3. Stored(v) = a BY StoredValue
<1>4. Zero = Stored(0)
  <2>1. 0 \in 0 .. Base - 1 BY Bases
  <2> QED BY <2>1, StoredLow DEF Zero
<1> HIDE DEF v, w
<1>5. w \in Nat \ {0} /\ v \in 0 .. w - 1 /\ 0 \in Int
  <2>1. v < w BY DEF v, w
  <2> QED BY <1>1, <1>2, <2>1
<1>6. (0 * w + v) \div w = 0 /\ (0 * w + v) % w = v BY <1>5, Quotients
<1>7. 0 * w + v = v BY <1>5
<1>8. v \div w = 0 /\ v % w = v BY <1>6, <1>7
<1> QED BY <1>3, <1>4, <1>8 DEF v, w

\* The quotient by a number without a low word is that of the high words.
LEMMA HighQuotient ==
  ASSUME NEW h \in 0 .. Base - 1, NEW l \in 0 .. Base - 1, NEW g \in 1 .. Base - 1
  PROVE  /\ h \div g \in 0 .. Base - 1 /\ h % g \in 0 .. Base - 1
         /\ Stored((h * Base + l) \div (g * Base)) = gp_uint128(0, h \div g)
         /\ Stored((h * Base + l) % (g * Base)) = gp_uint128(h % g, l)
<1> DEFINE q == h \div g
           r == h % g
           w == g * Base
<1>1. Base \in Nat \ {0} BY Bases
<1> HIDE DEF Base
<1>2. g \in Nat \ {0} /\ h \in Int /\ g \in Int /\ h \in Nat BY <1>1
<1>3. q \in Int /\ r \in 0 .. g - 1 /\ h = q * g + r BY <1>2, Division
<1>4. w \in Nat \ {0} BY <1>1, <1>2
<1>5. q >= 0 /\ q <= h BY <1>2
<1> HIDE DEF q, r
<1>6. q \in 0 .. Base - 1 /\ r \in 0 .. Base - 1 BY <1>1, <1>2, <1>3, <1>5
<1>7. h * Base + l = q * w + (r * Base + l)
  <2>1. (q * g + r) * Base + l = q * (g * Base) + (r * Base + l) BY <1>1, <1>2, <1>3
  <2> QED BY <1>3, <2>1
<1>8. r * Base + l \in 0 .. w - 1
  <2>1. r + 1 <= g /\ r + 1 \in Int BY <1>2, <1>3
  <2>2. Base * (r + 1) <= Base * g BY <1>1, <1>2, <2>1, ProductOrder
  <2>3. Base * (r + 1) = r * Base + Base /\ Base * g = w /\ r * Base \in Nat BY <1>1, <1>2, <1>3
  <2> HIDE DEF w
  <2> QED BY <1>1, <1>4, <2>2, <2>3
<1> HIDE DEF w
<1>9. (h * Base + l) \div w = q /\ (h * Base + l) % w = r * Base + l BY <1>3, <1>4, <1>7, <1>8, Quotients
<1>10. Stored(q) = gp_uint128(0, q) BY <1>6, StoredLow
<1>11. Stored(r * Base + l) = gp_uint128(r, l)
  <2>1. gp_uint128(r, l) \in TwoWords /\ Value(gp_uint128(r, l)) = r * Base + l BY <1>6, PairOf
  <2> QED BY <2>1, StoredValue
<1> QED BY <1>6, <1>9, <1>10, <1>11 DEF q, r, w

\* An unsigned holds a difference of counts that is not negative, and more than that if it is.
LEMMA UnsignedCounts ==
  ASSUME NEW i \in - (WordBits - 1) .. WordBits - 1
  PROVE  /\ i >= 0 => Unsigned(i) = i
         /\ i < 0 => Unsigned(i) > WordBits - 1
         /\ i \in Int /\ WordBits \in Nat \ {0}
<1>1. WordBits \in Nat \ {0} /\ 2 * WordBits < UnsignedSize /\ UnsignedSize \in Nat
  BY WordBitsAssumption DEF UnsignedSize
<1> QED BY <1>1 DEF Unsigned

\* Division by a number that has no low word
LEMMA ByHighAgrees ==
  ASSUME NEW a \in TwoWords, NEW b \in TwoWords, Hi(a) # 0, Hi(b) # 0, Lo(b) = 0
  PROVE  ByHigh(a, b) = Results(Stored(Value(a) \div Value(b)), Stored(Value(a) % Value(b)))
<1> DEFINE h == Hi(a)
           l == Lo(a)
           g == Hi(b)
           i == gp_leading_zeros_u64(g) - gp_leading_zeros_u64(h)
           sr == Unsigned(i)
<1>1. Base \in Nat \ {0} /\ WordBits \in Nat \ {0} BY Bases, WordBitsAssumption
<1>2. /\ h \in 1 .. Base - 1 /\ h \in 0 .. Base - 1 /\ l \in 0 .. Base - 1 /\ Value(a) = h * Base + l
      /\ g \in 1 .. Base - 1 /\ Value(b) = g * Base /\ a = << h, l >>
  <2>1. /\ h \in 0 .. Base - 1 /\ l \in 0 .. Base - 1 /\ Value(a) = h * Base + l
        /\ g \in 0 .. Base - 1 /\ Value(b) = g * Base + 0
        /\ h # 0 /\ g # 0 /\ a = << h, l >> BY Parts
  <2> HIDE DEF h, g, l, Base
  <2> QED BY <1>1, <2>1
<1>3. gp_leading_zeros_u64(g) \in Int /\ gp_leading_zeros_u64(h) \in Int BY <1>2, LeadingZeros
<1>4. i \in Int BY <1>3
<1>5. /\ i < 0 => Value(a) < Value(b)
      /\ i >= 0 => /\ Value(a) < PowerOfTwo[i + 1] * Value(b)
                   /\ Value(b) <= Top \/ (i = 0 /\ Value(a) >= Top)
      /\ i \in - (WordBits - 1) .. WordBits - 1
      /\ i = WordBits - 1 => g = 1
  BY <1>4, BitsApart
<1>6. ByHigh(a, b) =
        IF l = 0 THEN Results(gp_uint128(0, h \div g), gp_uint128(h % g, 0))
        ELSE IF PowerOf2(g)
        THEN Results(gp_uint128(0, Right(h, gp_trailing_zeros_u64(g))), gp_uint128(h & (g - 1), l))
        ELSE IF sr > WordBits - 2 THEN Results(Zero, a)
        ELSE Divide(a, b, sr + 1)
  BY DEF ByHigh
<1> HIDE DEF h, l, g, i, Base
<1>7. Results(Stored(Value(a) \div Value(b)), Stored(Value(a) % Value(b)))
        = Results(gp_uint128(0, h \div g), gp_uint128(h % g, l))
  BY <1>2, HighQuotient
<1>8. CASE l = 0 BY <1>6, <1>7, <1>8
<1>9. CASE l # 0 /\ PowerOf2(g)
  <2>1. PICK k \in 0 .. WordBits - 1 : g = PowerOfTwo[k] BY <1>2, <1>9, OneBitOfWord
  <2>2. gp_trailing_zeros_u64(g) = k BY <2>1, TrailingZeros
  <2>3. k % WordBits = k /\ k \in Nat BY <1>1, Counts
  <2>4. Right(h, k) = h \div g BY <2>1, <2>3 DEF Right
  <2>5. (h & (g - 1)) = h % g
    <3>1. h \in Nat BY <1>1, <1>2
    <3> QED BY <2>1, <2>3, <3>1, AndMask
  <2> QED BY <1>6, <1>7, <1>9, <2>2, <2>4, <2>5
<1>10. CASE l # 0 /\ ~ PowerOf2(g) /\ i < 0
  <2>1. sr > WordBits - 2
    <3>1. sr > WordBits - 1 /\ sr \in Int
      <4>1. sr = i + UnsignedSize BY <1>10 DEF Unsigned
      <4>2. UnsignedSize \in Int BY DEF UnsignedSize
      <4> QED BY <1>4, <1>5, <1>10, <4>1, <4>2, UnsignedCounts
    <3> HIDE DEF sr
    <3> QED BY <1>1, <3>1
  <2> QED BY <1>5, <1>6, <1>10, <2>1, NotDivided
<1>11. CASE l # 0 /\ ~ PowerOf2(g) /\ i >= 0
  <2>1. sr = i BY <1>5, <1>11, UnsignedCounts
  <2>2. i # WordBits - 1
    <3>1. ASSUME g = 1 PROVE PowerOf2(g)
      <4>1. PowerOfTwo[0] = 1 /\ 0 \in Nat /\ 1 \in Nat BY PowersOfTwo
      <4>2. (1 & (PowerOfTwo[0] - 1)) = 1 % PowerOfTwo[0] BY <4>1, AndMask
      <4>3. 1 % 1 = 0 OBVIOUS
      <4>4. (1 & (1 - 1)) = 0 BY <4>1, <4>2, <4>3
      <4> QED BY <3>1, <4>4 DEF PowerOf2
    <3> QED BY <1>5, <1>11, <3>1
  <2>4. i + 1 \in 1 .. 2 * WordBits - 1 /\ ~ (i > WordBits - 2)
    BY <1>1, <1>4, <1>5, <1>11, <2>2
  <2>5. Value(b) <= Top \/ (i + 1 = 1 /\ Value(a) >= Top) BY <1>4, <1>5, <1>11
  <2>6. Divide(a, b, i + 1) = Results(Stored(Value(a) \div Value(b)), Stored(Value(a) % Value(b)))
    BY <1>5, <1>11, <2>4, <2>5, DivideAgrees
  <2> QED BY <1>6, <1>11, <2>1, <2>4, <2>6
<1> QED BY <1>4, <1>8, <1>9, <1>10, <1>11

\* Division by a number with both words
LEMMA ByBothAgrees ==
  ASSUME NEW a \in TwoWords, NEW b \in TwoWords, Hi(a) # 0, Hi(b) # 0
  PROVE  ByBoth(a, b) = Results(Stored(Value(a) \div Value(b)), Stored(Value(a) % Value(b)))
<1> DEFINE i == gp_leading_zeros_u64(Hi(b)) - gp_leading_zeros_u64(Hi(a))
           sr == Unsigned(i)
<1>1. Base \in Nat \ {0} /\ WordBits \in Nat \ {0} BY Bases, WordBitsAssumption
<1>2. i \in Int
  <2>1. Hi(a) \in 0 .. Base - 1 /\ Hi(b) \in 0 .. Base - 1 BY Parts
  <2>2. Hi(a) \in 1 .. Base - 1 /\ Hi(b) \in 1 .. Base - 1 BY <1>1, <2>1
  <2> QED BY <1>1, <2>2, LeadingZeros
<1>3. /\ i < 0 => Value(a) < Value(b)
      /\ i >= 0 => /\ Value(a) < PowerOfTwo[i + 1] * Value(b)
                   /\ Value(b) <= Top \/ (i = 0 /\ Value(a) >= Top)
      /\ i \in - (WordBits - 1) .. WordBits - 1
  BY <1>2, BitsApart
<1>4. ByBoth(a, b) = IF sr > WordBits - 1 THEN Results(Zero, a) ELSE Divide(a, b, sr + 1) BY DEF ByBoth
<1> HIDE DEF i
<1>5. CASE i < 0
  <2>1. sr > WordBits - 1 BY <1>3, <1>5, UnsignedCounts
  <2> QED BY <1>3, <1>4, <1>5, <2>1, NotDivided
<1>6. CASE i >= 0
  <2>1. sr = i BY <1>3, <1>6, UnsignedCounts
  <2>2. i + 1 \in 1 .. 2 * WordBits - 1 /\ ~ (i > WordBits - 1) BY <1>1, <1>2, <1>3, <1>6
  <2>3. Value(b) <= Top \/ (i + 1 = 1 /\ Value(a) >= Top) BY <1>2, <1>3, <1>6
  <2>4. Divide(a, b, i + 1) = Results(Stored(Value(a) \div Value(b)), Stored(Value(a) % Value(b)))
    BY <1>3, <1>6, <2>2, <2>3, DivideAgrees
  <2> QED BY <1>4, <2>1, <2>2, <2>4
<1> QED BY <1>2, <1>5, <1>6

\* One is a power of two.
LEMMA OneIsPower == PowerOf2(1)
<1>1. PowerOfTwo[0] = 1 /\ 0 \in Nat /\ 1 \in Nat BY PowersOfTwo
<1>2. (1 & (PowerOfTwo[0] - 1)) = 1 % PowerOfTwo[0] BY <1>1, AndMask
<1>3. 1 % 1 = 0 OBVIOUS
<1>4. (1 & (1 - 1)) = 0 BY <1>1, <1>2, <1>3
<1> QED BY <1>4 DEF PowerOf2

\* A number is less than its high word's limit, shifted to where the word is.
LEMMA BelowHigh ==
  ASSUME NEW h \in Int, NEW l \in 0 .. Base - 1, NEW p \in Int, h < p
  PROVE  h * Base + l < p * Base
<1>1. Base \in Nat \ {0} BY Bases
<1> HIDE DEF Base
<1>2. h + 1 \in Int /\ h + 1 <= p OBVIOUS
<1>3. Base * (h + 1) <= Base * p BY <1>1, <1>2, ProductOrder
<1>4. Base * (h + 1) = h * Base + Base /\ Base * p = p * Base /\ h * Base \in Int /\ p * Base \in Int BY <1>1
<1> DEFINE u == h * Base
           w == p * Base
<1>5. u \in Int /\ w \in Int /\ u + Base <= w BY <1>3, <1>4
<1> HIDE DEF u, w
<1>6. u + l < w BY <1>1, <1>5
<1> QED BY <1>6 DEF u, w

\* By a low word that is no power of two: the bits of the quotient are counted.
LEMMA ByLongLowAgrees ==
  ASSUME NEW a \in TwoWords, NEW b \in TwoWords, Hi(a) # 0, Hi(b) = 0, Lo(b) # 0, ~ PowerOf2(Lo(b))
  PROVE  ByLow(a, b) = Results(Stored(Value(a) \div Value(b)), Stored(Value(a) % Value(b)))
<1> DEFINE h == Hi(a)
           l == Lo(a)
           w == Lo(b)
           cw == gp_leading_zeros_u64(w)
           ch == gp_leading_zeros_u64(h)
           sr == 1 + WordBits + cw - ch
           p == PowerOfTwo[WordBits - ch]
           q == PowerOfTwo[sr]
           s == PowerOfTwo[WordBits - 1 - cw]
<1>1. Base \in Nat \ {0} /\ WordBits \in Nat \ {0} /\ Base <= Top /\ Top \in Nat BY Bases, WordBitsAssumption, Tops
<1>2. /\ h \in 1 .. Base - 1 /\ l \in 0 .. Base - 1 /\ Value(a) = h * Base + l
      /\ w \in 1 .. Base - 1 /\ Value(b) = w
  <2>1. /\ h \in 0 .. Base - 1 /\ l \in 0 .. Base - 1 /\ Value(a) = h * Base + l
        /\ w \in 0 .. Base - 1 /\ Value(b) = 0 * Base + w
        /\ h # 0 /\ w # 0 BY Parts
  <2> HIDE DEF h, w, l, Base
  <2> QED BY <1>1, <2>1
<1>3. /\ cw \in 0 .. WordBits - 1 /\ s <= w /\ w < PowerOfTwo[WordBits - cw]
      /\ ch \in 0 .. WordBits - 1 /\ h < p
  BY <1>2, LeadingZeros
<1>4. ByLow(a, b) = Divide(a, b, sr) BY DEF ByLow
<1>5. ~ PowerOf2(w) OBVIOUS
<1> HIDE DEF h, l, w, cw, ch, Base
<1>6. cw # WordBits - 1
  <2>1. ASSUME cw = WordBits - 1 PROVE w = 1
    <3>1. WordBits - cw = 0 + 1 BY <1>1, <2>1
    <3>2. PowerOfTwo[0 + 1] = 2 * PowerOfTwo[0] /\ PowerOfTwo[0] = 1 BY PowersOfTwo
    <3>3. w < 2 BY <1>3, <3>1, <3>2
    <3> QED BY <1>1, <1>2, <3>3
  <2> QED BY <1>5, <2>1, OneIsPower
<1>7. sr \in 1 .. 2 * WordBits - 1 /\ sr \in Nat BY <1>1, <1>3, <1>6
<1>8. Value(b) <= Top BY <1>1, <1>2
<1>9. Value(a) < q * Value(b)
  <2>1. /\ WordBits - ch \in Nat /\ WordBits - 1 - cw \in Nat
        /\ sr + (WordBits - 1 - cw) = (WordBits - ch) + WordBits
    BY <1>1, <1>3
  <2>2. PowerOfTwo[sr + (WordBits - 1 - cw)] = q * s BY <1>7, <2>1, PowerOfSum
  <2>3. PowerOfTwo[(WordBits - ch) + WordBits] = p * Base BY <1>1, <2>1, PowerOfSum DEF Base
  <2>4. p \in Nat /\ q \in Nat \ {0} /\ s \in Nat BY <1>7, <2>1, Positive
  <2>5. q * s = p * Base BY <2>1, <2>2, <2>3
  <2> HIDE DEF p, q, s, sr
  <2>6. h * Base + l < p * Base
    <3>1. h \in Int /\ p \in Int /\ h < p BY <1>2, <1>3, <2>4
    <3> QED BY <1>2, <3>1, BelowHigh
  <2>7. q * s <= q * w
    <3>1. s \in Int /\ w \in Int /\ s <= w BY <1>2, <1>3, <2>4
    <3> QED BY <2>4, <3>1, ProductOrder
  <2>8. q * s \in Int /\ q * w \in Int /\ h * Base + l \in Int BY <1>1, <1>2, <2>4
  <2> DEFINE e == q * s
             f == q * w
             v == h * Base + l
  <2>9. v < e /\ e <= f /\ e \in Int /\ f \in Int /\ v \in Int BY <2>5, <2>6, <2>7, <2>8
  <2> HIDE DEF e, f, v
  <2>10. v < f BY <2>9
  <2> QED BY <1>2, <2>10 DEF f, v
<1>10. Divide(a, b, sr) = Results(Stored(Value(a) \div Value(b)), Stored(Value(a) % Value(b)))
  <2> HIDE DEF sr
  <2> QED BY <1>7, <1>8, <1>9, DivideAgrees
<1> QED BY <1>4, <1>10

\* By a power of two, a shift: what is below it is in the low word.
LEMMA ByPowerAgrees ==
  ASSUME NEW a \in TwoWords, NEW b \in TwoWords, Hi(a) # 0, Hi(b) = 0, Lo(b) # 0, PowerOf2(Lo(b))
  PROVE  ByLow(a, b) = Results(Stored(Value(a) \div Value(b)), Stored(Value(a) % Value(b)))
<1> DEFINE h == Hi(a)
           l == Lo(a)
           w == Lo(b)
           v == Value(a)
<1>1. Base \in Nat \ {0} /\ WordBits \in Nat \ {0} BY Bases, WordBitsAssumption
<1>2. /\ h \in 0 .. Base - 1 /\ l \in 0 .. Base - 1 /\ v = h * Base + l
      /\ w \in 1 .. Base - 1 /\ Value(b) = w
  <2>1. /\ h \in 0 .. Base - 1 /\ l \in 0 .. Base - 1 /\ v = h * Base + l
        /\ w \in 0 .. Base - 1 /\ Value(b) = 0 * Base + w /\ w # 0 BY Parts
  <2> HIDE DEF h, w, l, v, Base
  <2> QED BY <1>1, <2>1
<1>3. PICK k \in 0 .. WordBits - 1 : w = PowerOfTwo[k] BY <1>2, OneBitOfWord
<1>4. gp_trailing_zeros_u64(w) = k BY <1>3, TrailingZeros
<1>5. ByLow(a, b) =
        IF w = 1 THEN Results(a, Zero)
        ELSE Results(gp_uint128(Right(h, k), Left(h, WordBits - k) | Right(l, k)),
                     gp_uint128(0, l & (w - 1)))
  BY <1>4 DEF ByLow
<1>6. Stored(v) = a BY StoredValue
<1>7. k \in Nat /\ k \in 0 .. WordBits /\ k \in 0 .. 2 * WordBits - 1 BY <1>1
<1>8. gp_uint128_shift_right(a, k) = Stored(v \div w) BY <1>3, <1>7, ShiftRightAgrees
<1>9. k # 0 => gp_uint128_shift_right(a, k) = gp_uint128(Right(h, k), Right(l, k) | Left(h, WordBits - k))
  BY <1>1 DEF gp_uint128_shift_right
<1> HIDE DEF h, l, w, v
<1>10. CASE w = 1
  <2>1. v \in Int BY <1>1, <1>2
  <2>2. v \div 1 = v /\ v % 1 = 0 BY <2>1
  <2>3. Zero = Stored(0)
    <3>1. 0 \in 0 .. Base - 1 BY Bases
    <3> QED BY <3>1, StoredLow DEF Zero
  <2> QED BY <1>2, <1>5, <1>6, <1>10, <2>2, <2>3 DEF v
<1>11. CASE w # 1
  <2>1. k # 0 BY <1>3, <1>11, PowersOfTwo
  <2>2. (Left(h, WordBits - k) | Right(l, k)) = (Right(l, k) | Left(h, WordBits - k))
    <3>1. Left(h, WordBits - k) \in Nat /\ Right(l, k) \in Nat
      <4>1. k % WordBits \in Nat /\ (WordBits - k) % WordBits \in Nat BY <1>1, <1>7
      <4>2. PowerOfTwo[k % WordBits] \in Nat \ {0} /\ PowerOfTwo[(WordBits - k) % WordBits] \in Nat \ {0}
        BY <4>1, Positive
      <4> DEFINE s == PowerOfTwo[k % WordBits]
                 t == PowerOfTwo[(WordBits - k) % WordBits]
      <4>3. s \in Nat \ {0} /\ t \in Nat \ {0} BY <4>2
      <4> HIDE DEF s, t, Base
      <4>4. h \in Nat /\ l \in Nat BY <1>1, <1>2
      <4>5. h * t \in Int BY <4>3, <4>4
      <4>6. (h * t) % Base \in Nat BY <1>1, <4>5
      <4>7. l \div s \in Nat BY <4>3, <4>4
      <4> QED BY <4>6, <4>7 DEF s, t, Left, Right
    <3> DEFINE c == Left(h, WordBits - k)
               d == Right(l, k)
    <3>2. c \in Nat /\ d \in Nat BY <3>1
    <3> HIDE DEF c, d
    <3>3. (c & d) = (d & c) /\ (c & d) \in Nat BY <3>2, AndCommutes, AndNumber
    <3>4. c + d - (c & d) = d + c - (d & c) BY <3>2, <3>3
    <3>5. (c | d) = (d | c) BY <3>4 DEF |
    <3> QED BY <3>5 DEF c, d
  <2>3. (l & (w - 1)) = l % w
    <3>1. l \in Nat BY <1>1, <1>2
    <3> QED BY <1>3, <1>7, <3>1, AndMask
  <2>4. v % w = l % w /\ l % w \in 0 .. Base - 1
    <3> DEFINE t == PowerOfTwo[WordBits - k]
               r == l % w
               q == l \div w
    <3>1. w * t = Base /\ t \in Nat \ {0} /\ w \in Nat \ {0} BY <1>3, <1>7, Factors
    <3> HIDE DEF Base, t
    <3>2. l \in Int /\ h \in Int BY <1>1, <1>2
    <3>3. q \in Int /\ r \in 0 .. w - 1 /\ l = q * w + r BY <3>1, <3>2, Division
    <3> HIDE DEF q, r
    <3>4. h * (w * t) + (q * w + r) = (h * t + q) * w + r BY <3>1, <3>2, <3>3
    <3>5. v = (h * t + q) * w + r BY <1>2, <3>1, <3>3, <3>4
    <3>6. h * t + q \in Int BY <3>1, <3>2, <3>3
    <3> DEFINE e == h * t + q
    <3>7. e \in Int /\ v = e * w + r BY <3>5, <3>6
    <3> HIDE DEF e
    <3>8. (e * w + r) % w = r BY <3>1, <3>3, <3>7, Quotients
    <3>9. r \in 0 .. Base - 1 BY <1>1, <1>2, <3>3
    <3> QED BY <3>7, <3>8, <3>9 DEF r
  <2>5. Stored(l % w) = gp_uint128(0, l % w) BY <2>4, StoredLow
  <2>6. ByLow(a, b) = Results(Stored(v \div w), Stored(v % w))
    BY <1>5, <1>8, <1>9, <1>11, <2>1, <2>2, <2>3, <2>4, <2>5
  <2> QED BY <1>2, <2>6 DEF v
<1> QED BY <1>10, <1>11

\* gp_uint128_divmod finds the quotient and the remainder in each of its cases.
LEMMA DivmodAgrees ==
  ASSUME NEW a \in TwoWords, NEW b \in TwoWords, Value(b) # 0
  PROVE  gp_uint128_divmod(a, b) = Results(Stored(Value(a) \div Value(b)), Stored(Value(a) % Value(b)))
<1> DEFINE h == Hi(a)
           l == Lo(a)
           g == Hi(b)
           m == Lo(b)
<1>1. Base \in Nat \ {0} BY Bases
<1>2. /\ h \in 0 .. Base - 1 /\ l \in 0 .. Base - 1 /\ Value(a) = h * Base + l
      /\ g \in 0 .. Base - 1 /\ m \in 0 .. Base - 1 /\ Value(b) = g * Base + m
      /\ a = << h, l >> BY Parts
<1>3. g # 0 \/ m # 0
  <2> HIDE DEF g, m, Base
  <2>1. ASSUME g = 0, m = 0 PROVE FALSE
    <3>1. 0 * Base + 0 = 0 BY <1>1
    <3> QED BY <1>2, <2>1, <3>1
  <2> QED BY <2>1
<1>4. gp_uint128_divmod(a, b) =
        IF h = 0 /\ g = 0 THEN Results(gp_uint128(0, l \div m), gp_uint128(0, l % m))
        ELSE IF h = 0 THEN Results(Zero, gp_uint128(0, l))
        ELSE IF m = 0 THEN ByHigh(a, b)
        ELSE IF g = 0 THEN ByLow(a, b)
        ELSE ByBoth(a, b)
  BY DEF gp_uint128_divmod
<1>5. CASE h = 0 /\ g = 0
  <2> HIDE DEF h, l, g, m, Base
  <2>1. m \in Nat \ {0} /\ l \in Nat BY <1>1, <1>2, <1>3, <1>5
  <2>2. Value(a) = l /\ Value(b) = m BY <1>1, <1>2, <1>5
  <2>3. l \div m \in 0 .. Base - 1
    <3>1. l \div m \in Nat /\ l \div m <= l BY <2>1
    <3> DEFINE q == l \div m
    <3>2. q \in Nat /\ q <= l BY <3>1
    <3> HIDE DEF q
    <3>3. q \in 0 .. Base - 1 BY <1>1, <1>2, <3>2
    <3> QED BY <3>3 DEF q
  <2>4. l % m \in 0 .. Base - 1 BY <1>1, <1>2, <2>1
  <2>5. Stored(l \div m) = gp_uint128(0, l \div m) /\ Stored(l % m) = gp_uint128(0, l % m)
    BY <2>3, <2>4, StoredLow
  <2> QED BY <1>4, <1>5, <2>2, <2>5
<1>6. CASE h = 0 /\ g # 0
  <2>1. gp_uint128(0, l) = a
    <3>1. gp_uint128(h, l) = a BY StoredValue
    <3> QED BY <1>6, <3>1
  <2>2. Value(a) < Value(b)
    <3> HIDE DEF h, l, g, m, Base
    <3>1. h \in Int /\ g \in Int /\ h < g BY <1>1, <1>2, <1>6
    <3>2. h * Base + l < g * Base + m BY <1>2, <3>1, PairOrder
    <3> QED BY <1>2, <3>2
  <2> HIDE DEF h, l, g, m
  <2> QED BY <1>4, <1>6, <2>1, <2>2, NotDivided
<1>7. CASE h # 0 /\ m = 0 BY <1>3, <1>4, <1>7, ByHighAgrees
<1>8. CASE h # 0 /\ m # 0 /\ g = 0
  <2>1. CASE PowerOf2(Lo(b)) BY <1>4, <1>8, <2>1, ByPowerAgrees
  <2>2. CASE ~ PowerOf2(Lo(b)) BY <1>4, <1>8, <2>2, ByLongLowAgrees
  <2> QED BY <2>1, <2>2
<1>9. CASE h # 0 /\ m # 0 /\ g # 0 BY <1>4, <1>9, ByBothAgrees
<1> QED BY <1>5, <1>6, <1>7, <1>8, <1>9

\* A sign negates, and none does not.
LEMMA WithSigns ==
  ASSUME NEW a \in TwoWords
  PROVE  WithSign(a, Stored(-1)) = Stored(- Value(a)) /\ WithSign(a, Stored(0)) = a
<1> DEFINE v == Value(a)
           none == Value(Stored(0))
           all == Value(Stored(-1))
<1>1. Size \in Nat BY Bases DEF Size
<1>2. v \in Int
  <2>1. v \in 0 .. Size - 1 BY Parts
  <2> QED BY <1>1, <2>1
<1>3. Stored(-1) \in TwoWords /\ Stored(0) \in TwoWords /\ Stored(v) = a BY AllOrNone, StoredValue
<1>4. none \in Int /\ all \in Int
  <2>1. none \in 0 .. Size - 1 /\ all \in 0 .. Size - 1 BY <1>3, Parts
  <2> QED BY <1>1, <2>1
<1>5. WithSign(a, Stored(0)) = a
  <2>1. gp_uint128_sub(a, Stored(0)) = Stored(v - none) BY <1>3, SubAgrees
  <2>2. 0 \in Int OBVIOUS
  <2>3. Stored(v - none) = Stored(v - 0)
    <3> HIDE DEF v
    <3> QED BY <1>2, <2>2, StoredAgain
  <2>4. v - 0 = v BY <1>2
  <2> QED BY <1>3, <2>1, <2>3, <2>4, Masked DEF WithSign
<1>6. WithSign(a, Stored(-1)) = Stored(- v)
  <2>1. gp_uint128_xor(a, Stored(-1)) = Stored(-1 - v) BY Masked, NotAgrees
  <2>2. -1 - v \in Int /\ -1 \in Int BY <1>2
  <2>3. Stored(-1 - v) \in TwoWords BY <2>2, ValueStored
  <2>4. gp_uint128_sub(Stored(-1 - v), Stored(-1)) = Stored(Value(Stored(-1 - v)) - all)
    BY <1>3, <2>3, SubAgrees
  <2> DEFINE u == -1 - v
  <2>5. u \in Int BY <2>2
  <2> HIDE DEF v, all
  <2>6. Stored(Value(Stored(u)) - all) = Stored(u - all)
    <3> HIDE DEF u
    <3> QED BY <1>4, <2>5, StoredAgain
  <2>7. Stored(u - all) = Stored(u - (-1))
    <3> HIDE DEF u
    <3> QED BY <2>2, <2>5, StoredAgain DEF all
  <2>8. u - (-1) = - v BY <1>2
  <2> QED BY <2>1, <2>4, <2>6, <2>7, <2>8 DEF WithSign
<1> QED BY <1>5, <1>6

\* The sign of an integer, and what it is without it
LEMMA WithoutSign ==
  ASSUME NEW a \in TwoWords
  PROVE  /\ SignedValue(a) < 0 => Sign(a) = Stored(-1)
         /\ SignedValue(a) >= 0 => Sign(a) = Stored(0)
         /\ SignedValue(a) \in Int /\ Abs(SignedValue(a)) \in Nat
         /\ WithSign(a, Sign(a)) \in TwoWords
         /\ Value(WithSign(a, Sign(a))) = Abs(SignedValue(a))
<1> DEFINE v == Value(a)
           s == SignedValue(a)
           m == WithSign(a, Sign(a))
<1>1. Size \in Nat \ {0} /\ Size = 2 * Top /\ Top \in Nat \ {0} BY Tops
<1>2. v \in 0 .. Size - 1 BY Parts
<1>3. s \in - Top .. Top - 1 /\ (s = v \/ s = v - Size) /\ (s < 0 <=> v >= Top) BY SignedRange
<1>4. (s < 0 => Sign(a) = Stored(-1)) /\ (~ (s < 0) => Sign(a) = Stored(0)) BY SignMask DEF Sign
<1>5. Stored(v) = a BY StoredValue
<1>6. WithSign(a, Stored(-1)) = Stored(- v) /\ WithSign(a, Stored(0)) = a BY WithSigns
<1> HIDE DEF v, s
<1>7. s \in Int /\ Abs(s) \in Nat /\ v \in Int BY <1>1, <1>2, <1>3 DEF Abs
<1>8. ASSUME s < 0 PROVE m \in TwoWords /\ Value(m) = Abs(s)
  <2>1. s = v - Size BY <1>1, <1>2, <1>3, <1>8
  <2>2. Abs(s) = - v + 1 * Size BY <1>1, <1>7, <1>8, <2>1 DEF Abs
  <2>3. - v \in Int /\ 1 \in Int BY <1>7
  <2>4. Stored(- v + 1 * Size) = Stored(- v) BY <2>3, StoredModulo
  <2>5. Value(Stored(Abs(s))) = Abs(s) % Size /\ Stored(Abs(s)) \in TwoWords BY <1>7, ValueStored
  <2>6. Abs(s) \in 0 .. Size - 1 BY <1>1, <1>3, <1>7, <1>8 DEF Abs
  <2>7. Abs(s) % Size = Abs(s) BY <1>1, <2>6
  <2> QED BY <1>4, <1>6, <1>8, <2>2, <2>4, <2>5, <2>7 DEF m
<1>9. ASSUME s >= 0 PROVE m \in TwoWords /\ Value(m) = Abs(s)
  <2>1. Abs(s) = v BY <1>1, <1>2, <1>3, <1>7, <1>9 DEF Abs
  <2>2. WithSign(a, Sign(a)) = a BY <1>4, <1>6, <1>7, <1>9
  <2> QED BY <1>7, <2>1, <2>2 DEF m, v
<1> HIDE DEF m
<1>11. s >= 0 => Sign(a) = Stored(0) BY <1>4, <1>7
<1>10. m \in TwoWords /\ Value(m) = Abs(s) BY <1>7, <1>8, <1>9
<1> QED BY <1>4, <1>7, <1>10, <1>11 DEF s, m

\* A number given a sign
LEMMA SignGiven ==
  ASSUME NEW u \in Int
  PROVE  /\ WithSign(Stored(u), Stored(-1)) = Stored(- u)
         /\ WithSign(Stored(u), Stored(0)) = Stored(u)
<1> DEFINE a == Stored(u)
           v == Value(a)
<1>1. a \in TwoWords BY ValueStored
<1>2. WithSign(a, Stored(-1)) = Stored(- v) /\ WithSign(a, Stored(0)) = a BY <1>1, WithSigns
<1>3. 0 \in Int OBVIOUS
<1>4. Stored(0 - v) = Stored(0 - u) BY <1>3, StoredAgain
<1>5. v \in Int
  <2>1. Size \in Nat BY Bases DEF Size
  <2>2. v \in 0 .. Size - 1 BY <1>1, Parts
  <2> QED BY <2>1, <2>2
<1> HIDE DEF a, v
<1>6. 0 - v = - v /\ 0 - u = - u BY <1>5
<1> QED BY <1>2, <1>4, <1>6 DEF a

\* The sign of a quotient is that of one number or of the other.
LEMMA SignsDiffer ==
  /\ gp_uint128_xor(Stored(0), Stored(0)) = Stored(0)
  /\ gp_uint128_xor(Stored(-1), Stored(0)) = Stored(-1)
  /\ gp_uint128_xor(Stored(0), Stored(-1)) = Stored(-1)
  /\ gp_uint128_xor(Stored(-1), Stored(-1)) = Stored(0)
<1>1. Stored(-1) \in TwoWords /\ Stored(0) \in TwoWords /\ 0 \in Int /\ -1 \in Int BY AllOrNone
<1>2. gp_uint128_xor(Stored(0), Stored(-1)) = Stored(-1 - Value(Stored(0)))
  BY <1>1, Masked, NotAgrees
<1>3. gp_uint128_xor(Stored(-1), Stored(-1)) = Stored(-1 - Value(Stored(-1)))
  BY <1>1, Masked, NotAgrees
<1>4. Stored(-1 - Value(Stored(0))) = Stored(-1 - 0) BY <1>1, StoredAgain
<1>5. Stored(-1 - Value(Stored(-1))) = Stored(-1 - (-1)) BY <1>1, StoredAgain
<1>6. -1 - 0 = -1 /\ -1 - (-1) = 0 OBVIOUS
<1> QED BY <1>1, <1>2, <1>3, <1>4, <1>5, <1>6, Masked

\* What is the quotient and the remainder of numbers whose signs are apart
LEMMA SignedQuotients ==
  ASSUME NEW s \in Int, NEW t \in Int, NEW m \in Nat, NEW n \in Nat, NEW q \in Nat, NEW r \in Nat,
         m = Abs(s), n = Abs(t), q = Abs(s) \div Abs(t), m = q * n + r
  PROVE  /\ Quotient(s, t) = IF (s < 0 /\ t >= 0) \/ (s >= 0 /\ t < 0) THEN - q ELSE q
         /\ s - t * Quotient(s, t) = IF s < 0 THEN - r ELSE r
<1> DEFINE p == q * n
<1>1. m = p + r /\ p \in Int OBVIOUS
<1> HIDE DEF p
<1>2. CASE s < 0 /\ t < 0
  <2>1. SignOf(s) = -1 /\ SignOf(t) = -1 /\ s = - m /\ t = - n BY <1>2 DEF SignOf, Abs
  <2>2. Quotient(s, t) = (-1) * (-1) * q BY <2>1 DEF Quotient
  <2>3. (-1) * (-1) * q = q OBVIOUS
  <2>4. Quotient(s, t) = q BY <2>2, <2>3
  <2>5. (- n) * (q) = - p BY DEF p
  <2>6. t * Quotient(s, t) = - p BY <2>1, <2>4, <2>5
  <2>7. (- m) - (- p) = - r BY <1>1
  <2>8. s - t * Quotient(s, t) = - r BY <2>1, <2>6, <2>7
  <2>9. s < 0 /\ ~ ((s < 0 /\ t >= 0) \/ (s >= 0 /\ t < 0)) BY <1>2
  <2> QED BY <2>4, <2>8, <2>9, Zenon
<1>3. CASE s < 0 /\ t >= 0
  <2>1. SignOf(s) = -1 /\ SignOf(t) = 1 /\ s = - m /\ t = n BY <1>3 DEF SignOf, Abs
  <2>2. Quotient(s, t) = (-1) * (1) * q BY <2>1 DEF Quotient
  <2>3. (-1) * (1) * q = - q OBVIOUS
  <2>4. Quotient(s, t) = - q BY <2>2, <2>3
  <2>5. (n) * (- q) = - p BY DEF p
  <2>6. t * Quotient(s, t) = - p BY <2>1, <2>4, <2>5
  <2>7. (- m) - (- p) = - r BY <1>1
  <2>8. s - t * Quotient(s, t) = - r BY <2>1, <2>6, <2>7
  <2>9. s < 0 /\ ((s < 0 /\ t >= 0) \/ (s >= 0 /\ t < 0)) BY <1>3
  <2> QED BY <2>4, <2>8, <2>9, Zenon
<1>4. CASE s >= 0 /\ t < 0
  <2>1. SignOf(s) = 1 /\ SignOf(t) = -1 /\ s = m /\ t = - n BY <1>4 DEF SignOf, Abs
  <2>2. Quotient(s, t) = (1) * (-1) * q BY <2>1 DEF Quotient
  <2>3. (1) * (-1) * q = - q OBVIOUS
  <2>4. Quotient(s, t) = - q BY <2>2, <2>3
  <2>5. (- n) * (- q) = p BY DEF p
  <2>6. t * Quotient(s, t) = p BY <2>1, <2>4, <2>5
  <2>7. (m) - (p) = r BY <1>1
  <2>8. s - t * Quotient(s, t) = r BY <2>1, <2>6, <2>7
  <2>9. ~ (s < 0) /\ ((s < 0 /\ t >= 0) \/ (s >= 0 /\ t < 0)) BY <1>4
  <2> QED BY <2>4, <2>8, <2>9, Zenon
<1>5. CASE s >= 0 /\ t >= 0
  <2>1. SignOf(s) = 1 /\ SignOf(t) = 1 /\ s = m /\ t = n BY <1>5 DEF SignOf, Abs
  <2>2. Quotient(s, t) = (1) * (1) * q BY <2>1 DEF Quotient
  <2>3. (1) * (1) * q = q OBVIOUS
  <2>4. Quotient(s, t) = q BY <2>2, <2>3
  <2>5. (n) * (q) = p BY DEF p
  <2>6. t * Quotient(s, t) = p BY <2>1, <2>4, <2>5
  <2>7. (m) - (p) = r BY <1>1
  <2>8. s - t * Quotient(s, t) = r BY <2>1, <2>6, <2>7
  <2>9. ~ (s < 0) /\ ~ ((s < 0 /\ t >= 0) \/ (s >= 0 /\ t < 0)) BY <1>5
  <2> QED BY <2>4, <2>8, <2>9, Zenon
<1> QED BY <1>2, <1>3, <1>4, <1>5

\* gp_int128_idiv and gp_int128_imod truncate as C does.
LEMMA SignedDivisionAgrees ==
  ASSUME NEW a \in TwoWords, NEW b \in TwoWords, SignedValue(b) # 0
  PROVE  /\ gp_int128_idiv(a, b) = Stored(Quotient(SignedValue(a), SignedValue(b)))
         /\ gp_int128_imod(a, b) = Stored(SignedValue(a) - SignedValue(b) * Quotient(SignedValue(a), SignedValue(b)))
<1> DEFINE s == SignedValue(a)
           t == SignedValue(b)
           m == Abs(s)
           n == Abs(t)
           q == m \div n
           r == m % n
           c == WithSign(a, Sign(a))
           d == WithSign(b, Sign(b))
<1>1. /\ s < 0 => Sign(a) = Stored(-1)
      /\ s >= 0 => Sign(a) = Stored(0)
      /\ t < 0 => Sign(b) = Stored(-1)
      /\ t >= 0 => Sign(b) = Stored(0)
  BY WithoutSign
<1>2. /\ s \in Int /\ m \in Nat /\ c \in TwoWords /\ Value(c) = m
      /\ t \in Int /\ n \in Nat /\ d \in TwoWords /\ Value(d) = n
  BY WithoutSign
<1>3. n # 0 BY <1>2 DEF Abs
<1>4. gp_uint128_divmod(c, d) = Results(Stored(q), Stored(r)) BY <1>2, <1>3, DivmodAgrees
<1>5. /\ gp_int128_idiv(a, b) = WithSign(Stored(q), gp_uint128_xor(Sign(a), Sign(b)))
      /\ gp_int128_imod(a, b) = WithSign(Stored(r), Sign(a))
  BY <1>4 DEF gp_int128_idiv, gp_int128_imod, Results
<1> HIDE DEF s, t, m, n, c, d
<1>6. q \in Nat /\ r \in Nat /\ m = q * n + r
  <2>1. m \in Int /\ n \in Nat \ {0} BY <1>2, <1>3
  <2>2. q \in Int /\ r \in 0 .. n - 1 /\ m = q * n + r BY <2>1, Division
  <2>3. q >= 0 BY <1>2, <2>1
  <2> QED BY <1>2, <2>2, <2>3
<1>7. /\ Quotient(s, t) = IF (s < 0 /\ t >= 0) \/ (s >= 0 /\ t < 0) THEN - q ELSE q
      /\ s - t * Quotient(s, t) = IF s < 0 THEN - r ELSE r
  <2>1. m = Abs(s) /\ n = Abs(t) BY DEF m, n
  <2>2. q = Abs(s) \div Abs(t) BY <2>1
  <2> HIDE DEF q, r
  <2> QED BY <1>2, <1>6, <2>1, <2>2, SignedQuotients
<1> HIDE DEF q, r
<1>8. /\ WithSign(Stored(q), Stored(-1)) = Stored(- q) /\ WithSign(Stored(q), Stored(0)) = Stored(q)
      /\ WithSign(Stored(r), Stored(-1)) = Stored(- r) /\ WithSign(Stored(r), Stored(0)) = Stored(r)
  BY <1>6, SignGiven
<1>9. gp_int128_imod(a, b) = Stored(s - t * Quotient(s, t)) BY <1>1, <1>2, <1>5, <1>7, <1>8
<1>10. gp_int128_idiv(a, b) = Stored(Quotient(s, t))
  <2>1. (s < 0 /\ ~ (s >= 0)) \/ (s >= 0 /\ ~ (s < 0)) BY <1>2
  <2>2. (t < 0 /\ ~ (t >= 0)) \/ (t >= 0 /\ ~ (t < 0)) BY <1>2
  <2>3. CASE s < 0 /\ t < 0 BY <1>1, <1>5, <1>7, <1>8, <2>1, <2>2, <2>3, SignsDiffer
  <2>4. CASE s < 0 /\ t >= 0 BY <1>1, <1>5, <1>7, <1>8, <2>1, <2>2, <2>4, SignsDiffer
  <2>5. CASE s >= 0 /\ t < 0 BY <1>1, <1>5, <1>7, <1>8, <2>1, <2>2, <2>5, SignsDiffer
  <2>6. CASE s >= 0 /\ t >= 0 BY <1>1, <1>5, <1>7, <1>8, <2>1, <2>2, <2>6, SignsDiffer
  <2> QED BY <2>1, <2>2, <2>3, <2>4, <2>5, <2>6
<1> QED BY <1>9, <1>10 DEF s, t

\* What only zero stands for
LEMMA OnlyZero ==
  ASSUME NEW a \in TwoWords, a # Zero
  PROVE  Value(a) # 0 /\ SignedValue(a) # 0
<1>1. Zero = Stored(0)
  <2>1. 0 \in 0 .. Base - 1 BY Bases
  <2> QED BY <2>1, StoredLow DEF Zero
<1>2. Stored(Value(a)) = a BY StoredValue
<1>3. Value(a) # 0 BY <1>1, <1>2
<1>4. Value(a) \in 0 .. Size - 1 /\ Size \in Nat BY Parts, Tops
<1>5. SignedValue(a) # 0 BY <1>3, <1>4 DEF SignedValue
<1> QED BY <1>3, <1>5

\* DivisionAgrees: division of integers in two words, unsigned and signed, finds the quotient and the
\* remainder of the numbers, for every pair of integers and words of any even number of bits.
THEOREM DivisionIsExact == Spec => []DivisionAgrees
<1>1. ASSUME IsInteger PROVE DivisionAgrees
  <2>1. x \in TwoWords /\ y \in TwoWords BY <1>1 DEF IsInteger
  <2>2. ASSUME y # Zero
        PROVE  /\ gp_uint128_divmod(x, y) = Results(Stored(Value(x) \div Value(y)), Stored(Value(x) % Value(y)))
               /\ gp_int128_idiv(x, y) = Stored(Quotient(SignedValue(x), SignedValue(y)))
               /\ gp_int128_imod(x, y)
                    = Stored(SignedValue(x) - SignedValue(y) * Quotient(SignedValue(x), SignedValue(y)))
    <3>1. Value(y) # 0 /\ SignedValue(y) # 0 BY <2>1, <2>2, OnlyZero
    <3> QED BY <2>1, <3>1, DivmodAgrees, SignedDivisionAgrees
  <2> QED BY <2>2 DEF DivisionAgrees
<1> QED BY <1>1, RegistersHoldIntegers, PTL

\* What a power of two has in common with a number is in the number's remainder.
LEMMA AndRemainder ==
  ASSUME NEW k \in Nat, NEW v \in Nat, NEW w \in Nat, w < PowerOfTwo[k]
  PROVE  (v & w) = ((v % PowerOfTwo[k]) & w)
<1> DEFINE p == PowerOfTwo
           T == {n \in Nat : \A a, b \in Nat : b < p[n] => (a & b) = ((a % p[n]) & b)}
<1>1. p[0] = 1 /\ \A n \in Nat : p[n + 1] = 2 * p[n] /\ p[n] \in Nat \ {0} BY PowersOfTwo, Positive
<1>2. 0 \in T
  <2>1. ASSUME NEW a \in Nat, NEW b \in Nat, b < p[0] PROVE (a & b) = ((a % p[0]) & b)
    <3>1. b = 0 BY <1>1, <2>1
    <3>2. a % p[0] \in Nat BY <1>1
    <3>3. (0 & a) = 0 /\ (0 & (a % p[0])) = 0 BY <3>2, CommonSteps
    <3>4. (a & 0) = (0 & a) /\ ((a % p[0]) & 0) = (0 & (a % p[0])) BY <3>2, AndCommutes
    <3> QED BY <3>1, <3>3, <3>4
  <2> QED BY <2>1
<1>3. ASSUME NEW n \in T PROVE n + 1 \in T
  <2>1. n \in Nat /\ p[n] \in Nat \ {0} /\ p[n + 1] = 2 * p[n] BY <1>1
  <2>2. ASSUME NEW a \in Nat, NEW b \in Nat, b < p[n + 1] PROVE (a & b) = ((a % p[n + 1]) & b)
    <3> DEFINE h == a \div 2
               c == a % 2
               g == b \div 2
               d == b % 2
               m == p[n]
               q == h \div m
               r == h % m
    <3>1. h \in Nat /\ c \in {0, 1} /\ a = 2 * h + c /\ g \in Nat /\ d \in {0, 1} /\ b = 2 * g + d BY Halves
    <3>2. g < m
      <4> HIDE DEF g, d
      <4> QED BY <2>1, <2>2, <3>1
    <3>3. (h & g) = (r & g) BY <3>1, <3>2
    <3>4. (a & b) = 2 * (h & g) + c * d BY CommonSteps
    <3>5. q \in Int /\ r \in 0 .. m - 1 /\ h = q * m + r
      <4>1. h \in Int /\ m \in Nat \ {0} BY <2>1, <3>1
      <4> HIDE DEF h, m, p
      <4> QED BY <4>1, Division
    <3> DEFINE e == 2 * r + c
    <3> HIDE DEF p, h, c, g, d, q, r, m
    <3>6. m \in Nat \ {0} /\ p[n + 1] = 2 * m BY <2>1 DEF m
    <3>7. e \in 0 .. 2 * m - 1 /\ e \in Nat /\ r \in Nat BY <3>1, <3>5, <3>6
    <3>8. a = q * (2 * m) + e
      <4>1. 2 * (q * m + r) + c = q * (2 * m) + (2 * r + c) BY <3>1, <3>5, <3>6
      <4> QED BY <3>1, <3>5, <4>1
    <3>9. a % p[n + 1] = e
      <4> DEFINE s == 2 * m
      <4>1. s \in Nat \ {0} /\ e \in 0 .. s - 1 BY <3>6, <3>7
      <4> HIDE DEF s, e
      <4>2. (q * s + e) % s = e BY <3>5, <4>1, Quotients
      <4> QED BY <3>6, <3>8, <4>2 DEF s
    <3>10. e \div 2 = r /\ e % 2 = c BY <3>1, <3>7, Doubles
    <3>11. (e & b) = 2 * (r & g) + c * d
      <4> HIDE DEF e
      <4>1. (e & b) = 2 * ((e \div 2) & (b \div 2)) + (e % 2) * (b % 2) BY <3>7, CommonSteps
      <4> QED BY <3>10, <4>1 DEF g, d
    <3> QED BY <3>3, <3>4, <3>9, <3>11
  <2> QED BY <2>1, <2>2
<1> HIDE DEF T
<1>4. T \subseteq Nat BY DEF T
<1>5. k \in T BY <1>2, <1>3, <1>4, Induction
<1> QED BY <1>5 DEF T

\* What is put together with less than a power of two has the same multiple of it.
LEMMA OrQuotient ==
  ASSUME NEW k \in Nat, NEW v \in Nat, NEW w \in Nat, w < PowerOfTwo[k]
  PROVE  (v | w) \in Nat /\ (v | w) \div PowerOfTwo[k] = v \div PowerOfTwo[k]
<1> DEFINE p == PowerOfTwo[k]
           q == v \div p
           r == v % p
           o == r + w - (r & w)
<1>1. p \in Nat \ {0} BY Positive
<1> HIDE DEF p
<1>2. q \in Int /\ q \in Nat /\ r \in 0 .. p - 1 /\ r \in Nat /\ v = q * p + r
  <2>1. v \in Int OBVIOUS
  <2>2. q \in Int /\ r \in 0 .. p - 1 /\ v = q * p + r BY <1>1, <2>1, Division
  <2>3. q >= 0 BY <1>1
  <2> HIDE DEF q, r
  <2> QED BY <1>1, <2>2, <2>3
<1>3. (v & w) = (r & w) BY AndRemainder DEF p
<1> HIDE DEF q, r
<1>4. o \in 0 .. p - 1
  <2>1. r \in 0 .. PowerOfTwo[k] - 1 /\ w \in 0 .. PowerOfTwo[k] - 1 BY <1>1, <1>2 DEF p
  <2>2. (r | w) \in 0 .. PowerOfTwo[k] - 1 BY <2>1, OrBelow
  <2> QED BY <2>2 DEF |, p
<1>5. (v | w) = v + w - (r & w) BY <1>3 DEF |
<1>6. (r & w) \in Nat BY <1>2, AndNumber
<1>7. (v | w) = q * p + o
  <2> DEFINE u == q * p
             c == (r & w)
  <2>1. u \in Nat /\ c \in Nat BY <1>1, <1>2, <1>6
  <2> HIDE DEF u, c
  <2>2. v = u + r BY <1>2 DEF u
  <2>3. u + r + w - c = u + (r + w - c) BY <1>2, <2>1
  <2> QED BY <1>5, <2>2, <2>3 DEF u, c
<1> HIDE DEF o
<1>8. (q * p + o) \div p = q BY <1>1, <1>2, <1>4, Quotients
<1>9. q * p + o \in Nat BY <1>1, <1>2, <1>4
<1> QED BY <1>7, <1>8, <1>9 DEF q, p

\* A quotient does not change when both numbers are multiplied.
LEMMA ScaledQuotient ==
  ASSUME NEW m \in Nat, NEW p \in Nat \ {0}, NEW k \in Nat \ {0}
  PROVE  (m * k) \div (p * k) = m \div p
<1> DEFINE q == m \div p
           r == m % p
           s == p * k
           f == r * k
<1>1. m \in Int /\ q \in Int /\ r \in 0 .. p - 1 /\ m = q * p + r
  <2>1. m \in Int OBVIOUS
  <2> QED BY <2>1, Division
<1> HIDE DEF q, r
<1>2. s \in Nat \ {0} /\ f \in Nat BY <1>1
<1>3. f \in 0 .. s - 1
  <2>1. r + 1 <= p /\ r + 1 \in Int BY <1>1
  <2>2. k * (r + 1) <= k * p BY <1>1, <2>1, ProductOrder
  <2>3. k * (r + 1) = f + k /\ k * p = s BY <1>1
  <2> HIDE DEF f, s
  <2> QED BY <1>2, <2>2, <2>3
<1>4. m * k = q * s + f
  <2>1. (q * p + r) * k = q * (p * k) + r * k BY <1>1
  <2> QED BY <1>1, <2>1
<1> HIDE DEF s, f
<1>5. (q * s + f) \div s = q BY <1>1, <1>2, <1>3, Quotients
<1> QED BY <1>4, <1>5 DEF q, s

\* A quotient of a quotient
LEMMA NestedQuotient ==
  ASSUME NEW v \in Int, NEW p \in Nat \ {0}, NEW k \in Nat \ {0}
  PROVE  (v \div p) \div k = v \div (p * k)
<1> DEFINE q == v \div p
           r == v % p
           i == q \div k
           j == q % k
           s == p * k
           e == j * p + r
<1>1. q \in Int /\ r \in 0 .. p - 1 /\ v = q * p + r BY Division
<1> HIDE DEF q, r
<1>2. i \in Int /\ j \in 0 .. k - 1 /\ q = i * k + j BY <1>1, Division
<1> HIDE DEF i, j
<1>3. s \in Nat \ {0} OBVIOUS
<1>4. e \in 0 .. s - 1
  <2>1. j + 1 <= k /\ j + 1 \in Int BY <1>2
  <2>2. p * (j + 1) <= p * k BY <2>1, ProductOrder
  <2>3. p * (j + 1) = j * p + p /\ j * p \in Nat BY <1>2
  <2> DEFINE f == j * p
  <2>4. f + p <= s /\ f \in Nat BY <2>2, <2>3
  <2> HIDE DEF f, s
  <2> QED BY <1>1, <1>3, <2>4 DEF f
<1>5. v = i * s + e
  <2>1. (i * k + j) * p + r = i * (p * k) + (j * p + r) BY <1>1, <1>2
  <2> QED BY <1>1, <1>2, <2>1
<1> HIDE DEF s, e
<1>6. (i * s + e) \div s = i BY <1>2, <1>3, <1>4, Quotients
<1> QED BY <1>5, <1>6 DEF i, q, s

\* The bit above those that are shifted out
LEMMA BitAbove ==
  ASSUME NEW u \in Nat, NEW p \in Nat \ {0}
  PROVE  (u % (2 * p)) \div p = (u \div p) % 2
<1> DEFINE q == u \div p
           r == u % p
           g == q \div 2
           c == q % 2
           s == 2 * p
           e == c * p + r
<1>1. q \in Int /\ r \in 0 .. p - 1 /\ u = q * p + r
  <2>1. u \in Int OBVIOUS
  <2> QED BY <2>1, Division
<1> HIDE DEF q, r
<1>2. g \in Int /\ c \in {0, 1} /\ q = 2 * g + c BY <1>1
<1> HIDE DEF g, c
<1>3. s \in Nat \ {0} OBVIOUS
<1>4. e \in 0 .. s - 1
  <2>1. CASE c = 0 BY <1>1, <2>1
  <2>2. CASE c = 1 BY <1>1, <2>2
  <2> QED BY <1>2, <2>1, <2>2
<1>5. u = g * s + e
  <2>1. (2 * g + c) * p + r = g * (2 * p) + (c * p + r) BY <1>1, <1>2
  <2> QED BY <1>1, <1>2, <2>1
<1>6. u % s = e
  <2> HIDE DEF s, e
  <2>1. (g * s + e) % s = e BY <1>2, <1>3, <1>4, Quotients
  <2> QED BY <1>5, <2>1
<1>7. (c * p + r) \div p = c
  <2>1. c \in Int BY <1>2
  <2> QED BY <1>1, <2>1, Quotients
<1> QED BY <1>6, <1>7 DEF c, q

\* The bits of a format, and of the integer that is shifted to the top
LEMMA FormatBits ==
  ASSUME NEW format, IsFormat(format),
         NEW F, F = format.fraction, NEW B, B = format.bits, NEW S, S = 2 * WordBits - 1 - F
  PROVE  /\ F \in Nat /\ B \in Nat /\ B - 1 \in Nat /\ S \in Nat /\ S - 1 \in Nat
         /\ S \in 0 .. 2 * WordBits - 1 /\ S >= WordBits /\ S - B \in 0 .. 2 * WordBits - 1
         /\ B <= WordBits /\ F + 1 <= WordBits /\ (B - 1) % WordBits = B - 1
         /\ PowerOfTwo[S] * PowerOfTwo[F] = Top /\ PowerOfTwo[F + 1] = 2 * PowerOfTwo[F]
         /\ PowerOfTwo[S] = 2 * PowerOfTwo[S - 1] /\ PowerOfTwo[B] = 2 * PowerOfTwo[B - 1]
         /\ PowerOfTwo[S - B] * PowerOfTwo[B - 1] = PowerOfTwo[S - 1]
         /\ PowerOfTwo[F + 1] <= Base
<1>1. WordBits \in Nat /\ WordBits >= 2 BY WordBitsAssumption
<1>2. B \in 2 .. WordBits /\ F \in 0 .. B - 1 /\ F + B < 2 * WordBits BY DEF IsFormat
<1>3. /\ F \in Nat /\ B \in Nat /\ B - 1 \in Nat /\ S \in Nat /\ S - 1 \in Nat /\ S - B \in Nat
      /\ S \in 0 .. 2 * WordBits - 1 /\ S >= WordBits /\ S - B \in 0 .. 2 * WordBits - 1
      /\ B <= WordBits /\ F + 1 <= WordBits /\ F + 1 \in Nat BY <1>1, <1>2
<1>4. (B - 1) % WordBits = B - 1 BY <1>1, <1>2
<1>5. PowerOfTwo[S] * PowerOfTwo[F] = Top
  <2>1. S + F = 2 * WordBits - 1 BY <1>1, <1>3
  <2>2. PowerOfTwo[S + F] = PowerOfTwo[S] * PowerOfTwo[F] BY <1>3, PowerOfSum
  <2> QED BY <2>1, <2>2 DEF Top
<1>6. PowerOfTwo[F + 1] = 2 * PowerOfTwo[F] /\ PowerOfTwo[S] = 2 * PowerOfTwo[S - 1]
      /\ PowerOfTwo[B] = 2 * PowerOfTwo[B - 1]
  <2>1. (S - 1) + 1 = S /\ (B - 1) + 1 = B BY <1>3
  <2>2. PowerOfTwo[(S - 1) + 1] = 2 * PowerOfTwo[S - 1] /\ PowerOfTwo[(B - 1) + 1] = 2 * PowerOfTwo[B - 1]
        /\ PowerOfTwo[F + 1] = 2 * PowerOfTwo[F] BY <1>3, PowersOfTwo
  <2> QED BY <2>1, <2>2
<1>7. PowerOfTwo[S - B] * PowerOfTwo[B - 1] = PowerOfTwo[S - 1]
  <2>1. (S - B) + (B - 1) = S - 1 BY <1>3
  <2>2. PowerOfTwo[(S - B) + (B - 1)] = PowerOfTwo[S - B] * PowerOfTwo[B - 1] BY <1>3, PowerOfSum
  <2> QED BY <2>1, <2>2
<1>8. PowerOfTwo[F + 1] <= Base BY <1>1, <1>3, PowersIncrease DEF Base
<1> QED BY <1>3, <1>4, <1>5, <1>6, <1>7, <1>8

\* The significant bits of an integer shifted to the top are its upper ones, and the highest of the
\* next bits, whatever is put together with those below it, is the one that follows.
LEMMA BitsTaken ==
  ASSUME NEW format, IsFormat(format), NEW a \in TwoWords, Value(a) >= Top,
         NEW s \in Nat, s < PowerOfTwo[format.bits - 1],
         NEW z, z = Value(a) \div PowerOfTwo[2 * WordBits - 1 - format.fraction - 1]
  PROVE  /\ z \in Nat /\ Significant(format, a) = z \div 2
         /\ Significant(format, a) >= PowerOfTwo[format.fraction]
         /\ Significant(format, a) < PowerOfTwo[format.fraction + 1]
         /\ (NextBits(format, a) | s) \in Nat
         /\ (NextBits(format, a) | s) \div PowerOfTwo[format.bits - 1] = z % 2
<1> DEFINE F == format.fraction
           B == format.bits
           S == 2 * WordBits - 1 - F
           v == Value(a)
           pS == PowerOfTwo[S]
           pF == PowerOfTwo[F]
           h == PowerOfTwo[S - 1]
           pB == PowerOfTwo[B - 1]
           d == PowerOfTwo[S - B]
<1>1. /\ F \in Nat /\ B \in Nat /\ B - 1 \in Nat /\ S \in Nat /\ S - 1 \in Nat
      /\ S \in 0 .. 2 * WordBits - 1 /\ S >= WordBits /\ S - B \in 0 .. 2 * WordBits - 1
      /\ B <= WordBits /\ F + 1 <= WordBits
      /\ pS * pF = Top /\ PowerOfTwo[F + 1] = 2 * pF
      /\ pS = 2 * h /\ PowerOfTwo[B] = 2 * pB /\ d * pB = h
      /\ PowerOfTwo[F + 1] <= Base BY FormatBits
<1>2. pS \in Nat \ {0} /\ pF \in Nat \ {0} /\ h \in Nat \ {0} /\ pB \in Nat \ {0} /\ d \in Nat \ {0}
  <2>1. S - B \in Nat BY <1>1
  <2> QED BY <1>1, <2>1, Positive
<1>3. v \in 0 .. Size - 1 /\ v \in Nat /\ v \in Int /\ v >= Top /\ Size = 2 * Top /\ Top \in Nat BY Parts, Tops
<1>4. Base \in Nat \ {0} /\ Base >= 2 /\ Size = Base * Base BY Bases DEF Size
<1> DEFINE w == v \div pS
<1>5. w \in pF .. 2 * pF - 1 /\ w \in Nat
  <2> DEFINE r == v % pS
  <2>1. w \in Int /\ r \in 0 .. pS - 1 /\ v = w * pS + r
    <3> HIDE DEF v, pS
    <3> QED BY <1>2, <1>3, Division
  <2> HIDE DEF w, r, v, pS, pF
  <2>2. w < 2 * pF
    <3>1. SUFFICES ASSUME 2 * pF <= w PROVE FALSE BY <1>2, <2>1
    <3>2. 2 * pF \in Int BY <1>2
    <3>3. pS * (2 * pF) <= pS * w BY <1>2, <2>1, <3>1, <3>2, ProductOrder
    <3>4. pS * (2 * pF) = 2 * (pS * pF) /\ pS * w = w * pS /\ w * pS \in Int BY <1>2, <2>1
    <3> DEFINE f == w * pS
    <3>5. 2 * Top <= f /\ f \in Int /\ v = f + r BY <1>1, <2>1, <3>3, <3>4
    <3> HIDE DEF f
    <3> QED BY <1>2, <1>3, <2>1, <3>5
  <2>3. pF <= w
    <3>1. SUFFICES ASSUME w + 1 <= pF PROVE FALSE BY <1>2, <2>1
    <3>2. pS * (w + 1) <= pS * pF
      <4>1. w + 1 \in Int BY <2>1
      <4> QED BY <1>2, <3>1, <4>1, ProductOrder
    <3>3. pS * (w + 1) = w * pS + pS /\ w * pS \in Int BY <1>2, <2>1
    <3> DEFINE f == w * pS
    <3>4. f + pS <= Top /\ f \in Int /\ v = f + r BY <1>1, <2>1, <3>2, <3>3
    <3> HIDE DEF f
    <3> QED BY <1>2, <1>3, <2>1, <3>4
  <2> QED BY <1>2, <2>1, <2>2, <2>3
<1>6. Significant(format, a) = w
  <2>1. gp_uint128_shift_right(a, S) = Stored(w) BY <1>1, ShiftRightAgrees
  <2>2. w % Base = w
    <3> HIDE DEF w, pF
    <3> QED BY <1>1, <1>2, <1>4, <1>5
  <2> QED BY <2>1, <2>2 DEF Significant, Stored, Lo
<1>7. z = v \div h OBVIOUS
<1>8. z \in Nat /\ z \div 2 = w
  <2> HIDE DEF v, h
  <2>1. z \in Nat BY <1>2, <1>3, <1>7
  <2>2. (v \div h) \div 2 = v \div (h * 2) BY <1>2, <1>3, NestedQuotient
  <2>3. h * 2 = pS BY <1>1, <1>2
  <2> QED BY <1>7, <2>1, <2>2, <2>3
<1> DEFINE u == v \div d
<1>9. u \in Nat /\ u \div pB = z
  <2> HIDE DEF v, h, d, pB
  <2>1. u \in Nat BY <1>2, <1>3
  <2>2. (v \div d) \div pB = v \div (d * pB) BY <1>2, <1>3, NestedQuotient
  <2> QED BY <1>1, <1>7, <2>1, <2>2
<1> DEFINE b == u % PowerOfTwo[B]
<1>10. NextBits(format, a) = b
  <2>1. gp_uint128_shift_right(a, S - B) = Stored(u) BY <1>1, ShiftRightAgrees
  <2>2. NextBits(format, a) = (u % Base) % PowerOfTwo[B] BY <2>1 DEF NextBits, Stored, Lo
  <2>3. (u % Base) % PowerOfTwo[B] = u % PowerOfTwo[B]
    <3> DEFINE p == PowerOfTwo[B]
               q == PowerOfTwo[WordBits - B]
               k == u \div Base
    <3>1. B \in 0 .. WordBits BY <1>1
    <3>2. p \in Nat \ {0} /\ q \in Nat \ {0} /\ p * q = Base BY <3>1, Factors
    <3> HIDE DEF u, p, q
    <3>3. u \in Int BY <1>9
    <3>4. k \in Int /\ u % Base \in 0 .. Base - 1 /\ u = k * Base + (u % Base)
      <4> HIDE DEF Base
      <4> QED BY <1>4, <3>3, Division
    <3> HIDE DEF k
    <3> DEFINE t == u % Base
               i == k * q
    <3>5. u - i * p = t /\ i \in Int
      <4>1. (k * q) * p = k * (p * q) BY <3>2, <3>4
      <4>2. k * Base \in Int /\ t \in Int BY <1>4, <3>4
      <4> QED BY <3>2, <3>4, <4>1, <4>2
    <3> HIDE DEF t, i
    <3>6. (u - i * p) % p = u % p BY <3>2, <3>3, <3>5, MultipleTaken
    <3> QED BY <3>5, <3>6 DEF t, p
  <2> QED BY <2>2, <2>3
<1>11. b \in Nat /\ b \div pB = z % 2
  <2> HIDE DEF u, pB
  <2>1. (u % (2 * pB)) \div pB = (u \div pB) % 2 BY <1>2, <1>9, BitAbove
  <2>2. b \in Nat BY <1>1, <1>2, <1>9
  <2> QED BY <1>1, <1>9, <2>1, <2>2
<1> HIDE DEF b, w, u
<1>12. (b | s) \in Nat /\ (b | s) \div pB = b \div pB BY <1>1, <1>11, OrQuotient
<1>13. Significant(format, a) >= PowerOfTwo[format.fraction]
       /\ Significant(format, a) < PowerOfTwo[format.fraction + 1]
  <2>1. w >= pF /\ w < PowerOfTwo[F + 1] BY <1>1, <1>2, <1>5
  <2> QED BY <1>6, <2>1
<1> QED BY <1>6, <1>8, <1>10, <1>11, <1>12, <1>13

\* What is rounded: a is the upper part of the integer v shifted by n to the top, and the first of
\* the bits b follows it.
ToRound(format, v, n, t, z, a, b) ==
  /\ IsFormat(format) /\ v \in Nat /\ n \in 0 .. WordBits - 1 /\ t \in Nat /\ t = v * PowerOfTwo[n]
  /\ z \in Nat /\ z = t \div PowerOfTwo[2 * WordBits - 1 - format.fraction - 1]
  /\ a \in Nat /\ a = z \div 2 /\ a >= PowerOfTwo[format.fraction] /\ a < PowerOfTwo[format.fraction + 1]
  /\ b \in Nat /\ b \div PowerOfTwo[format.bits - 1] = z % 2

\* The rounding of the significant bits by the bit that follows them is to the nearest number of the
\* format, also if the mantissa overflows into the exponent.
LEMMA RoundedToNearest ==
  ASSUME NEW format, NEW v, NEW n, NEW t, NEW z, NEW a, NEW b, ToRound(format, v, n, t, z, a, b)
  PROVE  Rounded(format, a, b, n).sign = FALSE /\ Nearest(format, Rounded(format, a, b, n), v)
<1> DEFINE F == format.fraction
           B == format.bits
           S == 2 * WordBits - 1 - F
           pF == PowerOfTwo[F]
           h == PowerOfTwo[S - 1]
           pn == PowerOfTwo[n]
           k == S - n
           pk == PowerOfTwo[k]
           c == z % 2
           m == a + c
           f == Rounded(format, a, b, n)
<1>0. /\ IsFormat(format) /\ v \in Nat /\ n \in 0 .. WordBits - 1 /\ t \in Nat /\ t = v * PowerOfTwo[n]
      /\ z \in Nat /\ z = t \div PowerOfTwo[2 * WordBits - 1 - format.fraction - 1]
      /\ a \in Nat /\ a = z \div 2 /\ a >= PowerOfTwo[format.fraction] /\ a < PowerOfTwo[format.fraction + 1]
      /\ b \in Nat /\ b \div PowerOfTwo[format.bits - 1] = z % 2 BY DEF ToRound
<1>1. /\ F \in Nat /\ B \in Nat /\ B - 1 \in Nat /\ S \in Nat /\ S - 1 \in Nat
      /\ S \in 0 .. 2 * WordBits - 1 /\ S >= WordBits /\ (B - 1) % WordBits = B - 1
      /\ PowerOfTwo[F + 1] = 2 * pF /\ PowerOfTwo[S] = 2 * h BY <1>0, FormatBits
<1>2. k \in Nat /\ n \in Nat /\ WordBits \in Nat \ {0} BY <1>0, <1>1, Counts
<1>3. pF \in Nat \ {0} /\ h \in Nat \ {0} /\ pn \in Nat \ {0} /\ pk \in Nat \ {0} BY <1>1, <1>2, Positive
<1>4. pk * pn = 2 * h
  <2>1. k + n = S BY <1>1, <1>2
  <2>2. PowerOfTwo[k + n] = PowerOfTwo[k] * PowerOfTwo[n] BY <1>2, PowerOfSum
  <2> QED BY <1>1, <2>1, <2>2
<1>5. c \in {0, 1} /\ z = 2 * a + c /\ m \in Nat /\ m >= pF /\ m <= 2 * pF
  <2>1. c \in {0, 1} /\ z = 2 * a + c BY <1>0, Halves
  <2> HIDE DEF c
  <2>2. a >= pF /\ a < 2 * pF /\ a \in Nat BY <1>0, <1>1
  <2> HIDE DEF pF
  <2> QED BY <1>3, <2>1, <2>2
<1>6. f = Float(FALSE, 2 * WordBits - 2 - n + (m \div pF), m % pF)
  <2>1. Right(b, B - 1) = c BY <1>0, <1>1 DEF Right
  <2>2. One(a = 0) = 0
    <3>1. a >= pF /\ a \in Nat BY <1>0
    <3> HIDE DEF pF
    <3>2. a # 0 BY <1>3, <3>1
    <3> QED BY <3>2 DEF One
  <2>3. (c & 0) = 0
    <3>1. c \in Nat BY <1>5
    <3> HIDE DEF c
    <3>2. (0 & c) = 0 BY <3>1, CommonSteps
    <3> QED BY <3>1, <3>2, AndCommutes
  <2>4. b - (Right(b, B - 1) & One(a = 0)) = b BY <1>0, <2>1, <2>2, <2>3
  <2>5. a + Right(b - (Right(b, B - 1) & One(a = 0)), B - 1) = m BY <2>1, <2>4
  <2> QED BY <2>5 DEF Rounded
<1> DEFINE e == m * pk - v
<1>7. e \in Int /\ 2 * Abs(e) <= pk
  <2> DEFINE r == t % h
  <2>1. r \in 0 .. h - 1 /\ t = z * h + r
    <3>1. t \in Int /\ z = t \div h BY <1>0
    <3> HIDE DEF h
    <3> QED BY <1>3, <3>1, Division
  <2> HIDE DEF F, S, B, pF, h, pn, k, pk, c, m, f, r
  <2>2. e \in Int /\ e * pn = c * h - r
    <3>1. e \in Int BY <1>0, <1>3, <1>5
    <3>2. (m * pk - v) * pn = m * (pk * pn) - v * pn BY <1>0, <1>3, <1>5
    <3>3. v * pn = z * h + r BY <1>0, <2>1 DEF pn
    <3>4. m * (2 * h) - ((2 * a + c) * h + r) = c * h - r
      <4>1. ((a + c) * (2 * h)) - ((2 * a + c) * h + r) = c * h - r BY <1>0, <1>3, <1>5, <2>1
      <4> QED BY <4>1 DEF m
    <3> QED BY <1>0, <1>4, <1>5, <3>1, <3>2, <3>3, <3>4
  <2> HIDE DEF e
  <2>3. 2 * (e * pn) <= 2 * h /\ - (2 * (e * pn)) <= 2 * h
    <3>1. c * h = 0 \/ c * h = h BY <1>3, <1>5
    <3> QED BY <1>3, <2>1, <2>2, <3>1
  <2>4. ASSUME NEW i \in Int, 2 * (i * pn) <= 2 * h PROVE 2 * i <= pk
    <3>1. SUFFICES ASSUME pk + 1 <= 2 * i PROVE FALSE BY <1>3
    <3>2. pk + 1 \in Int /\ 2 * i \in Int BY <1>3
    <3>3. pn * (pk + 1) <= pn * (2 * i) BY <1>3, <3>1, <3>2, ProductOrder
    <3>4. pn * (pk + 1) = pk * pn + pn /\ pn * (2 * i) = 2 * (i * pn) /\ i * pn \in Int BY <1>3
    <3> DEFINE g == i * pn
    <3>5. 2 * h + pn <= 2 * g /\ 2 * g <= 2 * h /\ g \in Int BY <1>4, <2>4, <3>3, <3>4
    <3> HIDE DEF g
    <3> QED BY <1>3, <3>5
  <2>5. 2 * e <= pk BY <2>2, <2>3, <2>4
  <2>6. 2 * (- e) <= pk
    <3>1. - e \in Int /\ 2 * ((- e) * pn) = - (2 * (e * pn)) BY <1>3, <2>2
    <3> QED BY <2>3, <2>4, <3>1
  <2>7. Abs(e) = e \/ Abs(e) = - e BY <2>2 DEF Abs
  <2> QED BY <2>2, <2>5, <2>6, <2>7
<1>8. CASE m < 2 * pF
  <2>1. m \div pF = 1 /\ m % pF = m - pF
    <3> DEFINE r == m - pF
               i == 1
    <3>1. r \in 0 .. pF - 1
      <4> HIDE DEF m, pF
      <4> QED BY <1>3, <1>5, <1>8 DEF r
    <3>2. i \in Int /\ m = i * pF + r BY <1>3, <1>5
    <3> HIDE DEF pF, m, r, i
    <3>3. (i * pF + r) \div pF = i /\ (i * pF + r) % pF = r BY <1>3, <3>1, <3>2, Quotients
    <3> QED BY <3>2, <3>3 DEF r, i
  <2>2. f.exponent - F = k BY <1>0, <1>1, <1>2, <1>6, <2>1 DEF Float
  <2>3. FractionBits(format, f) = m
    <3>1. f.fraction = m - pF BY <1>6, <2>1 DEF Float
    <3> HIDE DEF f, m
    <3> QED BY <1>3, <1>5, <3>1 DEF FractionBits
  <2>4. f.sign = FALSE BY <1>6 DEF Float
  <2>5. Nearest(format, f, v)
    <3> HIDE DEF f, m
    <3> QED BY <1>7, <2>2, <2>3 DEF Nearest
  <2> QED BY <2>4, <2>5
<1>9. CASE m = 2 * pF
  <2>1. m \div pF = 2 /\ m % pF = 0
    <3> DEFINE r == 0
               i == 2
    <3>1. r \in 0 .. pF - 1 BY <1>3
    <3>2. i \in Int /\ m = i * pF + r BY <1>3, <1>9
    <3> HIDE DEF pF, m, r, i
    <3>3. (i * pF + r) \div pF = i /\ (i * pF + r) % pF = r BY <1>3, <3>1, <3>2, Quotients
    <3> QED BY <3>2, <3>3 DEF r, i
  <2>2. f.exponent - F = k + 1 BY <1>0, <1>1, <1>2, <1>6, <2>1 DEF Float
  <2>3. FractionBits(format, f) = pF
    <3>1. f.fraction = 0 BY <1>6, <2>1 DEF Float
    <3> HIDE DEF f
    <3> QED BY <1>3, <3>1 DEF FractionBits
  <2>4. f.sign = FALSE BY <1>6 DEF Float
  <2>5. PowerOfTwo[k + 1] = 2 * pk BY <1>2, PowersOfTwo
  <2>6. Nearest(format, f, v)
    <3> HIDE DEF f, m, pF, pk, k
    <3>1. pF * (2 * pk) = m * pk BY <1>3, <1>9
    <3>2. 2 * Abs(e) <= 2 * pk
      <4>1. Abs(e) \in Int BY <1>7 DEF Abs
      <4> QED BY <1>3, <1>7, <4>1
    <3>3. 2 * Abs(pF * (2 * pk) - v) <= 2 * pk BY <3>1, <3>2
    <3>4. PowerOfTwo[f.exponent - format.fraction] = 2 * pk BY <2>2, <2>5
    <3> QED BY <2>3, <3>3, <3>4 DEF Nearest
  <2> QED BY <2>4, <2>6
<1>10. m < 2 * pF \/ m = 2 * pF
  <2> HIDE DEF m, pF
  <2> QED BY <1>3, <1>5
<1> QED BY <1>8, <1>9, <1>10, Zenon

\* An integer with a high word is shifted to the top by the number of zeros before its bits.
LEMMA ShiftedToTop ==
  ASSUME NEW a \in TwoWords, Hi(a) # 0, NEW n, n = gp_leading_zeros_u64(Hi(a))
  PROVE  /\ n \in 0 .. WordBits - 1
         /\ gp_uint128_shift_left(a, n) \in TwoWords
         /\ Value(gp_uint128_shift_left(a, n)) = Value(a) * PowerOfTwo[n]
         /\ Value(gp_uint128_shift_left(a, n)) >= Top
<1> DEFINE g == Hi(a)
           l == Lo(a)
           v == Value(a)
           p == PowerOfTwo[WordBits - 1 - n]
           q == PowerOfTwo[WordBits - 1]
           pn == PowerOfTwo[n]
<1>1. Base \in Nat \ {0} /\ WordBits \in Nat \ {0} BY Bases, WordBitsAssumption
<1>2. g \in 1 .. Base - 1 /\ l \in 0 .. Base - 1 /\ v = g * Base + l
  <2>1. g \in 0 .. Base - 1 /\ l \in 0 .. Base - 1 /\ v = g * Base + l /\ g # 0 BY Parts
  <2> HIDE DEF g, l, v, Base
  <2> QED BY <1>1, <2>1
<1>3. n \in 0 .. WordBits - 1 /\ p <= g /\ g < PowerOfTwo[WordBits - n] BY <1>2, LeadingZeros
<1>4. WordBits - 1 - n \in Nat /\ WordBits - n \in Nat /\ n \in Nat /\ WordBits - 1 \in Nat BY <1>1, <1>3
<1>5. /\ p * pn = q /\ q * Base = Top /\ 2 * q = Base
      /\ p \in Nat \ {0} /\ q \in Nat \ {0} /\ pn \in Nat \ {0}
  <2>1. PowerOfTwo[(WordBits - 1 - n) + n] = p * pn BY <1>4, PowerOfSum
  <2>2. PowerOfTwo[(WordBits - 1) + WordBits] = q * PowerOfTwo[WordBits] BY <1>1, <1>4, PowerOfSum
  <2>3. PowerOfTwo[(WordBits - 1) + 1] = 2 * q BY <1>4, PowersOfTwo
  <2>4. /\ (WordBits - 1 - n) + n = WordBits - 1 /\ (WordBits - 1) + WordBits = 2 * WordBits - 1
        /\ (WordBits - 1) + 1 = WordBits BY <1>1, <1>3
  <2>5. p \in Nat \ {0} /\ q \in Nat \ {0} /\ pn \in Nat \ {0} BY <1>4, Positive
  <2> QED BY <2>1, <2>2, <2>3, <2>4, <2>5 DEF Top, Base
<1>6. PowerOfTwo[WordBits - n] = 2 * p
  <2>1. (WordBits - 1 - n) + 1 = WordBits - n BY <1>1, <1>3
  <2>2. PowerOfTwo[(WordBits - 1 - n) + 1] = 2 * p BY <1>4, PowersOfTwo
  <2> QED BY <2>1, <2>2
<1>7. n \in 0 .. 2 * WordBits - 1 BY <1>1, <1>3
<1>8. gp_uint128_shift_left(a, n) = Stored(v * pn) BY <1>7, ShiftLeftAgrees
<1>9. Size = 2 * Top /\ Top \in Nat BY Tops
<1> HIDE DEF g, l, v, p, q, pn, Base
<1> DEFINE t == v * pn
<1>10. t \in Nat /\ t >= Top /\ t < Size
  <2> DEFINE s == g * Base
  <2>1. s \in Nat /\ v \in Nat /\ v = s + l BY <1>1, <1>2
  <2>2. p * Base <= s /\ s + Base <= (2 * p) * Base
    <3>1. Base * p <= Base * g
      <4>1. g \in Int /\ p \in Int BY <1>2, <1>5
      <4> QED BY <1>1, <1>3, <4>1, ProductOrder
    <3>2. Base * (g + 1) <= Base * (2 * p)
      <4>1. g + 1 \in Int /\ 2 * p \in Int /\ g + 1 <= 2 * p BY <1>2, <1>3, <1>5, <1>6
      <4> QED BY <1>1, <4>1, ProductOrder
    <3>3. /\ Base * p = p * Base /\ Base * g = s /\ Base * (g + 1) = s + Base
          /\ Base * (2 * p) = (2 * p) * Base BY <1>1, <1>2, <1>5
    <3> QED BY <3>1, <3>2, <3>3
  <2> HIDE DEF s
  <2>3. p * Base \in Nat /\ (2 * p) * Base = 2 * (p * Base) BY <1>1, <1>5
  <2> DEFINE d == p * Base
  <2>4. d \in Nat /\ d <= v /\ v < 2 * d
    <3>1. d \in Nat /\ d <= s /\ s + Base <= 2 * d BY <2>2, <2>3
    <3> HIDE DEF d
    <3> QED BY <1>1, <1>2, <2>1, <3>1
  <2>5. d * pn = Top
    <3>1. (p * Base) * pn = (p * pn) * Base BY <1>1, <1>5
    <3> QED BY <1>5, <3>1
  <2> HIDE DEF d
  <2>6. pn * d <= pn * v /\ pn * (v + 1) <= pn * (2 * d)
    <3>1. v + 1 <= 2 * d /\ v + 1 \in Int /\ 2 * d \in Int BY <2>1, <2>4
    <3>2. pn * d <= pn * v BY <1>5, <2>1, <2>4, ProductOrder
    <3>3. pn * (v + 1) <= pn * (2 * d) BY <1>5, <3>1, ProductOrder
    <3> QED BY <3>2, <3>3
  <2>7. pn * d = d * pn /\ pn * v = t /\ pn * (v + 1) = t + pn /\ pn * (2 * d) = 2 * (d * pn) /\ t \in Nat
    BY <1>5, <2>1, <2>4
  <2>8. Top <= t /\ t + pn <= 2 * Top BY <2>5, <2>6, <2>7
  <2> HIDE DEF t
  <2> QED BY <1>5, <1>9, <2>7, <2>8
<1>11. Stored(t) \in TwoWords /\ Value(Stored(t)) = t
  <2>1. t \in Int BY <1>10
  <2> HIDE DEF t
  <2>2. Stored(t) \in TwoWords /\ Value(Stored(t)) = t % Size BY <2>1, ValueStored
  <2>3. t % Size = t BY <1>9, <1>10
  <2> QED BY <2>2, <2>3
<1> QED BY <1>3, <1>8, <1>10, <1>11 DEF v, pn

\* What the rounded bits stand for is nearest to the integer, with any of the bits below those that
\* the rounding looks at.
LEMMA ConvertedToNearest ==
  ASSUME NEW format, IsFormat(format), NEW a \in TwoWords, Hi(a) # 0,
         NEW n, n = gp_leading_zeros_u64(Hi(a)),
         NEW t, t = gp_uint128_shift_left(a, n),
         NEW s \in Nat, s < PowerOfTwo[format.bits - 1],
         NEW f, f = Rounded(format, Significant(format, t), NextBits(format, t) | s, n)
  PROVE  f.sign = FALSE /\ Nearest(format, f, Value(a))
<1> DEFINE z == Value(t) \div PowerOfTwo[2 * WordBits - 1 - format.fraction - 1]
           b == NextBits(format, t) | s
           c == Significant(format, t)
<1>1. /\ n \in 0 .. WordBits - 1 /\ t \in TwoWords
      /\ Value(t) = Value(a) * PowerOfTwo[n] /\ Value(t) >= Top BY ShiftedToTop
<1>2. /\ z \in Nat /\ c = z \div 2 /\ c >= PowerOfTwo[format.fraction] /\ c < PowerOfTwo[format.fraction + 1]
      /\ b \in Nat /\ b \div PowerOfTwo[format.bits - 1] = z % 2 BY <1>1, BitsTaken
<1>3. Value(a) \in Nat /\ Value(t) \in Nat
  <2>1. Value(a) \in 0 .. Size - 1 /\ Value(t) \in 0 .. Size - 1 /\ Size \in Nat BY <1>1, Parts, Tops
  <2> QED BY <2>1
<1>4. c \in Nat
  <2> HIDE DEF z
  <2> QED BY <1>2
<1> DEFINE v == Value(a)
           u == Value(t)
<1>5. z = u \div PowerOfTwo[2 * WordBits - 1 - format.fraction - 1] /\ u = v * PowerOfTwo[n] BY <1>1
<1> HIDE DEF b, c, z, u, v
<1>6. v \in Nat /\ u \in Nat BY <1>3 DEF u, v
<1>7. ToRound(format, v, n, u, z, c, b) BY <1>1, <1>2, <1>4, <1>5, <1>6 DEF ToRound
<1>8. Rounded(format, c, b, n).sign = FALSE /\ Nearest(format, Rounded(format, c, b, n), v)
  BY <1>7, RoundedToNearest
<1> QED BY <1>8 DEF b, c, v

\* gp_f64_convert_uint128 and gp_f32_convert_uint128 round to the nearest.
LEMMA UnsignedToNearest ==
  ASSUME NEW a \in TwoWords, Hi(a) # 0
  PROVE  /\ gp_f64_convert_uint128(Double, a).sign = FALSE
         /\ Nearest(Double, gp_f64_convert_uint128(Double, a), Value(a))
         /\ gp_f32_convert_uint128(Single, a).sign = FALSE
         /\ Nearest(Single, gp_f32_convert_uint128(Single, a), Value(a))
<1> DEFINE n == gp_leading_zeros_u64(Hi(a))
           t == gp_uint128_shift_left(a, n)
           i == Lo(t) % Half
           j == One(Lo(t) # 0)
<1>1. IsFormat(Double) /\ IsFormat(Single) BY FormatsAssumption
<1>2. t \in TwoWords BY ShiftedToTop
<1>3. i \in Nat /\ i < PowerOfTwo[Double.bits - 1]
  <2>1. Lo(t) \in Int
    <3>1. Lo(t) \in 0 .. Base - 1 BY <1>2, Parts
    <3> QED BY <3>1
  <2>2. Half \in Nat \ {0} BY Bases
  <2>3. i \in 0 .. Half - 1
    <3> HIDE DEF t, Half
    <3> QED BY <2>1, <2>2
  <2>4. WordBits \div 2 <= Double.bits - 1 /\ WordBits \div 2 \in Nat /\ Double.bits - 1 \in Nat
    <3>1. Double.bits \in 2 .. WordBits /\ WordBits \in Nat BY <1>1, WordBitsAssumption DEF IsFormat
    <3>2. WordBits \div 2 < Double.bits BY FormatsAssumption DEF Double
    <3> QED BY <3>1, <3>2
  <2>5. Half <= PowerOfTwo[Double.bits - 1] BY <2>4, PowersIncrease DEF Half
  <2>6. PowerOfTwo[Double.bits - 1] \in Nat BY <2>4, Positive
  <2> HIDE DEF i
  <2> QED BY <2>2, <2>3, <2>5, <2>6
<1>4. j \in Nat /\ j < PowerOfTwo[Single.bits - 1]
  <2>1. Single.bits - 1 \in Nat /\ 1 <= Single.bits - 1
    <3>1. Single.bits \in 2 .. WordBits /\ WordBits \in Nat BY <1>1, WordBitsAssumption DEF IsFormat
    <3> QED BY <3>1
  <2>2. Single.bits - 1 < PowerOfTwo[Single.bits - 1] /\ PowerOfTwo[Single.bits - 1] \in Nat
    BY <2>1, PowersExceed, Positive
  <2>3. j \in {0, 1} BY DEF One
  <2> HIDE DEF j
  <2> QED BY <2>1, <2>2, <2>3
<1> HIDE DEF n, t, i, j
<1>5. gp_f64_convert_uint128(Double, a) = Rounded(Double, Significant(Double, t), NextBits(Double, t) | i, n)
  BY DEF gp_f64_convert_uint128, n, t, i
<1>6. gp_f32_convert_uint128(Single, a) = Rounded(Single, Significant(Single, t), NextBits(Single, t) | j, n)
  BY DEF gp_f32_convert_uint128, n, t, j
<1>7. n = gp_leading_zeros_u64(Hi(a)) /\ t = gp_uint128_shift_left(a, n) BY DEF n, t
<1>8. /\ gp_f64_convert_uint128(Double, a).sign = FALSE
      /\ Nearest(Double, gp_f64_convert_uint128(Double, a), Value(a))
  BY <1>1, <1>3, <1>5, <1>7, ConvertedToNearest
<1>9. /\ gp_f32_convert_uint128(Single, a).sign = FALSE
      /\ Nearest(Single, gp_f32_convert_uint128(Single, a), Value(a))
  BY <1>1, <1>4, <1>6, <1>7, ConvertedToNearest
<1> QED BY <1>8, <1>9

\* A conversion that rounds the magnitude and keeps the sign is to the nearest, also of the least
\* integer.
LEMMA WithSignToNearest ==
  ASSUME NEW a \in TwoWords, Abs(SignedValue(a)) >= Base, NEW format, NEW c, NEW e, NEW f,
         Hi(a) # 0 => c.sign = FALSE /\ Nearest(format, c, Value(a)),
         Hi(gp_uint128_negate(a)) # 0 =>
             e.sign = FALSE /\ Nearest(format, e, Value(gp_uint128_negate(a))),
         \E i, j, k : e = Float(i, j, k),
         f = IF ~ Negative(a) THEN c ELSE Negated(e)
  PROVE  f.sign = Negative(a) /\ Nearest(format, f, Abs(SignedValue(a)))
<1>1. /\ SignedValue(a) \in Int /\ SignedValue(a) \in - Top .. Top - 1
      /\ SignedValue(a) = Value(a) \/ SignedValue(a) = Value(a) - Size
      /\ SignedValue(a) < 0 <=> Value(a) >= Top
      /\ Value(a) \in 0 .. Size - 1 /\ Size = 2 * Top /\ Top \in Nat \ {0}
  <2>1. SignedValue(a) \in Int BY WithoutSign
  <2> QED BY <2>1, SignedRange, Parts, Tops
<1>2. Negative(a) <=> SignedValue(a) < 0
  <2>1. SignedValue(a) = IF Negative(a) THEN Value(a) - Size ELSE Value(a) BY SignedParts
  <2>2. CASE Negative(a)
    <3>1. SignedValue(a) = Value(a) - Size BY <2>1, <2>2
    <3> QED BY <1>1, <2>2, <3>1
  <2>3. CASE ~ Negative(a)
    <3>1. SignedValue(a) = Value(a) BY <2>1, <2>3
    <3> QED BY <1>1, <2>3, <3>1
  <2> QED BY <2>2, <2>3
<1>3. ASSUME NEW b \in TwoWords, Value(b) >= Base PROVE Hi(b) # 0
  <2>1. Lo(b) \in 0 .. Base - 1 /\ Value(b) = Hi(b) * Base + Lo(b) /\ Base \in Nat BY Parts, Bases
  <2>2. SUFFICES ASSUME Hi(b) = 0 PROVE FALSE OBVIOUS
  <2>3. Value(b) = 0 * Base + Lo(b) BY <2>1, <2>2
  <2> QED BY <1>3, <2>1, <2>3
<1>4. CASE SignedValue(a) >= 0
  <2>1. Abs(SignedValue(a)) = Value(a) BY <1>1, <1>4 DEF Abs
  <2>2. ~ Negative(a) BY <1>1, <1>2, <1>4
  <2>3. f = c BY <2>2
  <2>4. Hi(a) # 0 BY <1>3, <2>1
  <2>5. f.sign = FALSE /\ Nearest(format, f, Value(a)) BY <2>3, <2>4
  <2>6. Negative(a) = FALSE BY <2>2 DEF Negative
  <2> QED BY <2>1, <2>5, <2>6
<1>5. CASE SignedValue(a) < 0
  <2> DEFINE b == gp_uint128_negate(a)
  <2>1. Abs(SignedValue(a)) = Size - Value(a) BY <1>1, <1>5 DEF Abs
  <2>2. Negative(a) = TRUE BY <1>2, <1>5 DEF Negative
  <2>3. b \in TwoWords /\ Value(b) = Size - Value(a)
    <3> DEFINE u == - Value(a)
    <3>1. u \in Int BY <1>1
    <3>2. b = Stored(u) BY NegateAgrees
    <3>3. Value(Stored(u)) = u % Size /\ Stored(u) \in TwoWords
      <4> HIDE DEF u
      <4> QED BY <3>1, ValueStored
    <3>4. u % Size = Size - Value(a) BY <1>1, <1>5
    <3> QED BY <3>2, <3>3, <3>4
  <2>4. f = Negated(e) BY <2>2
  <2>0. Hi(b) # 0 => e.sign = FALSE /\ Nearest(format, e, Value(b)) OBVIOUS
  <2> HIDE DEF b
  <2>5. Hi(b) # 0 BY <1>3, <2>1, <2>3
  <2>6. e.sign = FALSE /\ Nearest(format, e, Value(b)) BY <2>0, <2>5
  <2>7. /\ f.sign = TRUE /\ f.fraction = e.fraction /\ f.exponent = e.exponent
    <3>1. PICK i, j, k : e = Float(i, j, k) OBVIOUS
    <3>2. e = [sign |-> i, exponent |-> j, fraction |-> k] BY <3>1 DEF Float
    <3> QED BY <2>4, <2>6, <3>2 DEF Negated
  <2>8. Nearest(format, f, Value(b)) BY <2>6, <2>7 DEF Nearest, FractionBits
  <2> QED BY <2>1, <2>2, <2>3, <2>7, <2>8
<1> QED BY <1>1, <1>4, <1>5

\* The conversions of signed integers are such, to either format.
LEMMA SignedToNearest ==
  ASSUME NEW a \in TwoWords, Abs(SignedValue(a)) >= Base
  PROVE  LET f == gp_f64_convert_int128(Double, a)
             s == gp_f32_convert_int128(Single, a)
         IN  /\ f.sign = Negative(a) /\ Nearest(Double, f, Abs(SignedValue(a)))
             /\ s.sign = Negative(a) /\ Nearest(Single, s, Abs(SignedValue(a)))
<1> DEFINE b == gp_uint128_negate(a)
           f == gp_f64_convert_int128(Double, a)
           s == gp_f32_convert_int128(Single, a)
<1>1. b \in TwoWords
  <2> DEFINE u == - Value(a)
  <2>1. u \in Int
    <3>1. Value(a) \in 0 .. Size - 1 /\ Size \in Nat BY Parts, Tops
    <3> QED BY <3>1
  <2>2. b = Stored(u) BY NegateAgrees
  <2> HIDE DEF u
  <2> QED BY <2>1, <2>2, ValueStored
<1>2. f.sign = Negative(a) /\ Nearest(Double, f, Abs(SignedValue(a)))
  <2> DEFINE c == gp_f64_convert_uint128(Double, a)
             e == gp_f64_convert_uint128(Double, b)
  <2>1. Hi(a) # 0 => c.sign = FALSE /\ Nearest(Double, c, Value(a)) BY UnsignedToNearest
  <2>2. Hi(b) # 0 => e.sign = FALSE /\ Nearest(Double, e, Value(b)) BY <1>1, UnsignedToNearest
  <2>3. \E i, j, k : e = Float(i, j, k) BY DEF gp_f64_convert_uint128, Rounded
  <2>4. f = IF ~ Negative(a) THEN c ELSE Negated(e) BY DEF gp_f64_convert_int128
  <2> HIDE DEF c, e, f
  <2> QED BY <2>1, <2>2, <2>3, <2>4, WithSignToNearest
<1>3. s.sign = Negative(a) /\ Nearest(Single, s, Abs(SignedValue(a)))
  <2> DEFINE c == gp_f32_convert_uint128(Single, a)
             e == gp_f32_convert_uint128(Single, b)
  <2>1. Hi(a) # 0 => c.sign = FALSE /\ Nearest(Single, c, Value(a)) BY UnsignedToNearest
  <2>2. Hi(b) # 0 => e.sign = FALSE /\ Nearest(Single, e, Value(b)) BY <1>1, UnsignedToNearest
  <2>3. \E i, j, k : e = Float(i, j, k) BY DEF gp_f32_convert_uint128, Rounded
  <2>4. s = IF ~ Negative(a) THEN c ELSE Negated(e) BY DEF gp_f32_convert_int128
  <2> HIDE DEF c, e, s
  <2> QED BY <2>1, <2>2, <2>3, <2>4, WithSignToNearest
<1> QED BY <1>2, <1>3

\* A fraction and its implicit 1 are shifted by the exponent in either direction.
LEMMA MagnitudeAgrees ==
  ASSUME NEW format, IsFormat(format), NEW e \in (-1) .. (2 * WordBits - 1),
         NEW f, f.exponent = e, f.fraction \in 0 .. PowerOfTwo[format.fraction] - 1,
         NEW q, q = (FractionBits(format, f) * PowerOfTwo[e + 1]) \div PowerOfTwo[format.fraction + 1]
  PROVE  /\ q \in Int
         /\ e >= 0 => Magnitude(format, f) = Stored(q)
         /\ e < 0 => Zero = Stored(q)
<1> DEFINE F == format.fraction
           pF == PowerOfTwo[F]
           g == PowerOfTwo[F + 1]
           m == FractionBits(format, f)
           p == PowerOfTwo[e + 1]
<1>1. F \in Nat /\ F + 1 <= WordBits /\ g = 2 * pF /\ g <= Base /\ WordBits \in Nat \ {0} BY FormatBits, Counts
<1>2. e + 1 \in Nat /\ F + 1 \in Nat BY <1>1
<1>3. pF \in Nat \ {0} /\ g \in Nat \ {0} /\ p \in Nat \ {0} BY <1>1, <1>2, Positive
<1>4. m \in Nat /\ m < g /\ m \in 0 .. Base - 1
  <2>1. m = f.fraction + pF BY DEF FractionBits
  <2>2. f.fraction \in 0 .. pF - 1 /\ Base \in Nat BY Bases
  <2> HIDE DEF m, pF, g
  <2> QED BY <1>1, <1>3, <2>1, <2>2
<1>5. q = (m * p) \div g /\ q \in Int
  <2>1. q = (m * p) \div g OBVIOUS
  <2> HIDE DEF m, p, g
  <2> QED BY <1>3, <1>4, <2>1
<1>6. CASE e < 0
  <2>1. e + 1 = 0 /\ p = 1 BY <1>2, <1>6, PowersOfTwo
  <2>2. q = 0
    <3> HIDE DEF m, p, g
    <3>1. m * p = m BY <1>4, <2>1
    <3>2. m \div g = 0 BY <1>3, <1>4
    <3> QED BY <1>5, <3>1, <3>2
  <2>3. Stored(0) = Zero
    <3>1. 0 \in 0 .. Base - 1 BY Bases
    <3> QED BY <3>1, StoredLow DEF Zero
  <2> QED BY <1>5, <1>6, <2>2, <2>3
<1>7. CASE e > F
  <2> DEFINE k == e - F
             pk == PowerOfTwo[k]
  <2>1. k \in 0 .. 2 * WordBits - 1 /\ k \in Nat /\ k + (F + 1) = e + 1 BY <1>1, <1>7
  <2>2. p = pk * g
    <3>1. PowerOfTwo[k + (F + 1)] = PowerOfTwo[k] * PowerOfTwo[F + 1] BY <1>2, <2>1, PowerOfSum
    <3> QED BY <2>1, <3>1
  <2>3. pk \in Nat \ {0} BY <2>1, Positive
  <2>4. gp_uint128(0, m) \in TwoWords /\ Value(gp_uint128(0, m)) = m
    <3>1. 0 \in 0 .. Base - 1 /\ Base \in Nat BY Bases
    <3> DEFINE z == 0
    <3>2. z \in 0 .. Base - 1 BY <3>1
    <3> HIDE DEF z, m
    <3>3. gp_uint128(z, m) \in TwoWords /\ Value(gp_uint128(z, m)) = z * Base + m BY <1>4, <3>2, PairOf
    <3>4. z * Base + m = m BY <1>4, <3>1 DEF z
    <3> QED BY <3>3, <3>4 DEF z
  <2>5. Magnitude(format, f) = Stored(m * pk)
    <3>1. Magnitude(format, f) = gp_uint128_shift_left(gp_uint128(0, m), k) BY <1>7 DEF Magnitude
    <3> HIDE DEF k, m
    <3> QED BY <2>1, <2>4, <3>1, ShiftLeftAgrees
  <2>6. q = m * pk
    <3> DEFINE i == m * pk
               z == 0
    <3> HIDE DEF m, pk, p, g
    <3>1. i \in Int /\ z \in 0 .. g - 1 BY <1>3, <1>4, <2>3
    <3>2. m * p = i * g + z
      <4>1. m * (pk * g) = (m * pk) * g BY <1>3, <1>4, <2>3
      <4>2. i * g \in Int BY <1>3, <3>1
      <4> QED BY <2>2, <4>1, <4>2
    <3> HIDE DEF i, z
    <3>3. (i * g + z) \div g = i BY <1>3, <3>1, Quotients
    <3> QED BY <1>5, <3>2, <3>3 DEF i
  <2> QED BY <1>1, <1>5, <1>7, <2>5, <2>6
<1>8. CASE e >= 0 /\ ~ (e > F)
  <2> DEFINE k == F - e
             pk == PowerOfTwo[k]
             w == m \div pk
  <2>1. k \in Nat /\ k % WordBits = k /\ k + (e + 1) = F + 1 BY <1>1, <1>8
  <2>2. g = pk * p
    <3>1. PowerOfTwo[k + (e + 1)] = PowerOfTwo[k] * PowerOfTwo[e + 1] BY <1>2, <2>1, PowerOfSum
    <3> QED BY <2>1, <3>1
  <2>3. pk \in Nat \ {0} BY <2>1, Positive
  <2>4. Magnitude(format, f) = gp_uint128(0, w) BY <1>8, <2>1 DEF Magnitude, Right
  <2>5. w \in 0 .. Base - 1
    <3> DEFINE r == m % pk
    <3>1. w \in Int /\ r \in 0 .. pk - 1 /\ m = w * pk + r
      <4>1. m \in Int BY <1>4
      <4> HIDE DEF m, pk
      <4> QED BY <2>3, <4>1, Division
    <3>2. w >= 0
      <4> HIDE DEF m, pk
      <4> QED BY <1>4, <2>3
    <3> HIDE DEF r, w, pk, m
    <3>3. w <= w * pk /\ w * pk \in Int
      <4>1. w \in Nat BY <3>1, <3>2
      <4> QED BY <2>3, <4>1, ProductGrows
    <3> DEFINE i == w * pk
    <3>4. w <= i /\ i \in Int /\ m = i + r BY <3>1, <3>3
    <3> HIDE DEF i
    <3>5. Base \in Nat BY Bases
    <3> QED BY <1>4, <2>3, <3>1, <3>2, <3>4, <3>5
  <2>6. q = w
    <3> HIDE DEF m, pk, p, g
    <3> QED BY <1>3, <1>4, <1>5, <2>2, <2>3, ScaledQuotient
  <2> HIDE DEF w
  <2>7. Stored(w) = gp_uint128(0, w) BY <2>5, StoredLow
  <2> QED BY <1>5, <1>8, <2>4, <2>6, <2>7
<1> QED BY <1>1, <1>6, <1>7, <1>8

\* The negation of what stands for a number
LEMMA NegatedAgain ==
  ASSUME NEW q \in Int
  PROVE  gp_uint128_negate(Stored(q)) = Stored(- q)
<1> DEFINE u == Value(Stored(q))
           z == 0
<1>1. Stored(q) \in TwoWords BY ValueStored
<1>2. gp_uint128_negate(Stored(q)) = Stored(- u) BY <1>1, NegateAgrees
<1>3. u \in Int /\ z \in Int
  <2>1. u \in 0 .. Size - 1 /\ Size \in Nat BY <1>1, Parts, Tops
  <2> QED BY <2>1
<1>4. Stored(z - u) = Stored(z - q)
  <2> HIDE DEF z
  <2> QED BY <1>3, StoredAgain
<1> HIDE DEF u
<1>5. z - u = - u /\ z - q = - q BY <1>3
<1> HIDE DEF z
<1> QED BY <1>2, <1>4, <1>5

\* A number of a format, and the integer it stands for but for what is below one
StandsFor(format, e, r, f, q) ==
  /\ IsFormat(format) /\ e \in (-1) .. (2 * WordBits - 1)
  /\ r \in 0 .. PowerOfTwo[format.fraction] - 1 /\ f = Float(FALSE, e, r)
  /\ q = (FractionBits(format, f) * PowerOfTwo[e + 1]) \div PowerOfTwo[format.fraction + 1]

\* The conversions to integers lose only what is below one, of negative numbers what is below it in
\* magnitude.
LEMMA FloatsAgree ==
  ASSUME NEW format, NEW e, NEW r, NEW f, NEW q, StandsFor(format, e, r, f, q)
  PROVE  /\ gp_uint128_convert(format, f) = Stored(q)
         /\ e > 0 => /\ gp_int128_convert(format, f) = Stored(q)
                     /\ gp_int128_convert(format, Negated(f)) = Stored(- q)
<1>1. f.sign = FALSE /\ f.exponent = e /\ f.fraction = r BY DEF StandsFor, Float
<1>2. /\ q \in Int
      /\ e >= 0 => Magnitude(format, f) = Stored(q)
      /\ e < 0 => Zero = Stored(q) BY <1>1, MagnitudeAgrees DEF StandsFor
<1>3. e \in Int BY Counts DEF StandsFor
<1>4. gp_uint128_convert(format, f) = Stored(q)
  <2>1. CASE e < 0 BY <1>1, <1>2, <2>1 DEF gp_uint128_convert
  <2>2. CASE e >= 0
    <3>1. ~ (e < 0) BY <1>3, <2>2
    <3> QED BY <1>1, <1>2, <2>2, <3>1 DEF gp_uint128_convert
  <2> QED BY <1>3, <2>1, <2>2
<1>5. ASSUME e > 0
      PROVE  gp_int128_convert(format, f) = Stored(q) /\ gp_int128_convert(format, Negated(f)) = Stored(- q)
  <2> DEFINE n == Negated(f)
  <2>1. ~ (e <= 0) /\ e >= 0 BY <1>3, <1>5
  <2>2. gp_int128_convert(format, f) = Stored(q) BY <1>1, <1>2, <2>1 DEF gp_int128_convert
  <2>3. n.sign = TRUE /\ n.exponent = e /\ n.fraction = r
    <3> DEFINE s == FALSE
    <3>1. f = [sign |-> s, exponent |-> e, fraction |-> r] BY DEF StandsFor, Float
    <3> HIDE DEF s
    <3> QED BY <1>1, <3>1 DEF Negated
  <2> HIDE DEF n
  <2>4. Magnitude(format, n) = Magnitude(format, f) BY <1>1, <2>3 DEF Magnitude, FractionBits
  <2>5. gp_int128_convert(format, n) = gp_uint128_negate(Stored(q))
    <3>1. gp_int128_convert(format, n) = gp_uint128_negate(Magnitude(format, n))
      BY <2>1, <2>3 DEF gp_int128_convert
    <3> QED BY <1>2, <2>1, <2>4, <3>1
  <2>6. gp_uint128_negate(Stored(q)) = Stored(- q) BY <1>2, NegatedAgain
  <2> QED BY <2>2, <2>5, <2>6 DEF n
<1> QED BY <1>4, <1>5

\* The same of the number with the lower bits of an integer in its fraction
LEMMA IntegersAgree ==
  ASSUME NEW format, IsFormat(format), NEW e \in (-1) .. (2 * WordBits - 1), NEW v \in Int
  PROVE  LET f == Float(FALSE, e, v % PowerOfTwo[format.fraction])
             scaled == FractionBits(format, f) * PowerOfTwo[e + 1]
         IN  /\ gp_uint128_convert(format, f) = Stored(scaled \div PowerOfTwo[format.fraction + 1])
             /\ e > 0 =>
                 /\ gp_int128_convert(format, f) = Stored(scaled \div PowerOfTwo[format.fraction + 1])
                 /\ gp_int128_convert(format, Negated(f)) = Stored(-(scaled \div PowerOfTwo[format.fraction + 1]))
<1> DEFINE p == PowerOfTwo[format.fraction]
           r == v % p
           f == Float(FALSE, e, r)
           q == (FractionBits(format, f) * PowerOfTwo[e + 1]) \div PowerOfTwo[format.fraction + 1]
<1>1. r \in 0 .. PowerOfTwo[format.fraction] - 1
  <2>1. format.fraction \in Nat BY FormatBits
  <2>2. p \in Nat \ {0} BY <2>1, Positive
  <2>3. r \in 0 .. p - 1
    <3> HIDE DEF p
    <3> QED BY <2>2
  <2> QED BY <2>3
<1> HIDE DEF r
<1>2. f = Float(FALSE, e, r) OBVIOUS
<1> HIDE DEF f
<1>3. q = (FractionBits(format, f) * PowerOfTwo[e + 1]) \div PowerOfTwo[format.fraction + 1] OBVIOUS
<1> HIDE DEF q
<1>4. /\ gp_uint128_convert(format, f) = Stored(q)
      /\ e > 0 => /\ gp_int128_convert(format, f) = Stored(q)
                  /\ gp_int128_convert(format, Negated(f)) = Stored(- q)
  <2>1. StandsFor(format, e, r, f, q) BY <1>1, <1>2, <1>3 DEF StandsFor
  <2> QED BY <2>1, FloatsAgree
<1> QED BY <1>4, Zenon DEF q, f, r, p

\* ConversionsAgree: integers are converted to the nearest number of a format of floating point
\* numbers, and numbers of a format to the integer they stand for but for what is below one, for every
\* integer, every exponent and every format that fits a word.
THEOREM ConversionsAreNearest == Spec => []ConversionsAgree
<1>1. ASSUME IsInteger PROVE ConversionsAgree
  <2>1. x \in TwoWords BY <1>1 DEF IsInteger
  <2> DEFINE v == Value(x)
  <2>2. Hi(x) # 0 => /\ Nearest(Double, gp_f64_convert_uint128(Double, x), v)
                     /\ Nearest(Single, gp_f32_convert_uint128(Single, x), v)
    BY <2>1, UnsignedToNearest
  <2>3. Abs(SignedValue(x)) >= Base =>
          LET f == gp_f64_convert_int128(Double, x)
              s == gp_f32_convert_int128(Single, x)
          IN  /\ f.sign = Negative(x) /\ Nearest(Double, f, Abs(SignedValue(x)))
              /\ s.sign = Negative(x) /\ Nearest(Single, s, Abs(SignedValue(x)))
    BY <2>1, SignedToNearest
  <2>4. v \in Int
    <3>1. v \in 0 .. Size - 1 /\ Size \in Nat BY <2>1, Parts, Tops
    <3> QED BY <3>1
  <2> HIDE DEF v
  <2>5. ASSUME NEW format \in {Double, Single}, NEW e \in (-1) .. (2 * WordBits - 1)
        PROVE  LET f == Float(FALSE, e, v % PowerOfTwo[format.fraction])
                   scaled == FractionBits(format, f) * PowerOfTwo[e + 1]
               IN  /\ gp_uint128_convert(format, f) = Stored(scaled \div PowerOfTwo[format.fraction + 1])
                   /\ e > 0 =>
                       /\ gp_int128_convert(format, f) = Stored(scaled \div PowerOfTwo[format.fraction + 1])
                       /\ gp_int128_convert(format, Negated(f))
                            = Stored(-(scaled \div PowerOfTwo[format.fraction + 1]))
    <3>1. IsFormat(format) BY FormatsAssumption
    <3> QED BY <2>4, <3>1, IntegersAgree, Zenon
  <2> QED BY <2>2, <2>3, <2>5, Zenon DEF ConversionsAgree, v
<1> QED BY <1>1, RegistersHoldIntegers, PTL
=============================================================================
