----------------------------- MODULE CommonLemmas -----------------------------
(***************************************************************************)
(* Facts that proofs of several components rest on: what rounding up to an *)
(* alignment returns, powers of two, what is left of a sequence that an    *)
(* element is taken out of, and recursive functions over the natural       *)
(* numbers. Induction with an operator is out of the provers' reach, so    *)
(* induction here is about sets of numbers, from the least element of the  *)
(* complement, and a recursive function is shown to have the values its    *)
(* definition says because a sequence a, G[a], G[G[a]]... exists.          *)
(***************************************************************************)
EXTENDS Alignment, SequencesExt, SequenceTheorems, WellFoundedInduction, TLAPS

(* Taking one element out of a sequence moves the later ones down.         *)
LEMMA RemoveAtElements ==
  ASSUME NEW S, NEW s \in Seq(S), NEW i \in 1 .. Len(s)
  PROVE  /\ RemoveAt(s, i) \in Seq(S)
         /\ Len(RemoveAt(s, i)) = Len(s) - 1
         /\ \A j \in 1 .. Len(s) - 1 :
              RemoveAt(s, i)[j] = IF j < i THEN s[j] ELSE s[j + 1]
  <1> DEFINE l == SubSeq(s, 1, i - 1)
             r == SubSeq(s, i + 1, Len(s))
  <1>1. /\ l \in Seq(S) /\ Len(l) = i - 1
        /\ \A j \in 1 .. i - 1 : l[j] = s[j]
    OBVIOUS
  <1>2. /\ r \in Seq(S) /\ Len(r) = Len(s) - i
        /\ \A j \in 1 .. Len(s) - i : r[j] = s[i + j]
    OBVIOUS
  <1> HIDE DEF l, r
  <1>3. /\ l \o r \in Seq(S)
        /\ Len(l \o r) = Len(l) + Len(r)
        /\ \A j \in 1 .. Len(l) + Len(r) :
             (l \o r)[j] = IF j <= Len(l) THEN l[j] ELSE r[j - Len(l)]
    BY <1>1, <1>2, ConcatProperties
  <1>4. Len(s) \in Nat /\ Len(l) = i - 1 /\ Len(l) + Len(r) = Len(s) - 1
    BY <1>1, <1>2
  <1>5. ASSUME NEW j \in 1 .. Len(s) - 1
        PROVE  (l \o r)[j] = IF j < i THEN s[j] ELSE s[j + 1]
    <2>1. (l \o r)[j] = IF j <= i - 1 THEN l[j] ELSE r[j - (i - 1)]
      BY <1>3, <1>4
    <2>2. CASE j < i
      BY <1>1, <1>4, <2>1, <2>2
    <2>3. CASE ~ (j < i)
      <3>1. j - (i - 1) \in 1 .. Len(s) - i
        BY <1>4, <2>3
      <3>2. i + (j - (i - 1)) = j + 1
        BY <1>4
      <3>3. r[j - (i - 1)] = s[j + 1]
        BY <1>2, <3>1, <3>2
      <3> QED
        BY <1>4, <2>1, <2>3, <3>3
    <2> QED
      BY <2>2, <2>3
  <1> QED
    BY <1>3, <1>4, <1>5 DEF RemoveAt, l, r

(* Multiplication distributes over subtraction: a fact about integers.     *)
LEMMA Distributes ==
  ASSUME NEW a \in Int, NEW u \in Int, NEW v \in Int
  PROVE  a * (u - v) = a * u - a * v
  OBVIOUS

(* A larger factor gives a product at least as large.                      *)
LEMMA ProductOrder ==
  ASSUME NEW p \in Nat, NEW m \in Int, NEW n \in Int, m <= n
  PROVE  p * m <= p * n
  <1>1. p * n - p * m = p * (n - m)
    OBVIOUS
  <1>2. n - m \in Nat
    OBVIOUS
  <1> QED
    BY <1>1, <1>2

(* gp_round_to_aligned returns the next multiple of the boundary.          *)
LEMMA RoundingQuotient ==
  ASSUME NEW x \in Int, NEW b \in Nat \ {0}
  PROVE  /\ RoundToAligned(x, b) = b * ((x - 1) \div b + 1)
         /\ RoundToAligned(x, b) \in x .. x + b - 1
         /\ (x - 1) \div b \in Int
  <1>1. /\ x - 1 = b * ((x - 1) \div b) + ((x - 1) % b)
        /\ (x - 1) % b \in 0 .. b - 1
    OBVIOUS
  <1>2. (x - 1) \div b \in Int
    OBVIOUS
  <1>3. RoundToAligned(x, b) = b * ((x - 1) \div b + 1)
    BY <1>1, <1>2 DEF RoundToAligned
  <1> QED
    BY <1>1, <1>2, <1>3 DEF RoundToAligned

(* RoundToAligned(x, b) is a multiple of b, at or after x by less than b.  *)
LEMMA Rounding ==
  ASSUME NEW x \in Int, NEW b \in Nat \ {0}
  PROVE  /\ RoundToAligned(x, b) \in x .. x + b - 1
         /\ RoundToAligned(x, b) % b = 0
  <1> DEFINE q == (x - 1) \div b
  <1>1. RoundToAligned(x, b) = b * (q + 1) /\ q \in Int
    BY RoundingQuotient
  <1> HIDE DEF q
  <1>2. (b * (q + 1)) % b = 0
    BY <1>1
  <1> QED
    BY <1>1, <1>2, RoundingQuotient

\* A set of natural numbers that is not empty has a least element.
LEMMA Least ==
  ASSUME NEW T, T \subseteq Nat, T # {}
  PROVE  \E x \in T : \A y \in T : x <= y
<1>1. \E R : /\ IsWellFoundedOn(R, Nat)
             /\ \A x, y \in Nat : y < x => <<y, x>> \in R
  <2> DEFINE R == OpToRel(<, Nat)
  <2>0. IsWellFoundedOn(R, Nat)
    BY NatLessThanWellFounded
  <2>1. \A x, y \in Nat : y < x => <<y, x>> \in R
    BY DEF OpToRel
  <2> HIDE DEF R
  <2> QED BY <2>0, <2>1
<1>2. PICK R : IsWellFoundedOn(R, Nat) /\ \A x, y \in Nat : y < x => <<y, x>> \in R
  BY <1>1
<1>3. PICK x \in T : \A y \in T : ~ (<<y, x>> \in R)
  BY <1>2, WFMin
<1>4. \A y \in T : x \in Nat /\ y \in Nat /\ ~ (y < x)
  BY <1>2, <1>3
<1>5. \A y \in T : x <= y
  BY <1>4
<1> QED BY <1>5

\* Induction: a set with 0 in it, and with n + 1 in it whenever n is, has all
\* natural numbers in it.
LEMMA Induction ==
  ASSUME NEW T, 0 \in T, \A n \in Nat : n \in T => n + 1 \in T
  PROVE  Nat \subseteq T
<1> DEFINE U == Nat \ T
<1>1. CASE U = {} BY <1>1
<1>2. CASE U # {}
  <2>1. PICK x \in U : \A y \in U : x <= y BY <1>2, Least
  <2>2. x # 0 /\ x \in Nat BY <2>1
  <2>3. x - 1 \in Nat BY <2>2
  <2>4. x - 1 \notin U
    <3>1. ~(x <= x - 1) BY <2>2
    <3> QED BY <2>1, <3>1
  <2>5. x - 1 \in T BY <2>3, <2>4
  <2>6. (x - 1) + 1 = x BY <2>2
  <2>7. x \in T BY <2>5, <2>3, <2>6
  <2> QED BY <2>7, <2>1
<1> QED BY <1>1, <1>2

\* Min returns the least element.
LEMMA MinIsLeast ==
  ASSUME NEW T, T \subseteq Nat, T # {}
  PROVE  Min(T) \in T /\ \A y \in T : Min(T) <= y
BY Least DEF Min

\* f has the first n values of the sequence that begins with a and goes on by G
Begins(f, A, a, G, n) ==
  /\ f \in [0 .. n -> A]
  /\ f[0] = a
  /\ \A i \in Nat : i < n => f[i + 1] = G[f[i]]

\* Two beginnings of one sequence agree as far as the shorter one goes.
LEMMA BeginningsAgree ==
  ASSUME NEW A, NEW a \in A, NEW G \in [A -> A], NEW m \in Nat, NEW n \in Nat,
         NEW f, NEW g, Begins(f, A, a, G, m), Begins(g, A, a, G, n), m <= n
  PROVE  f[m] = g[m]
<1> DEFINE T == {i \in Nat : i <= m => f[i] = g[i]}
<1>1. 0 \in T BY DEF Begins
<1>2. ASSUME NEW i \in Nat, i \in T PROVE i + 1 \in T
  <2>1. CASE i + 1 <= m
    <3>1. i < m /\ i < n /\ i <= m BY <2>1
    <3>2. f[i + 1] = G[f[i]] /\ g[i + 1] = G[g[i]] BY <3>1 DEF Begins
    <3>3. f[i] = g[i] BY <3>1, <1>2
    <3> QED BY <3>2, <3>3
  <2>2. CASE ~ (i + 1 <= m) BY <2>2
  <2> QED BY <2>1, <2>2
<1> HIDE DEF T
<1>3. Nat \subseteq T BY <1>1, <1>2, Induction
<1>4. m \in T BY <1>3
<1> QED BY <1>4 DEF T

\* There is a function with the values a, G[a], G[G[a]]...: what a recursive
\* definition over the natural numbers stands for.
LEMMA Iteration ==
  ASSUME NEW A, NEW a \in A, NEW G \in [A -> A]
  PROVE  \E f \in [Nat -> A] : f[0] = a /\ \A n \in Nat : f[n + 1] = G[f[n]]
<1> DEFINE T == {n \in Nat : \E f : Begins(f, A, a, G, n)}
<1>1. 0 \in T
  <2>1. Begins([i \in 0 .. 0 |-> a], A, a, G, 0) BY DEF Begins
  <2> QED BY <2>1
<1>2. ASSUME NEW n \in Nat, n \in T PROVE n + 1 \in T
  <2>1. PICK f : Begins(f, A, a, G, n) BY <1>2
  <2> DEFINE g == [i \in 0 .. n + 1 |-> IF i <= n THEN f[i] ELSE G[f[n]]]
  <2>2. \A i \in 0 .. n : f[i] \in A BY <2>1 DEF Begins
  <2>3. g \in [0 .. n + 1 -> A] BY <2>2
  <2>4. g[0] = a BY <2>1 DEF Begins
  <2>5. ASSUME NEW i \in Nat, i < n + 1 PROVE g[i + 1] = G[g[i]]
    <3>1. CASE i < n
      <4>1. f[i + 1] = G[f[i]] BY <2>1, <3>1 DEF Begins
      <4> QED BY <4>1, <3>1
    <3>2. CASE i = n BY <3>2
    <3> QED BY <3>1, <3>2, <2>5
  <2>6. Begins(g, A, a, G, n + 1) BY <2>3, <2>4, <2>5 DEF Begins
  <2> QED BY <2>6
<1> HIDE DEF T
<1>3. Nat \subseteq T BY <1>1, <1>2, Induction
<1> DEFINE b == [n \in Nat |-> CHOOSE f : Begins(f, A, a, G, n)]
<1>4. \A n \in Nat : Begins(b[n], A, a, G, n)
  <2>1. ASSUME NEW n \in Nat PROVE Begins(b[n], A, a, G, n)
    <3>1. \E f : Begins(f, A, a, G, n) BY <1>3 DEF T
    <3>2. Begins(CHOOSE f : Begins(f, A, a, G, n), A, a, G, n) BY <3>1
    <3> QED BY <3>2
  <2> QED BY <2>1
<1> HIDE DEF b
<1> DEFINE F == [n \in Nat |-> b[n][n]]
<1>5. F \in [Nat -> A]
  <2>1. ASSUME NEW n \in Nat PROVE b[n][n] \in A
    <3>1. b[n] \in [0 .. n -> A] /\ n \in 0 .. n BY <1>4 DEF Begins
    <3> QED BY <3>1
  <2> QED BY <2>1
<1>6. F[0] = a BY <1>4 DEF Begins
<1>7. ASSUME NEW n \in Nat PROVE F[n + 1] = G[F[n]]
  <2>1. n < n + 1 /\ n <= n + 1 /\ n + 1 \in Nat OBVIOUS
  <2>2. Begins(b[n + 1], A, a, G, n + 1) BY <1>4, <2>1
  <2>3. b[n + 1][n + 1] = G[b[n + 1][n]] BY <2>2, <2>1 DEF Begins
  <2>4. Begins(b[n], A, a, G, n) BY <1>4
  <2>5. b[n][n] = b[n + 1][n] BY <2>2, <2>4, <2>1, BeginningsAgree
  <2> QED BY <2>3, <2>5
<1> QED BY <1>5, <1>6, <1>7

\* PowerOfTwo is the function its recursive definition says it is.
LEMMA PowersOfTwo ==
  /\ PowerOfTwo \in [Nat -> Nat]
  /\ PowerOfTwo[0] = 1
  /\ \A n \in Nat : PowerOfTwo[n + 1] = 2 * PowerOfTwo[n]
<1> DEFINE G == [x \in Nat |-> 2 * x]
<1>1. G \in [Nat -> Nat] OBVIOUS
<1>2. \A x \in Nat : G[x] = 2 * x OBVIOUS
<1> HIDE DEF G
<1>3. PICK f \in [Nat -> Nat] : f[0] = 1 /\ \A n \in Nat : f[n + 1] = G[f[n]]
  <2> DEFINE N == Nat
             one == 1
  <2>1. one \in N /\ G \in [N -> N] BY <1>1
  <2> HIDE DEF N, one
  <2>2. \E f \in [Nat -> N] : f[0] = one /\ \A n \in Nat : f[n + 1] = G[f[n]]
    BY <2>1, Iteration
  <2> QED BY <2>2 DEF N, one
<1>4. f = [n \in Nat |-> IF n = 0 THEN 1 ELSE 2 * f[n - 1]]
  <2>1. ASSUME NEW n \in Nat PROVE f[n] = IF n = 0 THEN 1 ELSE 2 * f[n - 1]
    <3>1. CASE n = 0 BY <3>1, <1>3
    <3>2. CASE n # 0
      <4>1. n - 1 \in Nat /\ (n - 1) + 1 = n BY <3>2
      <4>2. f[(n - 1) + 1] = G[f[n - 1]] BY <4>1, <1>3
      <4>3. f[n - 1] \in Nat BY <4>1
      <4> QED BY <4>1, <4>2, <4>3, <1>2, <3>2
    <3> QED BY <3>1, <3>2
  <2> QED BY <2>1
<1>5. PowerOfTwo = [n \in Nat |-> IF n = 0 THEN 1 ELSE 2 * PowerOfTwo[n - 1]]
  BY Zenon, <1>4 DEF PowerOfTwo
<1> DEFINE p == PowerOfTwo
<1> HIDE DEF p
<1>6. p = [n \in Nat |-> IF n = 0 THEN 1 ELSE 2 * p[n - 1]]
  BY Zenon, <1>5 DEF p
<1>7. p[0] = 1 /\ \A n \in Nat : p[n + 1] = 2 * p[n]
  <2>1. p[0] = 1 BY <1>6
  <2>2. ASSUME NEW n \in Nat PROVE p[n + 1] = 2 * p[n]
    <3>1. n + 1 \in Nat /\ n + 1 # 0 /\ (n + 1) - 1 = n OBVIOUS
    <3> QED BY <1>6, <3>1
  <2> QED BY <2>1, <2>2
<1>8. p \in [Nat -> Nat]
  <2> DEFINE T == {n \in Nat : p[n] \in Nat}
  <2>1. 0 \in T BY <1>7
  <2>2. \A n \in Nat : n \in T => n + 1 \in T BY <1>7
  <2> HIDE DEF T
  <2>3. Nat \subseteq T BY <2>1, <2>2, Induction
  <2>4. \A n \in Nat : p[n] \in Nat BY <2>3 DEF T
  <2>5. p = [n \in Nat |-> p[n]] BY <1>6
  <2> QED BY <2>4, <2>5
<1> QED BY <1>7, <1>8 DEF p

\* A fact about products
LEMMA Regroup ==
  ASSUME NEW a \in Nat, NEW b \in Nat
  PROVE  a * (2 * b) = 2 * (a * b)
OBVIOUS

\* A power of a sum is the product of the powers.
LEMMA PowerOfSum ==
  ASSUME NEW m \in Nat, NEW n \in Nat
  PROVE  PowerOfTwo[m + n] = PowerOfTwo[m] * PowerOfTwo[n]
<1> DEFINE p == PowerOfTwo
           T == {i \in Nat : p[m + i] = p[m] * p[i]}
<1> HIDE DEF p
<1>1. p \in [Nat -> Nat] /\ p[0] = 1 /\ \A i \in Nat : p[i + 1] = 2 * p[i]
  BY PowersOfTwo DEF p
<1>2. 0 \in T
  <2>1. m + 0 = m /\ p[m] \in Nat BY <1>1
  <2> QED BY <2>1, <1>1
<1>3. ASSUME NEW i \in Nat, i \in T PROVE i + 1 \in T
  <2>1. m + (i + 1) = (m + i) + 1 /\ m + i \in Nat OBVIOUS
  <2>2. p[m + (i + 1)] = 2 * p[m + i] BY <2>1, <1>1
  <2>3. p[i + 1] = 2 * p[i] /\ p[i] \in Nat /\ p[m] \in Nat BY <1>1
  <2>4. p[m] * (2 * p[i]) = 2 * (p[m] * p[i]) BY <2>3, Regroup
  <2> QED BY <2>2, <2>3, <2>4, <1>3
<1> HIDE DEF T
<1>4. Nat \subseteq T BY <1>2, <1>3, Induction
<1> QED BY <1>4 DEF T, p

\* A power of two exceeds its exponent.
LEMMA PowersExceed ==
  ASSUME NEW n \in Nat
  PROVE  n < PowerOfTwo[n]
<1> DEFINE p == PowerOfTwo
           T == {i \in Nat : i < p[i]}
<1> HIDE DEF p
<1>1. p \in [Nat -> Nat] /\ p[0] = 1 /\ \A i \in Nat : p[i + 1] = 2 * p[i]
  BY PowersOfTwo DEF p
<1>2. 0 \in T BY <1>1
<1>3. ASSUME NEW i \in Nat, i \in T PROVE i + 1 \in T
  BY <1>1, <1>3
<1> HIDE DEF T
<1>4. Nat \subseteq T BY <1>2, <1>3, Induction
<1> QED BY <1>4 DEF T, p

\* Powers of two are positive.
LEMMA Positive ==
  ASSUME NEW n \in Nat
  PROVE  PowerOfTwo[n] \in Nat \ {0}
<1>1. n < PowerOfTwo[n] /\ PowerOfTwo[n] \in Nat BY PowersExceed, PowersOfTwo
<1> QED BY <1>1

\* A product with a positive number is at least as large.
LEMMA ProductGrows ==
  ASSUME NEW a \in Nat, NEW b \in Nat \ {0}
  PROVE  a <= a * b
OBVIOUS

\* Powers of two increase.
LEMMA PowersIncrease ==
  ASSUME NEW m \in Nat, NEW n \in Nat, m <= n
  PROVE  PowerOfTwo[m] <= PowerOfTwo[n]
<1>1. n - m \in Nat /\ m + (n - m) = n OBVIOUS
<1>2. PowerOfTwo[n] = PowerOfTwo[m] * PowerOfTwo[n - m] BY <1>1, PowerOfSum
<1>3. PowerOfTwo[m] \in Nat /\ PowerOfTwo[n - m] \in Nat \ {0} BY <1>1, Positive
<1> QED BY <1>2, <1>3, ProductGrows

\* A smaller power of two has a smaller exponent.
LEMMA PowersReflectOrder ==
  ASSUME NEW m \in Nat, NEW n \in Nat, PowerOfTwo[m] < PowerOfTwo[n]
  PROVE  m < n
<1>1. CASE n <= m
  <2>1. PowerOfTwo[n] <= PowerOfTwo[m] BY <1>1, PowersIncrease
  <2>2. PowerOfTwo[m] \in Nat /\ PowerOfTwo[n] \in Nat BY Positive
  <2> QED BY <2>1, <2>2
<1> QED BY <1>1

\* f is what a loop returns that goes on from p to G[p] until p is in Stop, and
\* then returns R[p].
IsLoop(f, P, Stop, R, G) ==
  /\ f = [p \in P |-> f[p]]
  /\ \A p \in P : f[p] = IF p \in Stop THEN R[p] ELSE f[G[p]]

\* There is such a recursive function, whether the loop stops or not.
LEMMA TailRecursion ==
  ASSUME NEW P, NEW Stop, NEW R, NEW G \in [P -> P]
  PROVE  \E f : IsLoop(f, P, Stop, R, G)
<1> DEFINE IsWalk(w, p) ==
             w \in [Nat -> P] /\ w[0] = p /\ \A n \in Nat : w[n + 1] = G[w[n]]
           W(p) == CHOOSE w : IsWalk(w, p)
           E(p) == {q \in Stop : \E n \in Nat :
                      q = W(p)[n] /\ \A m \in Nat : m < n => W(p)[m] \notin Stop}
           f == [p \in P |-> R[CHOOSE q : q \in E(p)]]
<1>1. ASSUME NEW p \in P PROVE IsWalk(W(p), p)
  <2>1. \E w \in [Nat -> P] : w[0] = p /\ \A n \in Nat : w[n + 1] = G[w[n]]
    BY Iteration
  <2>2. \E w : IsWalk(w, p) BY <2>1
  <2> HIDE DEF IsWalk
  <2> QED BY <2>2
<1>2. ASSUME NEW p \in P, NEW n \in Nat PROVE W(G[p])[n] = W(p)[n + 1]
  <2>1. PICK q \in P : q = G[p] OBVIOUS
  <2>2. PICK v, w : v = W(p) /\ w = W(q) OBVIOUS
  <2>3. IsWalk(v, p) /\ IsWalk(w, q)
    <3>1. IsWalk(W(p), p) /\ IsWalk(W(q), q) BY <1>1
    <3> HIDE DEF IsWalk, W
    <3> QED BY <2>2, <3>1
  <2> DEFINE T == {m \in Nat : w[m] = v[m + 1]}
  <2>4. 0 \in T
    <3>1. v[0 + 1] = G[v[0]] BY <2>3
    <3> QED BY <3>1, <2>1, <2>3
  <2>5. ASSUME NEW m \in Nat, m \in T PROVE m + 1 \in T
    <3>1. w[m + 1] = G[w[m]] /\ v[(m + 1) + 1] = G[v[m + 1]] BY <2>3
    <3> QED BY <3>1, <2>5
  <2> HIDE DEF T
  <2>6. Nat \subseteq T BY <2>4, <2>5, Induction
  <2>7. n \in T BY <2>6
  <2> QED BY <2>7, <2>1, <2>2 DEF T
<1>3. ASSUME NEW p \in P, p \in Stop PROVE E(p) = {p}
  <2>1. W(p)[0] = p BY <1>1
  <2> HIDE DEF W
  <2>2. ASSUME NEW q \in E(p) PROVE q = p
    <3>1. PICK n \in Nat : q = W(p)[n] /\ \A m \in Nat : m < n => W(p)[m] \notin Stop
      OBVIOUS
    <3>2. n = 0 BY <3>1, <2>1, <1>3
    <3> QED BY <3>1, <3>2, <2>1
  <2>3. p \in E(p)
    <3>1. 0 \in Nat /\ \A m \in Nat : ~ (m < 0) OBVIOUS
    <3> QED BY <3>1, <2>1, <1>3
  <2> HIDE DEF E
  <2> QED BY <2>2, <2>3
<1>4. ASSUME NEW p \in P, p \notin Stop PROVE E(p) = E(G[p])
  <2>1. W(p)[0] = p /\ \A n \in Nat : W(G[p])[n] = W(p)[n + 1] BY <1>1, <1>2
  <2>2. PICK v, w : v = W(p) /\ w = W(G[p]) OBVIOUS
  <2>3. v[0] = p /\ \A n \in Nat : w[n] = v[n + 1] BY <2>1, <2>2
  <2>4. E(p) = {q \in Stop : \E n \in Nat :
                      q = v[n] /\ \A m \in Nat : m < n => v[m] \notin Stop}
    BY <2>2
  <2>5. E(G[p]) = {q \in Stop : \E n \in Nat :
                      q = w[n] /\ \A m \in Nat : m < n => w[m] \notin Stop}
    BY <2>2
  <2> HIDE DEF E
  <2>6. ASSUME NEW q \in E(p) PROVE q \in E(G[p])
    <3>1. PICK n \in Nat : q = v[n] /\ \A m \in Nat : m < n => v[m] \notin Stop
      BY <2>4
    <3>2. q \in Stop BY <2>4
    <3>3. n # 0 BY <3>1, <3>2, <2>3, <1>4
    <3>4. n - 1 \in Nat /\ (n - 1) + 1 = n BY <3>3
    <3>5. q = w[n - 1] BY <3>1, <3>4, <2>3
    <3>6. ASSUME NEW m \in Nat, m < n - 1 PROVE w[m] \notin Stop
      <4>1. m + 1 \in Nat /\ m + 1 < n BY <3>6
      <4>2. v[m + 1] \notin Stop BY <4>1, <3>1
      <4> QED BY <4>2, <2>3
    <3> QED BY <2>5, <3>2, <3>4, <3>5, <3>6
  <2>7. ASSUME NEW q \in E(G[p]) PROVE q \in E(p)
    <3>1. PICK n \in Nat : q = w[n] /\ \A m \in Nat : m < n => w[m] \notin Stop
      BY <2>5
    <3>2. q \in Stop BY <2>5
    <3>3. q = v[n + 1] /\ n + 1 \in Nat BY <3>1, <2>3
    <3>4. ASSUME NEW m \in Nat, m < n + 1 PROVE v[m] \notin Stop
      <4>1. CASE m = 0 BY <4>1, <2>3, <1>4
      <4>2. CASE m # 0
        <5>1. m - 1 \in Nat /\ (m - 1) + 1 = m /\ m - 1 < n BY <4>2, <3>4
        <5>2. w[m - 1] \notin Stop BY <5>1, <3>1
        <5> QED BY <5>1, <5>2, <2>3
      <4> QED BY <4>1, <4>2
    <3> QED BY <2>4, <3>2, <3>3, <3>4
  <2> QED BY <2>6, <2>7
<1> HIDE DEF E
<1>5. ASSUME NEW p \in P PROVE f[p] = IF p \in Stop THEN R[p] ELSE f[G[p]]
  <2>1. CASE p \in Stop
    <3>1. E(p) = {p} BY <2>1, <1>3
    <3>2. (CHOOSE q : q \in E(p)) = p BY <3>1
    <3>3. f[p] = R[CHOOSE q : q \in E(p)] OBVIOUS
    <3> HIDE DEF f
    <3> QED BY Zenon, <2>1, <3>2, <3>3
  <2>2. CASE p \notin Stop
    <3>1. E(p) = E(G[p]) BY <2>2, <1>4
    <3>2. G[p] \in P OBVIOUS
    <3>3. \A q \in P : f[q] = R[CHOOSE x : x \in E(q)] OBVIOUS
    <3> HIDE DEF f
    <3>4. f[p] = f[G[p]] BY Zenon, <3>1, <3>2, <3>3
    <3> QED BY <2>2, <3>4
  <2> QED BY <2>1, <2>2
<1>6. f = [p \in P |-> f[p]] OBVIOUS
<1> HIDE DEF f
<1>7. IsLoop(f, P, Stop, R, G) BY <1>5, <1>6 DEF IsLoop
<1> QED BY <1>7

==============================================================================
