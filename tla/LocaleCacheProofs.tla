--------------------------- MODULE LocaleCacheProofs ---------------------------
(***************************************************************************)
(* Proofs about gp_locale in module LocaleCache, for any number of threads *)
(* and codes and any hashes that differ.                                   *)
(*                                                                         *)
(* The argument. Only the thread that has the mutex writes, so the map is  *)
(* as that thread left it at each of its steps (HolderSound). Buckets that *)
(* were not cleared yet are not reached from the root but for the moment   *)
(* between PutArray and ClearArray, and are not on the way of anything     *)
(* that is in the map (MapSound); so a code that is in the map stays where *)
(* it is, whatever is put (Kept). A search that knows of it goes down its  *)
(* way and never past it (FinderSound).                                    *)
(***************************************************************************)
EXTENDS LocaleCache, SequenceTheorems, TLAPS

Putting == {"put", "clear array", "put child"}

Writing == Putting \cup {"create", "put value", "unlock"}

Searching == {"get hash", "get children"}

Reading == {"read locale", "read again"}

Labels == Writing \cup Searching \cup Reading \cup {"idle", "lock", "lost"}

Typed ==
  /\ hash \in [Buckets -> Codes \cup {NoCode, Junk}]
  /\ children \in [Buckets -> {"yes", "no", Junk}]
  /\ value \in [Buckets -> Codes \cup {Unavailable, Junk}]
  /\ mutex \in Threads \cup {Nobody}
  /\ pc \in [Threads -> Labels]
  /\ code \in [Threads -> Codes]
  /\ depth \in [Threads -> Nat \ {0}]
  /\ created \in [Codes -> Nat]
  /\ finished \in SUBSET Codes
  /\ known \in [Threads -> SUBSET Codes]

Exclusive ==
  \A t \in Threads : /\ pc[t] \in Writing => mutex = t
                     /\ mutex = t => pc[t] \in Writing \cup Searching

------------------------------------------------------------------------------

(* A bucket that can be read, and one that was never written.              *)
Clean(b) == hash[b] \in Codes \cup {NoCode} /\ children[b] \in {"yes", "no"}

Unset(b) == hash[b] = Junk /\ children[b] = Junk

(* The thread with the mutex is about to clear the children of b.          *)
Clearing(b) == mutex # Nobody /\ pc[mutex] = "clear array" /\ Here(mutex) = b

(* Buckets on the way of a code have hashes of codes that share the way so *)
(* far; what is below them can be read once it was cleared.                *)
BucketSound(c, d) ==
  LET b == BucketOf(c, d) IN
  /\ d = 1 => Clean(b)
  /\ hash[b] \in Codes => d \in DOMAIN Way[hash[b]] /\ BucketOf(hash[b], d) = b
  /\ children[b] = "yes" => hash[b] \in Codes
  /\ d + 1 \in DOMAIN Way[c] =>
       IF children[b] = "yes" /\ ~ Clearing(b) THEN Clean(BucketOf(c, d + 1))
                                               ELSE Unset(BucketOf(c, d + 1))

MapSound == \A c \in Codes : \A d \in DOMAIN Way[c] : BucketSound(c, d)

(* A search for code c gets to level d.                                    *)
PathTo(c, d) ==
  /\ d \in DOMAIN Way[c]
  /\ \A e \in 1 .. d - 1 : hash[BucketOf(c, e)] # c /\ children[BucketOf(c, e)] = "yes"

(* ... and finds its hash there.                                           *)
Holds(c, d) == PathTo(c, d) /\ hash[BucketOf(c, d)] = c

Kept(c, d) == Holds(c, d) /\ value[BucketOf(c, d)] = Stored(c)

Absent(c) == \A e \in Codes : \A d \in DOMAIN Way[e] : hash[BucketOf(e, d)] # c

(* What the thread with the mutex, at label p and level d of code c, has   *)
(* done so far.                                                            *)
HolderSound(p, c, d) ==
  /\ p \in Searching => PathTo(c, d)
  /\ p = "get children" => hash[BucketOf(c, d)] # c
  /\ p = "create" => created[c] = 0
  /\ p \in Putting => PathTo(c, d) /\ created[c] = 1 /\ Absent(c)
  /\ p \in {"clear array", "put child"} =>
       d + 1 \in DOMAIN Way[c] /\ children[BucketOf(c, d)] = "yes"
  /\ p = "put child" => hash[BucketOf(c, d + 1)] = NoCode
  /\ p = "put value" => Holds(c, d) /\ created[c] = 1
  /\ p = "unlock" => Kept(c, d)

BeingPut(c) ==
  mutex # Nobody /\ code[mutex] = c /\ pc[mutex] \in Putting \cup {"put value"}

CreatedSound(c) ==
  /\ created[c] \in {0, 1}
  /\ created[c] = 0 => Absent(c)
  /\ created[c] = 1 => BeingPut(c) \/ \E d \in DOMAIN Way[c] : Kept(c, d)

(* A thread at label p and level d of code c, which was in the map when    *)
(* its call began.                                                         *)
FinderSound(p, c, d) ==
  /\ p \in Searching \cup Reading \cup {"idle"}
  /\ \E k \in DOMAIN Way[c] : /\ Kept(c, k)
                              /\ p = "get hash" => d <= k
                              /\ p = "get children" => d < k
                              /\ p \in Reading => d = k

(* The inductive invariant.                                                *)
LocaleInv ==
  /\ Typed
  /\ Exclusive
  /\ MapSound
  /\ \A c \in Codes : CreatedSound(c)
  /\ \A c \in finished : \E d \in DOMAIN Way[c] : Kept(c, d)
  /\ \A t \in Threads :
       /\ mutex = t => HolderSound(pc[t], code[t], depth[t])
       /\ known[t] \subseteq finished
       /\ code[t] \in known[t] => mutex # t /\ FinderSound(pc[t], code[t], depth[t])

------------------------------------------------------------------------------

(* Sequences of the same length with the same elements are the same.       *)
LEMMA SameElements ==
  ASSUME NEW s \in Seq(Nat), NEW r \in Seq(Nat), Len(s) = Len(r),
         \A i \in 1 .. Len(s) : s[i] = r[i]
  PROVE  s = r
  OBVIOUS

(* A bucket is named by the first indices of a way.                        *)
LEMMA BucketIndices ==
  ASSUME NEW c \in Codes, NEW d \in DOMAIN Way[c]
  PROVE  /\ BucketOf(c, d) \in Buckets
         /\ BucketOf(c, d) \in Seq(Nat)
         /\ Len(BucketOf(c, d)) = d
         /\ \A i \in 1 .. d : BucketOf(c, d)[i] = Way[c][i]
         /\ Len(Way[c]) \in Nat /\ DOMAIN Way[c] = 1 .. Len(Way[c])
         /\ d \in 1 .. Len(Way[c])
  <1>1. Way[c] \in Seq(Nat) /\ Len(Way[c]) \in Nat /\ DOMAIN Way[c] = 1 .. Len(Way[c])
    <2>1. Way[c] \in Seq(Nat)
      BY LocaleCacheAssumption
    <2> QED
      BY <2>1
  <1>2. d \in 1 .. Len(Way[c])
    BY <1>1
  <1>3. /\ SubSeq(Way[c], 1, d) \in Seq(Nat) /\ Len(SubSeq(Way[c], 1, d)) = d
        /\ \A i \in 1 .. d : SubSeq(Way[c], 1, d)[i] = Way[c][i]
    BY <1>1, <1>2
  <1>4. BucketOf(c, d) \in Buckets
    BY DEF Buckets
  <1> QED
    BY <1>1, <1>2, <1>3, <1>4 DEF BucketOf

(* Ways that share a bucket are the same so far ...                        *)
LEMMA SameBucket ==
  ASSUME NEW c \in Codes, NEW d \in DOMAIN Way[c],
         NEW e \in Codes, NEW f \in DOMAIN Way[e], BucketOf(c, d) = BucketOf(e, f)
  PROVE  /\ d = f
         /\ \A g \in 1 .. d : /\ g \in DOMAIN Way[c] /\ g \in DOMAIN Way[e]
                              /\ BucketOf(c, g) = BucketOf(e, g)
  <1>1. d = f
    BY BucketIndices
  <1>2. \A i \in 1 .. d : Way[c][i] = Way[e][i]
    <2>1. \A i \in 1 .. d : BucketOf(c, d)[i] = Way[c][i]
      BY BucketIndices
    <2>2. \A i \in 1 .. d : BucketOf(e, d)[i] = Way[e][i]
      BY <1>1, BucketIndices
    <2> QED
      BY <1>1, <2>1, <2>2
  <1>3. ASSUME NEW g \in 1 .. d
        PROVE  /\ g \in DOMAIN Way[c] /\ g \in DOMAIN Way[e]
               /\ BucketOf(c, g) = BucketOf(e, g)
    <2>1. /\ g \in DOMAIN Way[c] /\ g \in DOMAIN Way[e] /\ d \in Nat
      BY <1>1, BucketIndices
    <2>2. /\ BucketOf(c, g) \in Seq(Nat) /\ Len(BucketOf(c, g)) = g
          /\ \A i \in 1 .. g : BucketOf(c, g)[i] = Way[c][i]
      BY <2>1, BucketIndices
    <2>3. /\ BucketOf(e, g) \in Seq(Nat) /\ Len(BucketOf(e, g)) = g
          /\ \A i \in 1 .. g : BucketOf(e, g)[i] = Way[e][i]
      BY <2>1, BucketIndices
    <2>4. ASSUME NEW i \in 1 .. g
          PROVE  BucketOf(c, g)[i] = BucketOf(e, g)[i]
      <3>1. i \in 1 .. d /\ Way[c][i] = Way[e][i]
        BY <1>2, <2>1
      <3> QED
        BY <2>2, <2>3, <3>1
    <2> QED
      BY <2>1, <2>2, <2>3, <2>4, SameElements
  <1> QED
    BY <1>1, <1>3

(* ... and go on, if they are of different codes.                          *)
LEMMA WaysPart ==
  ASSUME NEW c \in Codes, NEW e \in Codes, c # e, NEW d \in DOMAIN Way[c],
         d \in DOMAIN Way[e], BucketOf(c, d) = BucketOf(e, d)
  PROVE  d + 1 \in DOMAIN Way[c]
  <1>1. PICK i \in DOMAIN Way[c] \cap DOMAIN Way[e] : Way[c][i] # Way[e][i]
    BY LocaleCacheAssumption
  <1>2. /\ Len(Way[c]) \in Nat /\ DOMAIN Way[c] = 1 .. Len(Way[c])
        /\ i \in 1 .. Len(Way[c]) /\ d \in 1 .. Len(Way[c])
    BY BucketIndices
  <1>3. \A j \in 1 .. d : Way[c][j] = BucketOf(c, d)[j]
    BY BucketIndices
  <1>4. \A j \in 1 .. d : Way[e][j] = BucketOf(e, d)[j]
    BY BucketIndices
  <1>5. i \notin 1 .. d
    BY <1>1, <1>3, <1>4
  <1> QED
    BY <1>2, <1>5

(* What is below a bucket is what ways that share it go on to.             *)
LEMMA BucketsBelow ==
  ASSUME NEW c \in Codes, NEW d \in DOMAIN Way[c],
         NEW e \in Codes, NEW f \in DOMAIN Way[e]
  PROVE  BucketOf(e, f) \in ChildrenOf(BucketOf(c, d))
           <=> f = d + 1 /\ BucketOf(e, d) = BucketOf(c, d)
  <1> DEFINE b == BucketOf(c, d)
             x == BucketOf(e, f)
  <1>1. /\ x \in Buckets /\ x \in Seq(Nat) /\ Len(x) = f /\ f \in Nat \ {0}
        /\ \A i \in 1 .. f : x[i] = Way[e][i]
    BY BucketIndices
  <1>2. /\ Len(b) = d /\ d \in Nat \ {0}
    BY BucketIndices
  <1> HIDE DEF b, x
  <1>3. x \in ChildrenOf(b) <=> f = d + 1 /\ SubSeq(x, 1, d) = b
    BY <1>1, <1>2 DEF ChildrenOf
  <1>4. ASSUME f = d + 1
        PROVE  SubSeq(x, 1, d) = BucketOf(e, d)
    <2>1. /\ SubSeq(x, 1, d) \in Seq(Nat) /\ Len(SubSeq(x, 1, d)) = d
          /\ \A i \in 1 .. d : SubSeq(x, 1, d)[i] = x[i]
      BY <1>1, <1>2, <1>4
    <2>2. d \in DOMAIN Way[e]
      BY <1>2, <1>4, BucketIndices
    <2>3. /\ BucketOf(e, d) \in Seq(Nat) /\ Len(BucketOf(e, d)) = d
          /\ \A i \in 1 .. d : BucketOf(e, d)[i] = Way[e][i]
      BY <2>2, BucketIndices
    <2>4. \A i \in 1 .. d : SubSeq(x, 1, d)[i] = BucketOf(e, d)[i]
      BY <1>1, <1>2, <1>4, <2>1, <2>3
    <2> QED
      BY <2>1, <2>3, <2>4, SameElements
  <1> QED
    BY <1>3, <1>4 DEF b, x

------------------------------------------------------------------------------

(* Nothing is in the map and nobody asks to begin with.                    *)
LEMMA LocaleInitSound == Init => LocaleInv
  <1> SUFFICES ASSUME Init PROVE LocaleInv
    OBVIOUS
  <1>0. /\ NoCode \notin Codes /\ Junk \notin Codes \cup {NoCode, "yes", "no"}
        /\ Nobody \notin Threads
    BY LocaleCacheAssumption DEF NoCode
  <1>1. Typed
    <2>1. "idle" \in Labels /\ 1 \in Nat \ {0} /\ 0 \in Nat
      BY DEF Labels
    <2>2. /\ hash \in [Buckets -> Codes \cup {NoCode, Junk}]
          /\ children \in [Buckets -> {"yes", "no", Junk}]
          /\ value \in [Buckets -> Codes \cup {Unavailable, Junk}]
      BY DEF Init
    <2> QED
      BY <2>1, <2>2 DEF Init, Typed
  <1>2. Exclusive
    BY <1>0 DEF Init, Exclusive, Writing, Putting
  <1>3. ASSUME NEW c \in Codes, NEW d \in DOMAIN Way[c]
        PROVE  /\ BucketSound(c, d)
               /\ hash[BucketOf(c, d)] # c
    <2>1. /\ BucketOf(c, d) \in Buckets /\ Len(BucketOf(c, d)) = d
          /\ d \in Nat \ {0} /\ d + 1 # 1
      <3>1. Len(Way[c]) \in Nat /\ d \in 1 .. Len(Way[c])
        BY BucketIndices
      <3> QED
        BY <3>1, BucketIndices
    <2>2. d + 1 \in DOMAIN Way[c] =>
            BucketOf(c, d + 1) \in Buckets /\ Len(BucketOf(c, d + 1)) = d + 1
      <3> DEFINE e == d + 1
      <3>1. e \in DOMAIN Way[c] => BucketOf(c, e) \in Buckets /\ Len(BucketOf(c, e)) = e
        BY BucketIndices
      <3> QED
        BY <3>1
    <2>3. /\ hash[BucketOf(c, d)] \notin Codes /\ children[BucketOf(c, d)] # "yes"
          /\ d = 1 => Clean(BucketOf(c, d))
      BY <1>0, <2>1 DEF Init, Clean
    <2>4. d + 1 \in DOMAIN Way[c] => Unset(BucketOf(c, d + 1))
      BY <2>1, <2>2 DEF Init, Unset
    <2> QED
      BY <2>3, <2>4 DEF BucketSound
  <1>4. \A c \in Codes : CreatedSound(c)
    <2>1. \A c \in Codes : Absent(c)
      <3>1. \A b \in Buckets : hash[b] \notin Codes
        BY <1>0 DEF Init
      <3>2. \A e \in Codes : \A d \in DOMAIN Way[e] : BucketOf(e, d) \in Buckets
        BY BucketIndices
      <3> QED
        BY <3>1, <3>2 DEF Absent
    <2>2. \A c \in Codes : created[c] = 0
      BY DEF Init
    <2> QED
      BY <2>1, <2>2 DEF CreatedSound
  <1> QED
    BY <1>0, <1>1, <1>2, <1>3, <1>4 DEF Init, LocaleInv, MapSound

(* A search gets to buckets that can be read, unless one on its way is     *)
(* about to get its children.                                              *)
LEMMA ReachedClean ==
  ASSUME MapSound, NEW c \in Codes, NEW d, PathTo(c, d),
         \A b : ~ Clearing(b)
  PROVE  Clean(BucketOf(c, d))
  <1>1. d \in DOMAIN Way[c] /\ Len(Way[c]) \in Nat
        /\ DOMAIN Way[c] = 1 .. Len(Way[c])
    BY BucketIndices DEF PathTo
  <1>2. CASE d = 1
    BY <1>1, <1>2 DEF MapSound, BucketSound
  <1>3. CASE d # 1
    <2> DEFINE e == d - 1
    <2>1. e \in DOMAIN Way[c] /\ e + 1 = d /\ e \in 1 .. d - 1
      BY <1>1, <1>3
    <2>2. children[BucketOf(c, e)] = "yes"
      BY <2>1 DEF PathTo
    <2>3. BucketSound(c, e)
      BY <2>1 DEF MapSound
    <2> HIDE DEF e
    <2> QED
      BY <1>1, <2>1, <2>2, <2>3 DEF BucketSound
  <1> QED
    BY <1>2, <1>3

(* The way of a code goes on below a bucket that has another's hash.       *)
LEMMA WayGoesOn ==
  ASSUME MapSound, NEW c \in Codes, NEW d \in DOMAIN Way[c],
         hash[BucketOf(c, d)] \in Codes, hash[BucketOf(c, d)] # c
  PROVE  d + 1 \in DOMAIN Way[c]
  <1>1. PICK e \in Codes : e = hash[BucketOf(c, d)]
    OBVIOUS
  <1>2. d \in DOMAIN Way[e] /\ BucketOf(e, d) = BucketOf(c, d)
    BY <1>1 DEF MapSound, BucketSound
  <1> QED
    BY <1>1, <1>2, WaysPart

(* ... and to the next level of a search.                                  *)
LEMMA PathGoesOn ==
  ASSUME NEW c \in Codes, NEW d, PathTo(c, d), d + 1 \in DOMAIN Way[c],
         hash[BucketOf(c, d)] # c, children[BucketOf(c, d)] = "yes"
  PROVE  PathTo(c, d + 1)
  <1>1. d \in Nat
    BY BucketIndices DEF PathTo
  <1>2. ASSUME NEW e \in 1 .. (d + 1) - 1
        PROVE  e \in 1 .. d - 1 \/ e = d
    BY <1>1
  <1> QED
    BY <1>2 DEF PathTo

(* A search that gets to level d has not passed the code.                  *)
LEMMA NotPassed ==
  ASSUME NEW c \in Codes, NEW d, PathTo(c, d), NEW k \in DOMAIN Way[c], Holds(c, k)
  PROVE  d <= k /\ (hash[BucketOf(c, d)] # c => d < k)
  <1>1. d \in Nat /\ k \in Nat \ {0}
    BY BucketIndices DEF PathTo
  <1>2. ~ (k < d)
    <2>1. k < d => k \in 1 .. d - 1
      BY <1>1
    <2> QED
      BY <2>1 DEF PathTo, Holds
  <1> QED
    BY <1>1, <1>2 DEF Holds

------------------------------------------------------------------------------

(* What a thread knows of the map stays so while the map does.             *)
LEMMA SameMap ==
  ASSUME UNCHANGED << map, created >>, NEW p, NEW c, NEW d
  PROVE  /\ HolderSound(p, c, d) => HolderSound(p, c, d)'
         /\ Kept(c, d) => Kept(c, d)'
         /\ Absent(c) => Absent(c)'
         /\ PathTo(c, d) => PathTo(c, d)'
         /\ Holds(c, d) => Holds(c, d)'
  BY DEF HolderSound, PathTo, Holds, Kept, Absent, map

LEMMA FinderKept ==
  ASSUME NEW p, NEW c, NEW d, FinderSound(p, c, d),
         \A k \in DOMAIN Way[c] : Kept(c, k) => Kept(c, k)'
  PROVE  FinderSound(p, c, d)'
  BY DEF FinderSound

(* A step that leaves thread t at label p and level d of code c, knowing k. *)
ThreadMoves(t, p, c, d, k) ==
  /\ p \in Labels /\ c \in Codes /\ d \in Nat \ {0} /\ k \in SUBSET Codes
  /\ pc' = [pc EXCEPT ![t] = p]
  /\ code' = [code EXCEPT ![t] = c]
  /\ depth' = [depth EXCEPT ![t] = d]
  /\ known' = [known EXCEPT ![t] = k]

(* It takes the mutex from nobody and gives back only its own.             *)
MutexMoves(t, p) ==
  /\ mutex' \in {mutex, t, Nobody}
  /\ mutex' # mutex => mutex \in {t, Nobody}
  /\ p \in Writing => mutex' = t
  /\ mutex' = t => p \in Writing \cup Searching

(* Only the thread with the mutex writes.                                  *)
MapMoves(t) ==
  /\ hash' \in [Buckets -> Codes \cup {NoCode, Junk}]
  /\ children' \in [Buckets -> {"yes", "no", Junk}]
  /\ value' \in [Buckets -> Codes \cup {Unavailable, Junk}]
  /\ created' \in [Codes -> Nat]
  /\ mutex # t => UNCHANGED << map, created >>

AllKept == \A c \in Codes : \A d \in DOMAIN Way[c] : Kept(c, d) => Kept(c, d)'

FinishedMoves ==
  /\ finished' \in SUBSET Codes /\ finished \subseteq finished'
  /\ \A c \in finished' : \E d \in DOMAIN Way[c] : Kept(c, d)'

(* What the step has to show of the thread itself.                         *)
OwnSound(t, p, c, d, k) ==
  /\ mutex' = t => HolderSound(p, c, d)'
  /\ k \subseteq finished'
  /\ c \in k => mutex' # t /\ FinderSound(p, c, d)'

(* Where a thread is after a step is where it was left.                    *)
LEMMA PlaceAfter ==
  ASSUME NEW u, NEW p, NEW c, NEW d, p = pc'[u], c = code'[u], d = depth'[u]
  PROVE  /\ HolderSound(p, c, d)' => HolderSound(pc[u], code[u], depth[u])'
         /\ FinderSound(p, c, d)' => FinderSound(pc[u], code[u], depth[u])'
  BY DEF HolderSound, FinderSound, Kept, Holds, PathTo, Absent

(* A step that keeps what is in the map leaves the other threads' places   *)
(* in it as they were.                                                     *)
LEMMA StepKeeps ==
  ASSUME LocaleInv, NEW t \in Threads, NEW p, NEW c, NEW d, NEW k,
         ThreadMoves(t, p, c, d, k), MutexMoves(t, p), MapMoves(t), FinishedMoves,
         AllKept, OwnSound(t, p, c, d, k), MapSound',
         \A e \in Codes : CreatedSound(e)'
  PROVE  LocaleInv'
  <1>1. Nobody \notin Threads
    BY LocaleCacheAssumption
  <1>2. ASSUME NEW u \in Threads
        PROVE  /\ pc'[u] = IF u = t THEN p ELSE pc[u]
               /\ code'[u] = IF u = t THEN c ELSE code[u]
               /\ depth'[u] = IF u = t THEN d ELSE depth[u]
               /\ known'[u] = IF u = t THEN k ELSE known[u]
    BY DEF LocaleInv, Typed, ThreadMoves
  <1>3. Typed'
    <2>1. /\ pc' \in [Threads -> Labels] /\ code' \in [Threads -> Codes]
          /\ depth' \in [Threads -> Nat \ {0}]
          /\ known' \in [Threads -> SUBSET Codes]
      BY DEF LocaleInv, Typed, ThreadMoves
    <2>2. mutex' \in Threads \cup {Nobody}
      BY DEF LocaleInv, Typed, MutexMoves
    <2> QED
      BY <2>1, <2>2 DEF Typed, MapMoves, FinishedMoves
  <1>4. Exclusive'
    BY <1>1, <1>2 DEF LocaleInv, Exclusive, MutexMoves
  <1>5. ASSUME NEW u \in Threads
        PROVE  /\ (mutex = u => HolderSound(pc[u], code[u], depth[u]))'
               /\ (known[u] \subseteq finished)'
               /\ (code[u] \in known[u] =>
                     mutex # u /\ FinderSound(pc[u], code[u], depth[u]))'
    <2>1. CASE u = t
      BY <1>2, <2>1, PlaceAfter DEF OwnSound
    <2>2. CASE u # t
      <3>1. PICK q, e, f : q = pc[u] /\ e = code[u] /\ f = depth[u]
        OBVIOUS
      <3>2. q = pc'[u] /\ e = code'[u] /\ f = depth'[u] /\ known'[u] = known[u]
        BY <1>2, <2>2, <3>1
      <3>3. mutex' = u => mutex = u /\ UNCHANGED << map, created >>
        BY <1>1, <2>2 DEF MutexMoves, MapMoves
      <3>4. mutex = u => HolderSound(q, e, f)
        BY <3>1 DEF LocaleInv
      <3>5. mutex' = u => HolderSound(q, e, f)'
        BY <3>3, <3>4, SameMap
      <3>6. e \in known[u] => mutex # u /\ FinderSound(q, e, f)
        BY <3>1 DEF LocaleInv
      <3>7. e \in Codes
        BY <3>1 DEF LocaleInv, Typed
      <3>8. e \in known[u] => FinderSound(q, e, f)'
        BY <3>6, <3>7, FinderKept DEF AllKept
      <3>9. e \in known[u] => mutex' # u
        BY <1>1, <2>2, <3>6 DEF MutexMoves
      <3>10. known[u] \subseteq finished'
        BY DEF LocaleInv, FinishedMoves
      <3> QED
        BY <3>2, <3>5, <3>8, <3>9, <3>10, PlaceAfter
    <2> QED
      BY <2>1, <2>2
  <1>6. /\ \A u \in Threads :
             /\ (mutex = u => HolderSound(pc[u], code[u], depth[u]))'
             /\ (known[u] \subseteq finished)'
             /\ (code[u] \in known[u] =>
                   mutex # u /\ FinderSound(pc[u], code[u], depth[u]))'
        /\ \A e \in finished' : \E f \in DOMAIN Way[e] : Kept(e, f)'
    BY <1>5 DEF FinishedMoves
  <1> QED
    BY <1>3, <1>4, <1>6 DEF LocaleInv

(* A step that does not write. The thread neither begins nor ends a put.   *)
Quiet(t, p, c) ==
  /\ UNCHANGED << map, created >>
  /\ pc[t] # "clear array" /\ p # "clear array"
  /\ pc[t] \in Putting \cup {"put value"} =>
       p \in Putting /\ c = code[t] /\ mutex' = mutex

QuietOwn(t, p, c, d, k) ==
  /\ mutex' = t => HolderSound(p, c, d)
  /\ k \subseteq finished'
  /\ c \in k => mutex' # t /\ FinderSound(p, c, d)

LEMMA QuietStep ==
  ASSUME LocaleInv, NEW t \in Threads, NEW p, NEW c, NEW d, NEW k,
         ThreadMoves(t, p, c, d, k), MutexMoves(t, p), FinishedMoves,
         QuietOwn(t, p, c, d, k), Quiet(t, p, c)
  PROVE  LocaleInv'
  <1>1. Nobody \notin Threads
    BY LocaleCacheAssumption
  <1>2. ASSUME NEW u \in Threads
        PROVE  /\ pc'[u] = IF u = t THEN p ELSE pc[u]
               /\ code'[u] = IF u = t THEN c ELSE code[u]
               /\ depth'[u] = IF u = t THEN d ELSE depth[u]
    BY DEF LocaleInv, Typed, ThreadMoves
  <1>3. MapMoves(t)
    BY DEF LocaleInv, Typed, MapMoves, Quiet, map
  <1>4. AllKept
    BY SameMap DEF AllKept, Quiet
  <1>5. mutex \in Threads \cup {Nobody}
    BY DEF LocaleInv, Typed
  <1>6. ASSUME NEW b
        PROVE  Clearing(b)' <=> Clearing(b)
    <2>1. CASE mutex \in {t, Nobody}
      <3>1. mutex' \in {t, Nobody}
        BY <2>1 DEF MutexMoves
      <3> QED
        BY <1>1, <1>2, <2>1, <3>1 DEF Clearing, Quiet
    <2>2. CASE mutex \notin {t, Nobody}
      BY <1>2, <1>5, <2>2 DEF MutexMoves, Clearing, Here
    <2> QED
      BY <2>1, <2>2
  <1>7. MapSound'
    <2>1. ASSUME NEW e \in Codes, NEW f \in DOMAIN Way[e]
          PROVE  BucketSound(e, f)'
      <3>1. BucketSound(e, f)
        BY DEF LocaleInv, MapSound
      <3> QED
        BY <1>6, <3>1 DEF BucketSound, Clean, Unset, Quiet, map
    <2> QED
      BY <2>1 DEF MapSound
  <1>8. ASSUME NEW e \in Codes
        PROVE  CreatedSound(e)'
    <2>1. CreatedSound(e)
      BY DEF LocaleInv
    <2>2. BeingPut(e) => BeingPut(e)'
      <3>1. CASE mutex = t
        BY <1>1, <1>2, <3>1 DEF BeingPut, Quiet
      <3>2. CASE mutex \notin {t, Nobody}
        BY <1>2, <1>5, <3>2 DEF MutexMoves, BeingPut
      <3> QED
        BY <3>1, <3>2 DEF BeingPut
    <2>3. /\ Absent(e) => Absent(e)'
          /\ (\E f \in DOMAIN Way[e] : Kept(e, f)) => \E f \in DOMAIN Way[e] : Kept(e, f)'
      BY <1>4, SameMap DEF AllKept, Quiet
    <2>4. created' = created
      BY DEF Quiet
    <2> QED
      BY <2>1, <2>2, <2>3, <2>4 DEF CreatedSound
  <1>9. OwnSound(t, p, c, d, k)
    <2>1. c \in Codes
      BY DEF ThreadMoves
    <2> QED
      BY <1>4, <2>1, SameMap, FinderKept DEF QuietOwn, OwnSound, AllKept, Quiet
  <1> QED
    BY <1>3, <1>4, <1>7, <1>8, <1>9, StepKeeps

------------------------------------------------------------------------------

(* The bucket a search with the mutex looks at can be read, and if it is   *)
(* at the end of its way the code is not in the map.                       *)
LEMMA HolderSearch ==
  ASSUME LocaleInv, NEW t \in Threads, mutex = t, pc[t] \in Searching
  PROVE  /\ Clean(Here(t))
         /\ pc[t] = "get children" /\ children[Here(t)] = "no" => created[code[t]] = 0
         /\ pc[t] = "get children" /\ children[Here(t)] = "yes" =>
              PathTo(code[t], depth[t] + 1)
         /\ hash[Here(t)] = code[t] => Kept(code[t], depth[t])
  <1> DEFINE c == code[t]
             d == depth[t]
  <1>1. MapSound /\ c \in Codes /\ CreatedSound(c) /\ PathTo(c, d)
    BY DEF LocaleInv, Typed, HolderSound
  <1>2. ~ BeingPut(c) /\ \A b : ~ Clearing(b)
    BY DEF BeingPut, Clearing, Searching, Putting
  <1>3. Here(t) = BucketOf(c, d) /\ d \in DOMAIN Way[c]
    BY <1>1 DEF Here, PathTo
  <1>4. pc[t] = "get children" => hash[BucketOf(c, d)] # c
    BY DEF LocaleInv, HolderSound
  <1> HIDE DEF c, d
  <1>5. Clean(BucketOf(c, d))
    BY <1>1, <1>2, ReachedClean
  <1>6. created[c] = 1 => \E k \in DOMAIN Way[c] : Kept(c, k)
    BY <1>1, <1>2 DEF CreatedSound
  <1>7. hash[BucketOf(c, d)] # c /\ children[BucketOf(c, d)] = "no" => created[c] = 0
    <2>1. SUFFICES ASSUME NEW k \in DOMAIN Way[c], Kept(c, k),
                          hash[BucketOf(c, d)] # c, children[BucketOf(c, d)] = "no"
                   PROVE  FALSE
      BY <1>1, <1>6 DEF CreatedSound
    <2>2. d < k
      BY <1>1, <2>1, NotPassed DEF Kept
    <2>3. d \in 1 .. k - 1
      <3>1. Len(Way[c]) \in Nat /\ d \in 1 .. Len(Way[c]) /\ k \in 1 .. Len(Way[c])
        BY <1>1, <1>3, BucketIndices
      <3> QED
        BY <2>2, <3>1
    <2> QED
      BY <2>1, <2>3 DEF Kept, Holds, PathTo
  <1>8. hash[BucketOf(c, d)] # c /\ children[BucketOf(c, d)] = "yes" => PathTo(c, d + 1)
    <2>1. SUFFICES ASSUME hash[BucketOf(c, d)] # c, children[BucketOf(c, d)] = "yes"
                   PROVE  PathTo(c, d + 1)
      OBVIOUS
    <2>2. hash[BucketOf(c, d)] \in Codes
      BY <1>1, <1>3, <2>1 DEF MapSound, BucketSound
    <2>3. d + 1 \in DOMAIN Way[c]
      BY <1>1, <1>3, <2>1, <2>2, WayGoesOn
    <2> QED
      BY <1>1, <2>1, <2>3, PathGoesOn
  <1>9. hash[BucketOf(c, d)] = c => Kept(c, d)
    <2>1. SUFFICES ASSUME hash[BucketOf(c, d)] = c PROVE Kept(c, d)
      OBVIOUS
    <2>2. ~ Absent(c)
      BY <1>1, <1>3, <2>1 DEF Absent
    <2>3. PICK k \in DOMAIN Way[c] : Kept(c, k)
      BY <1>1, <1>6, <2>2 DEF CreatedSound
    <2>4. d <= k
      BY <1>1, <2>3, NotPassed DEF Kept
    <2>5. ~ (d < k)
      <3>1. Len(Way[c]) \in Nat /\ d \in 1 .. Len(Way[c]) /\ k \in 1 .. Len(Way[c])
        BY <1>1, <1>3, BucketIndices
      <3>2. d < k => d \in 1 .. k - 1
        BY <3>1
      <3> QED
        BY <2>1, <2>3, <3>2 DEF Kept, Holds, PathTo
    <2>6. d = k
      <3>1. Len(Way[c]) \in Nat /\ d \in 1 .. Len(Way[c]) /\ k \in 1 .. Len(Way[c])
        BY <1>1, <1>3, BucketIndices
      <3> QED
        BY <2>4, <2>5, <3>1
    <2> QED
      BY <2>3, <2>6
  <1> QED
    BY <1>3, <1>4, <1>5, <1>7, <1>8, <1>9 DEF c, d

(* Nothing is finished by a step that writes nothing.                      *)
LEMMA FinishedSame ==
  ASSUME LocaleInv, UNCHANGED << map, created, finished >>
  PROVE  FinishedMoves
  BY SameMap DEF LocaleInv, Typed, FinishedMoves

(* Facts about a thread at some place, from the invariant.                 *)
LEMMA ThreadFacts ==
  ASSUME LocaleInv, NEW t \in Threads
  PROVE  /\ code[t] \in Codes /\ depth[t] \in Nat \ {0} /\ depth[t] + 1 \in Nat \ {0}
         /\ known[t] \in SUBSET Codes /\ known[t] \subseteq finished
         /\ finished \in SUBSET Codes
         /\ UNCHANGED code => code' = [code EXCEPT ![t] = code[t]]
         /\ UNCHANGED depth => depth' = [depth EXCEPT ![t] = depth[t]]
         /\ UNCHANGED known => known' = [known EXCEPT ![t] = known[t]]
         /\ 1 \in DOMAIN Way[code[t]] /\ t # Nobody
         /\ pc[t] \in Writing => mutex = t
         /\ pc[t] \notin Writing \cup Searching => mutex # t
         /\ mutex = t => HolderSound(pc[t], code[t], depth[t])
         /\ code[t] \in known[t] => mutex # t /\ FinderSound(pc[t], code[t], depth[t])
  <1>1. code[t] \in Codes /\ depth[t] \in Nat \ {0} /\ known[t] \in SUBSET Codes
    BY DEF LocaleInv, Typed
  <1>2. 1 \in DOMAIN Way[code[t]]
    <2>1. Way[code[t]] \in Seq(Nat) /\ Way[code[t]] # << >>
      BY <1>1, LocaleCacheAssumption
    <2> QED
      BY <2>1
  <1>3. t # Nobody
    BY LocaleCacheAssumption
  <1>4. depth[t] + 1 \in Nat \ {0}
    BY <1>1
  <1>5. /\ UNCHANGED code => code' = [code EXCEPT ![t] = code[t]]
        /\ UNCHANGED depth => depth' = [depth EXCEPT ![t] = depth[t]]
        /\ UNCHANGED known => known' = [known EXCEPT ![t] = known[t]]
    BY DEF LocaleInv, Typed
  <1> QED
    BY <1>1, <1>2, <1>3, <1>4, <1>5 DEF LocaleInv, Typed, Exclusive

(* gp_locale is called.                                                    *)
LEMMA CallKeeps ==
  ASSUME LocaleInv, NEW t \in Threads, NEW c \in Codes, Call(t, c)
  PROVE  LocaleInv'
  <1>1. /\ pc[t] = "idle" /\ UNCHANGED << map, mutex, created, finished >>
        /\ pc' = [pc EXCEPT ![t] = "get hash"] /\ code' = [code EXCEPT ![t] = c]
        /\ depth' = [depth EXCEPT ![t] = 1] /\ known' = [known EXCEPT ![t] = finished]
    BY DEF Call, Goto
  <1>2. mutex # t /\ finished \in SUBSET Codes
    BY <1>1, ThreadFacts DEF Writing, Searching, Putting
  <1>3. ThreadMoves(t, "get hash", c, 1, finished)
    <2>1. "get hash" \in Labels /\ 1 \in Nat \ {0}
      BY DEF Labels, Searching
    <2> QED
      BY <1>1, <1>2, <2>1 DEF ThreadMoves
  <1>4. MutexMoves(t, "get hash") /\ Quiet(t, "get hash", c)
    BY <1>1, <1>2 DEF MutexMoves, Quiet, Writing, Putting
  <1>5. c \in finished => FinderSound("get hash", c, 1)
    <2>1. SUFFICES ASSUME c \in finished PROVE FinderSound("get hash", c, 1)
      OBVIOUS
    <2>2. PICK k \in DOMAIN Way[c] : Kept(c, k)
      BY <2>1 DEF LocaleInv
    <2>3. 1 <= k
      <3>1. Len(Way[c]) \in Nat /\ k \in 1 .. Len(Way[c])
        BY BucketIndices
      <3> QED
        BY <3>1
    <2> QED
      BY <2>2, <2>3 DEF FinderSound, Searching, Reading
  <1>6. QuietOwn(t, "get hash", c, 1, finished)
    BY <1>1, <1>2, <1>5 DEF QuietOwn
  <1>7. FinishedMoves
    BY <1>1, FinishedSame
  <1> QED
    BY <1>3, <1>4, <1>6, <1>7, QuietStep

(* A thread that knows of its code finds it on the way, and not past it.   *)
LEMMA FinderSearch ==
  ASSUME LocaleInv, NEW t \in Threads, code[t] \in known[t]
  PROVE  /\ pc[t] = "get hash" =>
              IF hash[Here(t)] = code[t]
              THEN FinderSound("read locale", code[t], depth[t])
              ELSE hash[Here(t)] # Junk /\ FinderSound("get children", code[t], depth[t])
         /\ pc[t] = "get children" =>
              children[Here(t)] = "yes" /\ FinderSound("get hash", code[t], depth[t] + 1)
  <1> DEFINE c == code[t]
             d == depth[t]
  <1>1. /\ c \in Codes /\ d \in Nat \ {0} /\ FinderSound(pc[t], c, d)
    BY ThreadFacts
  <1>2. PICK k \in DOMAIN Way[c] : /\ Kept(c, k)
                                   /\ pc[t] = "get hash" => d <= k
                                   /\ pc[t] = "get children" => d < k
    BY <1>1 DEF FinderSound
  <1>3. Here(t) = BucketOf(c, d)
    BY DEF Here
  <1> HIDE DEF c, d
  <1>4. Len(Way[c]) \in Nat /\ DOMAIN Way[c] = 1 .. Len(Way[c]) /\ k \in 1 .. Len(Way[c])
    BY <1>1, BucketIndices
  <1>5. ASSUME d < k
        PROVE  /\ hash[BucketOf(c, d)] # c /\ hash[BucketOf(c, d)] # Junk
               /\ children[BucketOf(c, d)] = "yes" /\ d + 1 <= k
    <2>1. d \in 1 .. k - 1 /\ d \in DOMAIN Way[c] /\ d + 1 <= k
      BY <1>1, <1>4, <1>5
    <2>2. hash[BucketOf(c, d)] # c /\ children[BucketOf(c, d)] = "yes"
      BY <1>2, <2>1 DEF Kept, Holds, PathTo
    <2>3. hash[BucketOf(c, d)] \in Codes
      BY <1>1, <2>1, <2>2 DEF LocaleInv, MapSound, BucketSound
    <2> QED
      BY <2>1, <2>2, <2>3, LocaleCacheAssumption
  <1>6. ASSUME d = k
        PROVE  hash[BucketOf(c, d)] = c /\ FinderSound("read locale", c, d)
    BY <1>2, <1>6 DEF Kept, Holds, FinderSound, Reading, Searching
  <1>7. d < k => FinderSound("get children", c, d) /\ FinderSound("get hash", c, d + 1)
    BY <1>2, <1>5 DEF FinderSound, Reading, Searching
  <1>8. d <= k => d < k \/ d = k
    BY <1>1, <1>4
  <1> QED
    BY <1>2, <1>3, <1>5, <1>6, <1>7, <1>8 DEF c, d

(* Comparing a hash.                                                       *)
LEMMA GetHashKeeps ==
  ASSUME LocaleInv, NEW t \in Threads, GetHash(t)
  PROVE  LocaleInv'
  <1> DEFINE c == code[t]
             d == depth[t]
             k == known[t]
  <1>1. /\ pc[t] = "get hash" /\ UNCHANGED << map, mutex, created, finished >>
        /\ UNCHANGED code /\ UNCHANGED depth /\ UNCHANGED known
    BY DEF GetHash, history
  <1>2. PICK p \in {"unlock", "read locale", "get children"} :
          /\ pc' = [pc EXCEPT ![t] = p]
          /\ p = "get children" => hash[Here(t)] # c
          /\ p = "unlock" => mutex = t /\ hash[Here(t)] \in {c, Junk}
          /\ p = "read locale" => mutex # t /\ hash[Here(t)] \in {c, Junk}
    BY DEF GetHash, Goto, AfterFound
  <1>3. Here(t) = BucketOf(c, d)
    BY DEF Here
  <1>4. ThreadMoves(t, p, c, d, k)
    <2>1. p \in Labels
      BY DEF Labels, Writing, Searching, Reading
    <2> QED
      BY <1>1, <1>2, <2>1, ThreadFacts DEF ThreadMoves
  <1>5. MutexMoves(t, p) /\ Quiet(t, p, c)
    BY <1>1, <1>2 DEF MutexMoves, Quiet, Writing, Putting, Searching
  <1>6. mutex = t => HolderSound(p, c, d)
    <2>1. SUFFICES ASSUME mutex = t PROVE HolderSound(p, c, d)
      OBVIOUS
    <2>2. /\ Clean(Here(t))
          /\ hash[Here(t)] = c => Kept(c, d)
      BY <1>1, <2>1, HolderSearch DEF Searching
    <2>3. PathTo(c, d)
      BY <1>1, <2>1 DEF LocaleInv, HolderSound, Searching
    <2>4. Junk \notin Codes \cup {NoCode}
      BY LocaleCacheAssumption DEF NoCode
    <2>5. p = "unlock" => Kept(c, d)
      BY <1>2, <2>2, <2>4 DEF Clean
    <2> QED
      BY <1>2, <1>3, <2>1, <2>3, <2>5 DEF HolderSound, Putting, Searching
  <1>7. c \in k => mutex # t /\ FinderSound(p, c, d)
    BY <1>1, <1>2, ThreadFacts, FinderSearch
  <1>8. k \subseteq finished
    BY ThreadFacts
  <1> HIDE DEF c, d, k
  <1>9. QuietOwn(t, p, c, d, k)
    BY <1>1, <1>6, <1>7, <1>8 DEF QuietOwn
  <1>10. FinishedMoves
    BY <1>1, FinishedSame
  <1> QED
    BY <1>4, <1>5, <1>9, <1>10, QuietStep

(* Going down, or not.                                                     *)
LEMMA GetChildrenKeeps ==
  ASSUME LocaleInv, NEW t \in Threads, GetChildren(t)
  PROVE  LocaleInv'
  <1> DEFINE c == code[t]
             k == known[t]
  <1>1. /\ pc[t] = "get children" /\ UNCHANGED << map, mutex, created, finished >>
        /\ UNCHANGED code /\ UNCHANGED known
    BY DEF GetChildren, history
  <1>2. PICK p \in {"get hash", "create", "lock", "lost"}, d \in Nat \ {0} :
          /\ pc' = [pc EXCEPT ![t] = p] /\ depth' = [depth EXCEPT ![t] = d]
          /\ p = "get hash" => children[Here(t)] = "yes" /\ d = depth[t] + 1
          /\ p # "get hash" => children[Here(t)] \in {"no", Junk}
          /\ p = "create" => mutex = t
          /\ p = "lock" => mutex # t
          /\ p = "lost" => children[Here(t)] = Junk
    BY ThreadFacts DEF GetChildren, Goto, AfterNull
  <1>3. Junk \notin {"yes", "no"}
    BY LocaleCacheAssumption
  <1>4. mutex = t => /\ p \in {"get hash", "create"}
                     /\ HolderSound(p, c, d)
    <2>1. SUFFICES ASSUME mutex = t
                   PROVE  p \in {"get hash", "create"} /\ HolderSound(p, c, d)
      OBVIOUS
    <2>2. /\ Clean(Here(t))
          /\ children[Here(t)] = "no" => created[c] = 0
          /\ children[Here(t)] = "yes" => PathTo(c, depth[t] + 1)
      BY <1>1, <2>1, HolderSearch DEF Searching
    <2> QED
      BY <1>2, <1>3, <2>1, <2>2 DEF HolderSound, Clean, Putting, Searching
  <1>5. c \in k => mutex # t /\ FinderSound(p, c, d)
    BY <1>1, <1>2, <1>3, ThreadFacts, FinderSearch
  <1>6. ThreadMoves(t, p, c, d, k)
    <2>1. p \in Labels
      BY DEF Labels, Writing, Searching
    <2> QED
      BY <1>1, <1>2, <2>1, ThreadFacts DEF ThreadMoves
  <1>7. MutexMoves(t, p) /\ Quiet(t, p, c)
    BY <1>1, <1>2, <1>4 DEF MutexMoves, Quiet, Writing, Putting, Searching
  <1>8. k \subseteq finished
    BY ThreadFacts
  <1> HIDE DEF c, k
  <1>9. QuietOwn(t, p, c, d, k)
    BY <1>1, <1>4, <1>5, <1>8 DEF QuietOwn
  <1>10. FinishedMoves
    BY <1>1, FinishedSame
  <1> QED
    BY <1>6, <1>7, <1>9, <1>10, QuietStep

(* Taking the mutex to search once more.                                   *)
LEMMA LockKeeps ==
  ASSUME LocaleInv, NEW t \in Threads, Lock(t)
  PROVE  LocaleInv'
  <1> DEFINE c == code[t]
             k == known[t]
  <1>1. /\ pc[t] = "lock" /\ UNCHANGED << map, created, finished >>
        /\ UNCHANGED code /\ UNCHANGED known /\ mutex = Nobody /\ mutex' = t
        /\ pc' = [pc EXCEPT ![t] = "get hash"] /\ depth' = [depth EXCEPT ![t] = 1]
    BY DEF Lock, history, Goto, AfterLock
  <1>2. c \notin k
    BY <1>1, ThreadFacts DEF FinderSound, Searching, Reading
  <1>3. ThreadMoves(t, "get hash", c, 1, k)
    <2>1. "get hash" \in Labels /\ 1 \in Nat \ {0}
      BY DEF Labels, Searching
    <2> QED
      BY <1>1, <2>1, ThreadFacts DEF ThreadMoves
  <1>4. MutexMoves(t, "get hash") /\ Quiet(t, "get hash", c)
    BY <1>1, ThreadFacts DEF MutexMoves, Quiet, Writing, Putting, Searching
  <1>5. HolderSound("get hash", c, 1)
    <2>1. PathTo(c, 1)
      BY ThreadFacts DEF PathTo
    <2> QED
      BY <2>1 DEF HolderSound, Putting
  <1>6. k \subseteq finished
    BY ThreadFacts
  <1> HIDE DEF c, k
  <1>7. QuietOwn(t, "get hash", c, 1, k)
    BY <1>1, <1>2, <1>5, <1>6 DEF QuietOwn
  <1>8. FinishedMoves
    BY <1>1, FinishedSame
  <1> QED
    BY <1>3, <1>4, <1>7, <1>8, QuietStep

(* Going down to put.                                                      *)
LEMMA PutBelowKeeps ==
  ASSUME LocaleInv, NEW t \in Threads, PutBelow(t)
  PROVE  LocaleInv'
  <1> DEFINE c == code[t]
             d == depth[t] + 1
             k == known[t]
  <1>1. /\ pc[t] = "put" /\ UNCHANGED << map, mutex, created, finished >>
        /\ UNCHANGED code /\ UNCHANGED known /\ children[Here(t)] = "yes"
        /\ pc' = pc /\ depth' = [depth EXCEPT ![t] = d]
    BY DEF PutBelow, history
  <1>2. mutex = t /\ PathTo(c, depth[t]) /\ created[c] = 1 /\ Absent(c)
    BY <1>1, ThreadFacts DEF HolderSound, Writing, Putting
  <1>3. c \notin k
    BY <1>2, ThreadFacts
  <1>4. PathTo(c, d)
    <2>1. /\ depth[t] \in DOMAIN Way[c] /\ c \in Codes /\ Here(t) = BucketOf(c, depth[t])
      BY <1>2, ThreadFacts DEF PathTo, Here
    <2>2. hash[Here(t)] \in Codes /\ hash[Here(t)] # c
      BY <1>1, <1>2, <2>1 DEF LocaleInv, MapSound, BucketSound, Absent
    <2>3. d \in DOMAIN Way[c]
      BY <2>1, <2>2, WayGoesOn DEF LocaleInv
    <2> QED
      BY <1>1, <1>2, <2>1, <2>2, <2>3, PathGoesOn
  <1>5. ThreadMoves(t, "put", c, d, k)
    <2>1. "put" \in Labels /\ pc' = [pc EXCEPT ![t] = "put"]
      BY <1>1 DEF Labels, Writing, Putting, LocaleInv, Typed
    <2> QED
      BY <1>1, <2>1, ThreadFacts DEF ThreadMoves
  <1>6. MutexMoves(t, "put") /\ Quiet(t, "put", c)
    BY <1>1, <1>2 DEF MutexMoves, Quiet, Writing, Putting
  <1>7. HolderSound("put", c, d)
    BY <1>2, <1>4 DEF HolderSound, Searching
  <1>8. k \subseteq finished
    BY ThreadFacts
  <1> HIDE DEF c, d, k
  <1>9. QuietOwn(t, "put", c, d, k)
    BY <1>1, <1>3, <1>7, <1>8 DEF QuietOwn
  <1>10. FinishedMoves
    BY <1>1, FinishedSame
  <1> QED
    BY <1>5, <1>6, <1>9, <1>10, QuietStep

(* Giving the mutex back.                                                  *)
LEMMA UnlockKeeps ==
  ASSUME LocaleInv, NEW t \in Threads, Unlock(t)
  PROVE  LocaleInv'
  <1> DEFINE c == code[t]
             d == depth[t]
             k == known[t]
  <1>1. /\ pc[t] = "unlock" /\ UNCHANGED << map, created >>
        /\ UNCHANGED code /\ UNCHANGED depth /\ UNCHANGED known
        /\ mutex' = Nobody /\ finished' = finished \cup {c}
        /\ pc' = [pc EXCEPT ![t] = "read locale"]
    BY DEF Unlock, Goto
  <1>2. mutex = t /\ Kept(c, d) /\ c \in Codes
    BY <1>1, ThreadFacts DEF HolderSound, Writing
  <1>3. c \notin k /\ k \subseteq finished /\ finished \in SUBSET Codes /\ t # Nobody
    BY <1>2, ThreadFacts
  <1>4. ThreadMoves(t, "read locale", c, d, k)
    <2>1. "read locale" \in Labels
      BY DEF Labels, Reading
    <2> QED
      BY <1>1, <2>1, ThreadFacts DEF ThreadMoves
  <1>5. MutexMoves(t, "read locale") /\ Quiet(t, "read locale", c)
    BY <1>1, <1>2, <1>3 DEF MutexMoves, Quiet, Writing, Putting
  <1>6. FinishedMoves
    <2>1. ASSUME NEW e \in finished'
          PROVE  \E f \in DOMAIN Way[e] : Kept(e, f)'
      <3>1. PICK f \in DOMAIN Way[e] : Kept(e, f)
        <4>1. CASE e = c
          <5>1. d \in DOMAIN Way[c]
            BY <1>2 DEF Kept, Holds, PathTo
          <5> QED
            BY <1>2, <4>1, <5>1
        <4>2. CASE e \in finished
          BY <4>2 DEF LocaleInv
        <4> QED
          BY <1>1, <4>1, <4>2
      <3> QED
        BY <1>1, <3>1, SameMap
    <2> QED
      BY <1>1, <1>2, <1>3, <2>1 DEF FinishedMoves
  <1> HIDE DEF c, d, k
  <1>7. QuietOwn(t, "read locale", c, d, k)
    BY <1>1, <1>3 DEF QuietOwn
  <1> QED
    BY <1>4, <1>5, <1>6, <1>7, QuietStep

(* Reading the locale, twice.                                              *)
LEMMA ReadKeeps ==
  ASSUME LocaleInv, NEW t \in Threads, ReadLocale(t) \/ ReadAgain(t)
  PROVE  LocaleInv'
  <1> DEFINE c == code[t]
             d == depth[t]
             k == known[t]
  <1>1. /\ pc[t] \in Reading /\ UNCHANGED << map, mutex, created, finished >>
        /\ UNCHANGED code /\ UNCHANGED depth /\ UNCHANGED known
    BY DEF ReadLocale, ReadAgain, Reading, history
  <1>2. PICK p \in {"idle", "read again"} : pc' = [pc EXCEPT ![t] = p]
    BY DEF ReadLocale, ReadAgain, Returns, Goto
  <1>3. mutex # t
    BY <1>1, ThreadFacts DEF Reading, Writing, Searching, Putting
  <1>4. ThreadMoves(t, p, c, d, k)
    <2>1. p \in Labels
      BY DEF Labels, Reading
    <2> QED
      BY <1>1, <1>2, <2>1, ThreadFacts DEF ThreadMoves
  <1>5. MutexMoves(t, p) /\ Quiet(t, p, c)
    BY <1>1, <1>3 DEF MutexMoves, Quiet, Writing, Putting, Reading
  <1>6. c \in k => FinderSound(p, c, d)
    BY <1>1, ThreadFacts DEF FinderSound, Searching, Reading
  <1>7. k \subseteq finished
    BY ThreadFacts
  <1> HIDE DEF c, d, k
  <1>8. QuietOwn(t, p, c, d, k)
    BY <1>1, <1>3, <1>6, <1>7 DEF QuietOwn
  <1>9. FinishedMoves
    BY <1>1, FinishedSame
  <1> QED
    BY <1>4, <1>5, <1>8, <1>9, QuietStep

------------------------------------------------------------------------------

(* A step of the thread that puts code c, to level d, keeps what is in the *)
(* map and does not put another code.                                      *)
Writes(t, p, c, d) ==
  /\ mutex = t /\ mutex' = t /\ pc[t] \in Putting \cup {"put value"}
  /\ p \in (Putting \cup {"put value", "unlock"})
  /\ c = code[t]
  /\ UNCHANGED << created, finished >>
  /\ hash' \in [Buckets -> Codes \cup {NoCode, Junk}]
  /\ children' \in [Buckets -> {"yes", "no", Junk}]
  /\ value' \in [Buckets -> Codes \cup {Unavailable, Junk}]
  /\ \A e \in Codes : e # c /\ Absent(e) => Absent(e)'
  /\ HolderSound(p, c, d)'
  /\ MapSound'
  /\ AllKept

LEMMA WriterStep ==
  ASSUME LocaleInv, NEW t \in Threads, NEW p, NEW c, NEW d, NEW k, k = known[t],
         ThreadMoves(t, p, c, d, k), Writes(t, p, c, d)
  PROVE  LocaleInv'
  <1>1. c \in Codes /\ c \notin k /\ k \subseteq finished /\ mutex = t /\ mutex' = t
    BY ThreadFacts DEF Writes
  <1>2. /\ pc'[t] = p /\ code'[t] = c /\ t # Nobody
    BY ThreadFacts DEF ThreadMoves, LocaleInv, Typed
  <1>3. MutexMoves(t, p)
    BY <1>1 DEF MutexMoves, Writes, Writing
  <1>4. MapMoves(t)
    BY <1>1 DEF MapMoves, Writes, LocaleInv, Typed
  <1>5. FinishedMoves
    BY DEF FinishedMoves, Writes, AllKept, LocaleInv, Typed
  <1>6. OwnSound(t, p, c, d, k)
    BY <1>1 DEF OwnSound, Writes
  <1>7. ASSUME NEW e \in Codes
        PROVE  CreatedSound(e)'
    <2>1. CreatedSound(e) /\ created' = created
      BY DEF LocaleInv, Writes
    <2>2. CASE e # c
      <3>1. ~ BeingPut(e)
        BY <1>1, <2>2 DEF BeingPut, Writes
      <3> QED
        BY <2>1, <2>2, <3>1 DEF CreatedSound, Writes, AllKept
    <2>3. CASE e = c
      <3>1. created[c] = 1
        BY <1>1, ThreadFacts DEF Writes, HolderSound
      <3>2. p # "unlock" => BeingPut(c)'
        BY <1>1, <1>2 DEF BeingPut, Writes
      <3>3. p = "unlock" => \E f \in DOMAIN Way[c] : Kept(c, f)'
        BY DEF Writes, HolderSound, Kept, Holds, PathTo
      <3> QED
        BY <2>1, <2>3, <3>1, <3>2, <3>3 DEF CreatedSound
    <2> QED
      BY <2>2, <2>3
  <1>8. MapSound' /\ AllKept
    BY DEF Writes
  <1> QED
    BY <1>3, <1>4, <1>5, <1>6, <1>7, <1>8, StepKeeps

(* A hash is written to a free bucket at the end of the code's search: by  *)
(* PutHere, or by PutChild one level below.                                *)
LEMMA HashWritten ==
  ASSUME LocaleInv, NEW c \in Codes, NEW d, PathTo(c, d), Absent(c),
         hash[BucketOf(c, d)] = NoCode,
         hash' = [hash EXCEPT ![BucketOf(c, d)] = c],
         UNCHANGED << children, value >>,
         \A b : ~ Clearing(b), \A b : ~ Clearing(b)'
  PROVE  /\ hash' \in [Buckets -> Codes \cup {NoCode, Junk}]
         /\ \A e \in Codes : e # c /\ Absent(e) => Absent(e)'
         /\ Holds(c, d)'
         /\ MapSound'
         /\ AllKept
  <1> DEFINE b == BucketOf(c, d)
  <1>1. /\ d \in DOMAIN Way[c] /\ b \in Buckets /\ MapSound /\ Clean(b)
        /\ hash \in [Buckets -> Codes \cup {NoCode, Junk}]
    BY BucketIndices, ReachedClean DEF PathTo, LocaleInv, Typed
  <1>2. NoCode \notin Codes /\ Junk \notin Codes \cup {NoCode, "yes", "no"}
    BY LocaleCacheAssumption DEF NoCode
  <1>3. ASSUME NEW e \in Codes, NEW f \in DOMAIN Way[e]
        PROVE  /\ BucketOf(e, f) \in Buckets
               /\ hash'[BucketOf(e, f)] = IF BucketOf(e, f) = b THEN c
                                                               ELSE hash[BucketOf(e, f)]
    BY <1>1, BucketIndices
  <1>4. ASSUME NEW e \in Codes, NEW f \in DOMAIN Way[e], NEW g \in 1 .. f - 1
        PROVE  g \in DOMAIN Way[e]
    <2>1. Len(Way[e]) \in Nat /\ f \in 1 .. Len(Way[e]) /\ DOMAIN Way[e] = 1 .. Len(Way[e])
      BY BucketIndices
    <2> QED
      BY <2>1
  <1>5. \A e \in Codes : e # c /\ Absent(e) => Absent(e)'
    BY <1>3 DEF Absent
  <1>6. Holds(c, d)'
    <2>1. ASSUME NEW g \in 1 .. d - 1
          PROVE  hash'[BucketOf(c, g)] # c /\ children'[BucketOf(c, g)] = "yes"
      <3>1. g \in DOMAIN Way[c] /\ g # d
        <4>1. Len(Way[c]) \in Nat /\ d \in 1 .. Len(Way[c])
          BY <1>1, BucketIndices
        <4> QED
          BY <1>1, <1>4, <4>1
      <3>2. BucketOf(c, g) # b
        BY <1>1, <3>1, SameBucket
      <3> QED
        BY <1>3, <3>1, <3>2 DEF PathTo
    <2>2. hash'[BucketOf(c, d)] = c
      BY <1>1, <1>3
    <2> QED
      BY <1>1, <2>1, <2>2 DEF Holds, PathTo
  <1>7. MapSound'
    <2>1. ASSUME NEW e \in Codes, NEW f \in DOMAIN Way[e]
          PROVE  BucketSound(e, f)'
      <3> DEFINE x == BucketOf(e, f)
                 y == BucketOf(e, f + 1)
      <3>1. BucketSound(e, f)
        BY <1>1 DEF MapSound
      <3>2. hash'[x] = IF x = b THEN c ELSE hash[x]
        BY <1>3
      <3>3. f = 1 => Clean(x)'
        BY <3>1, <3>2 DEF BucketSound, Clean
      <3>4. hash'[x] \in Codes => f \in DOMAIN Way[hash'[x]] /\ BucketOf(hash'[x], f) = x
        <4>1. CASE x = b
          <5>1. f = d
            BY <1>1, <4>1, SameBucket
          <5> QED
            BY <1>1, <3>2, <4>1, <5>1
        <4>2. CASE x # b
          BY <3>1, <3>2, <4>2 DEF BucketSound
        <4> QED
          BY <4>1, <4>2
      <3>5. children'[x] = "yes" => hash'[x] \in Codes
        BY <3>1, <3>2 DEF BucketSound
      <3>6. f + 1 \in DOMAIN Way[e] =>
              IF children'[x] = "yes" THEN Clean(y)' ELSE Unset(y)'
        <4>1. SUFFICES ASSUME f + 1 \in DOMAIN Way[e]
                       PROVE  IF children'[x] = "yes" THEN Clean(y)' ELSE Unset(y)'
          OBVIOUS
        <4>2. hash'[y] = IF y = b THEN c ELSE hash[y]
          BY <1>3, <4>1
        <4>3. IF children[x] = "yes" THEN Clean(y) ELSE Unset(y)
          BY <3>1, <4>1 DEF BucketSound
        <4>4. Unset(y) => y # b
          BY <1>1, <1>2 DEF Unset, Clean
        <4> HIDE DEF x, y, b
        <4> QED
          BY <4>2, <4>3, <4>4 DEF Clean, Unset
      <3> QED
        BY <3>3, <3>4, <3>5, <3>6 DEF BucketSound
    <2> QED
      BY <2>1 DEF MapSound
  <1>8. AllKept
    <2>1. ASSUME NEW e \in Codes, NEW f \in DOMAIN Way[e], Kept(e, f)
          PROVE  Kept(e, f)'
      <3>1. hash[BucketOf(e, f)] = e /\ e # c
        BY <2>1 DEF Kept, Holds, Absent
      <3>2. hash'[BucketOf(e, f)] = e
        BY <1>2, <1>3, <3>1
      <3>3. ASSUME NEW g \in 1 .. f - 1
            PROVE  hash'[BucketOf(e, g)] # e /\ children'[BucketOf(e, g)] = "yes"
        <4>1. g \in DOMAIN Way[e]
          BY <1>4
        <4> QED
          BY <1>3, <2>1, <3>1, <4>1 DEF Kept, Holds, PathTo
      <3> QED
        BY <2>1, <3>2, <3>3 DEF Kept, Holds, PathTo
    <2> QED
      BY <2>1 DEF AllKept
  <1>9. hash' \in [Buckets -> Codes \cup {NoCode, Junk}]
    BY <1>1
  <1> QED
    BY <1>5, <1>6, <1>7, <1>8, <1>9

(* PutHere and PutChild.                                                   *)
LEMMA PutHashKeeps ==
  ASSUME LocaleInv, NEW t \in Threads, PutHere(t) \/ PutChild(t)
  PROVE  LocaleInv'
  <1>1. PICK c, d, k : /\ c = code[t] /\ k = known[t]
                       /\ PutHere(t) => d = depth[t]
                       /\ PutChild(t) => d = depth[t] + 1
    BY DEF PutHere, PutChild
  <1>2. /\ pc[t] \in {"put", "put child"}
        /\ hash' = [hash EXCEPT ![BucketOf(c, d)] = c]
        /\ UNCHANGED << children, value, mutex, created, finished >>
        /\ UNCHANGED code /\ UNCHANGED known
        /\ pc' = [pc EXCEPT ![t] = "put value"]
        /\ depth' = [depth EXCEPT ![t] = d]
    <2>1. CASE PutHere(t)
      BY <1>1, <2>1, ThreadFacts DEF PutHere, Here, Goto, history
    <2>2. CASE PutChild(t)
      BY <1>1, <2>2, ThreadFacts DEF PutChild, Below, Goto, history
    <2> QED
      BY <2>1, <2>2
  <1>3. /\ mutex = t /\ mutex' = t /\ created[c] = 1 /\ Absent(c) /\ PathTo(c, depth[t])
        /\ c \in Codes /\ d \in Nat \ {0}
    BY <1>1, <1>2, ThreadFacts DEF Writing, Putting, HolderSound
  <1>4. PathTo(c, d) /\ hash[BucketOf(c, d)] = NoCode
    <2>1. CASE PutHere(t)
      BY <1>1, <1>3, <2>1 DEF PutHere, IsFree, Here
    <2>2. CASE PutChild(t)
      <3>1. /\ depth[t] + 1 \in DOMAIN Way[c] /\ children[BucketOf(c, depth[t])] = "yes"
            /\ hash[BucketOf(c, d)] = NoCode
        BY <1>1, <1>3, <2>2, ThreadFacts DEF PutChild, HolderSound
      <3>2. hash[BucketOf(c, depth[t])] # c
        BY <1>3 DEF Absent, PathTo
      <3> QED
        BY <1>1, <1>3, <2>2, <3>1, <3>2, PathGoesOn
    <2> QED
      BY <2>1, <2>2
  <1>5. (\A b : ~ Clearing(b)) /\ \A b : ~ Clearing(b)'
    <2>1. pc'[t] = "put value" /\ pc[t] # "clear array"
      BY <1>2 DEF LocaleInv, Typed
    <2> QED
      BY <1>3, <2>1 DEF Clearing
  <1>6. /\ hash' \in [Buckets -> Codes \cup {NoCode, Junk}]
        /\ \A e \in Codes : e # c /\ Absent(e) => Absent(e)'
        /\ Holds(c, d)'
        /\ MapSound'
        /\ AllKept
    BY <1>2, <1>3, <1>4, <1>5, HashWritten
  <1>7. HolderSound("put value", c, d)'
    BY <1>2, <1>3, <1>6 DEF HolderSound, Searching, Putting
  <1>8. Writes(t, "put value", c, d)
    BY <1>1, <1>2, <1>3, <1>6, <1>7 DEF Writes, Putting, LocaleInv, Typed
  <1>9. ThreadMoves(t, "put value", c, d, k)
    <2>1. "put value" \in Labels
      BY DEF Labels, Writing
    <2> QED
      BY <1>1, <1>2, <1>3, <2>1, ThreadFacts DEF ThreadMoves
  <1> QED
    BY <1>1, <1>8, <1>9, WriterStep

(* The locale is written.                                                  *)
LEMMA PutValueKeeps ==
  ASSUME LocaleInv, NEW t \in Threads, PutValue(t)
  PROVE  LocaleInv'
  <1>1. PICK c, d, k : c = code[t] /\ k = known[t] /\ d = depth[t]
    OBVIOUS
  <1>2. /\ pc[t] = "put value"
        /\ value' = [value EXCEPT ![BucketOf(c, d)] = Stored(c)]
        /\ UNCHANGED << hash, children, mutex, created, finished >>
        /\ UNCHANGED code /\ UNCHANGED known /\ UNCHANGED depth
        /\ pc' = [pc EXCEPT ![t] = "unlock"]
    BY <1>1 DEF PutValue, Here, Goto, history
  <1>3. /\ mutex = t /\ mutex' = t /\ Holds(c, d) /\ c \in Codes /\ d \in Nat \ {0}
        /\ d \in DOMAIN Way[c]
    BY <1>1, <1>2, ThreadFacts DEF Writing, HolderSound, Holds, PathTo
  <1>4. (\A b : ~ Clearing(b)) /\ \A b : ~ Clearing(b)'
    <2>1. pc'[t] = "unlock" /\ pc[t] # "clear array"
      BY <1>2 DEF LocaleInv, Typed
    <2> QED
      BY <1>3, <2>1 DEF Clearing
  <1>5. /\ BucketOf(c, d) \in Buckets
        /\ value \in [Buckets -> Codes \cup {Unavailable, Junk}]
        /\ Stored(c) \in Codes \cup {Unavailable}
    BY <1>3, BucketIndices DEF LocaleInv, Typed, Stored
  <1>6. value' \in [Buckets -> Codes \cup {Unavailable, Junk}]
    BY <1>2, <1>5
  <1>7. Kept(c, d)'
    <2>1. value'[BucketOf(c, d)] = Stored(c)
      BY <1>2, <1>5
    <2> QED
      BY <1>2, <1>3, <2>1 DEF Kept, Holds, PathTo
  <1>8. AllKept
    <2>1. ASSUME NEW e \in Codes, NEW f \in DOMAIN Way[e], Kept(e, f)
          PROVE  Kept(e, f)'
      <3>1. BucketOf(e, f) = BucketOf(c, d) => e = c
        BY <1>3, <2>1 DEF Kept, Holds
      <3>2. BucketOf(e, f) \in Buckets
        BY BucketIndices
      <3>3. value'[BucketOf(e, f)] = Stored(e)
        BY <1>2, <1>5, <2>1, <3>1, <3>2 DEF Kept
      <3> QED
        BY <1>2, <2>1, <3>3 DEF Kept, Holds, PathTo
    <2> QED
      BY <2>1 DEF AllKept
  <1>9. MapSound'
    <2>1. ASSUME NEW e \in Codes, NEW f \in DOMAIN Way[e]
          PROVE  BucketSound(e, f)'
      <3>1. BucketSound(e, f)
        BY DEF LocaleInv, MapSound
      <3> QED
        BY <1>2, <1>4, <3>1 DEF BucketSound, Clean, Unset
    <2> QED
      BY <2>1 DEF MapSound
  <1>10. \A e \in Codes : e # c /\ Absent(e) => Absent(e)'
    BY <1>2 DEF Absent
  <1>11. HolderSound("unlock", c, d)'
    BY <1>7 DEF HolderSound, Searching, Putting
  <1>12. Writes(t, "unlock", c, d)
    BY <1>1, <1>2, <1>3, <1>6, <1>8, <1>9, <1>10, <1>11
    DEF Writes, Putting, LocaleInv, Typed
  <1>13. ThreadMoves(t, "unlock", c, d, k)
    <2>1. "unlock" \in Labels
      BY DEF Labels, Writing
    <2> QED
      BY <1>1, <1>2, <1>3, <2>1, ThreadFacts DEF ThreadMoves
  <1> QED
    BY <1>1, <1>12, <1>13, WriterStep

(* newlocale() is called, for a code that is not in the map.               *)
LEMMA CreateKeeps ==
  ASSUME LocaleInv, NEW t \in Threads, Create(t)
  PROVE  LocaleInv'
  <1>1. PICK c, k : c = code[t] /\ k = known[t]
    OBVIOUS
  <1>2. /\ pc[t] = "create" /\ UNCHANGED << map, mutex, finished >>
        /\ UNCHANGED code /\ UNCHANGED known
        /\ created' = [created EXCEPT ![c] = created[c] + 1]
        /\ pc' = [pc EXCEPT ![t] = "put"]
        /\ depth' = [depth EXCEPT ![t] = 1]
    BY <1>1 DEF Create, Goto
  <1>3. /\ mutex = t /\ mutex' = t /\ t # Nobody /\ created[c] = 0 /\ c \in Codes
        /\ c \notin k /\ k \subseteq finished /\ 1 \in DOMAIN Way[c]
    BY <1>1, <1>2, ThreadFacts DEF Writing, HolderSound
  <1>4. pc'[t] = "put" /\ code'[t] = c
    BY <1>1, <1>2 DEF LocaleInv, Typed
  <1>5. /\ created' \in [Codes -> Nat] /\ created'[c] = 1
        /\ \A e \in Codes \ {c} : created'[e] = created[e]
    BY <1>2, <1>3 DEF LocaleInv, Typed
  <1>6. AllKept
    BY <1>2 DEF AllKept, Kept, Holds, PathTo, map
  <1>7. Absent(c) /\ Absent(c)'
    BY <1>2, <1>3 DEF LocaleInv, CreatedSound, Absent, map
  <1>8. MapSound'
    <2>1. \A b : ~ Clearing(b) /\ ~ Clearing(b)'
      BY <1>2, <1>3, <1>4 DEF Clearing
    <2>2. ASSUME NEW e \in Codes, NEW f \in DOMAIN Way[e]
          PROVE  BucketSound(e, f)'
      <3>1. BucketSound(e, f)
        BY DEF LocaleInv, MapSound
      <3> QED
        BY <1>2, <2>1, <3>1 DEF BucketSound, Clean, Unset, map
    <2> QED
      BY <2>2 DEF MapSound
  <1>9. ASSUME NEW e \in Codes
        PROVE  CreatedSound(e)'
    <2>1. CASE e = c
      <3>1. BeingPut(c)'
        BY <1>3, <1>4 DEF BeingPut, Putting
      <3> QED
        BY <1>5, <2>1, <3>1 DEF CreatedSound
    <2>2. CASE e # c
      <3>1. CreatedSound(e) /\ ~ BeingPut(e)
        BY <1>1, <1>3, <2>2 DEF LocaleInv, BeingPut
      <3>2. Absent(e) => Absent(e)'
        BY <1>2 DEF Absent, map
      <3> QED
        BY <1>5, <1>6, <2>2, <3>1, <3>2 DEF CreatedSound, AllKept
    <2> QED
      BY <2>1, <2>2
  <1>10. ThreadMoves(t, "put", c, 1, k)
    <2>1. "put" \in Labels /\ 1 \in Nat \ {0}
      BY DEF Labels, Writing, Putting
    <2> QED
      BY <1>1, <1>2, <1>3, <2>1, ThreadFacts DEF ThreadMoves
  <1>11. MutexMoves(t, "put")
    BY <1>3 DEF MutexMoves, Writing, Putting
  <1>12. MapMoves(t)
    BY <1>2, <1>3, <1>5 DEF MapMoves, LocaleInv, Typed, map
  <1>13. FinishedMoves
    BY <1>2, <1>6 DEF FinishedMoves, AllKept, LocaleInv, Typed
  <1>14. OwnSound(t, "put", c, 1, k)
    <2>1. PathTo(c, 1)'
      BY <1>3 DEF PathTo
    <2>2. HolderSound("put", c, 1)'
      BY <1>5, <1>7, <2>1 DEF HolderSound, Searching, Putting
    <2> QED
      BY <1>2, <1>3, <2>2 DEF OwnSound
  <1> QED
    BY <1>6, <1>8, <1>9, <1>10, <1>11, <1>12, <1>13, <1>14, StepKeeps

(* A bucket gets children, which are not cleared yet.                      *)
LEMMA PutArrayKeeps ==
  ASSUME LocaleInv, NEW t \in Threads, PutArray(t)
  PROVE  LocaleInv'
  <1>1. PICK c, d, k, b : /\ c = code[t] /\ k = known[t] /\ d = depth[t]
                          /\ b = BucketOf(c, d)
    OBVIOUS
  <1>2. /\ pc[t] = "put" /\ hash[b] # NoCode /\ children[b] = "no"
        /\ children' = [children EXCEPT ![b] = "yes"]
        /\ UNCHANGED << hash, value, mutex, created, finished >>
        /\ UNCHANGED code /\ UNCHANGED known /\ UNCHANGED depth
        /\ pc' = [pc EXCEPT ![t] = "clear array"]
    BY <1>1 DEF PutArray, IsFree, Here, Goto, history
  <1>3. /\ mutex = t /\ mutex' = t /\ t # Nobody /\ PathTo(c, d) /\ Absent(c)
        /\ created[c] = 1 /\ c \in Codes /\ d \in Nat \ {0} /\ d \in DOMAIN Way[c]
    BY <1>1, <1>2, ThreadFacts DEF Writing, Putting, HolderSound, PathTo
  <1>4. pc'[t] = "clear array" /\ code'[t] = c /\ depth'[t] = d
    BY <1>1, <1>2 DEF LocaleInv, Typed
  <1>5. (\A x : ~ Clearing(x)) /\ \A x : Clearing(x)' <=> x = b
    BY <1>1, <1>2, <1>3, <1>4 DEF Clearing, Here
  <1>6. /\ b \in Buckets /\ MapSound /\ Clean(b)
        /\ children \in [Buckets -> {"yes", "no", Junk}]
    BY <1>1, <1>3, <1>5, BucketIndices, ReachedClean DEF LocaleInv, Typed
  <1>7. hash[b] \in Codes /\ hash[b] # c /\ d + 1 \in DOMAIN Way[c]
    BY <1>1, <1>2, <1>3, <1>6, WayGoesOn DEF Clean, Absent
  <1>8. Junk \notin Codes \cup {NoCode, "yes", "no"}
    BY LocaleCacheAssumption DEF NoCode
  <1>9. /\ children' \in [Buckets -> {"yes", "no", Junk}]
        /\ \A x \in Buckets : children'[x] = IF x = b THEN "yes" ELSE children[x]
    BY <1>2, <1>6
  <1>10. ASSUME NEW e \in Codes, NEW f \in DOMAIN Way[e]
         PROVE  /\ PathTo(e, f) => PathTo(e, f)'
                /\ Kept(e, f) => Kept(e, f)'
    <2>1. ASSUME PathTo(e, f)
          PROVE  PathTo(e, f)'
      <3>1. ASSUME NEW g \in 1 .. f - 1
            PROVE  hash'[BucketOf(e, g)] # e /\ children'[BucketOf(e, g)] = "yes"
        <4>1. Len(Way[e]) \in Nat /\ f \in 1 .. Len(Way[e])
              /\ DOMAIN Way[e] = 1 .. Len(Way[e])
          BY BucketIndices
        <4>2. g \in DOMAIN Way[e]
          BY <4>1
        <4>3. BucketOf(e, g) \in Buckets
          BY <4>2, BucketIndices
        <4> QED
          BY <1>2, <1>9, <2>1, <4>3 DEF PathTo
      <3> QED
        BY <2>1, <3>1 DEF PathTo
    <2> QED
      BY <1>2, <2>1 DEF Kept, Holds
  <1>11. MapSound'
    <2>1. ASSUME NEW e \in Codes, NEW f \in DOMAIN Way[e]
          PROVE  BucketSound(e, f)'
      <3> DEFINE x == BucketOf(e, f)
                 y == BucketOf(e, f + 1)
      <3>2. BucketSound(e, f)
        BY <1>6 DEF MapSound
      <3>3. x \in Buckets
        BY BucketIndices
      <3>4. f = 1 => Clean(x)'
        BY <1>2, <1>9, <3>2, <3>3 DEF BucketSound, Clean
      <3>5. children'[x] = "yes" => hash[x] \in Codes
        BY <1>7, <1>9, <3>2, <3>3 DEF BucketSound
      <3>6. f + 1 \in DOMAIN Way[e] =>
              IF children'[x] = "yes" /\ x # b THEN Clean(y)' ELSE Unset(y)'
        <4>1. SUFFICES ASSUME f + 1 \in DOMAIN Way[e]
                       PROVE  IF children'[x] = "yes" /\ x # b THEN Clean(y)'
                                                               ELSE Unset(y)'
          OBVIOUS
        <4>2. y \in Buckets
          BY <4>1, BucketIndices
        <4>3. IF children[x] = "yes" THEN Clean(y) ELSE Unset(y)
          BY <1>5, <3>2, <4>1 DEF BucketSound
        <4>4. Unset(y) => y # b
          BY <1>6, <1>8 DEF Unset, Clean
        <4> HIDE DEF x, y
        <4> QED
          BY <1>2, <1>9, <3>3, <4>2, <4>3, <4>4 DEF Clean, Unset
      <3> QED
        BY <1>2, <1>5, <3>2, <3>4, <3>5, <3>6 DEF BucketSound
    <2> QED
      BY <2>1 DEF MapSound
  <1>12. HolderSound("clear array", c, d)'
    <2>1. PathTo(c, d)' /\ Absent(c)' /\ created'[c] = 1 /\ children'[b] = "yes"
      BY <1>2, <1>3, <1>6, <1>9, <1>10 DEF Absent
    <2> QED
      BY <1>1, <1>7, <2>1 DEF HolderSound, Searching
  <1>13. Writes(t, "clear array", c, d)
    <2>1. AllKept
      BY <1>10 DEF AllKept
    <2>2. \A e \in Codes : e # c /\ Absent(e) => Absent(e)'
      BY <1>2 DEF Absent
    <2> QED
      BY <1>1, <1>2, <1>3, <1>9, <1>11, <1>12, <2>1, <2>2
      DEF Writes, Putting, LocaleInv, Typed
  <1>14. ThreadMoves(t, "clear array", c, d, k)
    <2>1. "clear array" \in Labels
      BY DEF Labels, Writing, Putting
    <2> QED
      BY <1>1, <1>2, <1>3, <2>1, ThreadFacts DEF ThreadMoves
  <1> QED
    BY <1>1, <1>13, <1>14, WriterStep

(* The children are cleared; nothing in the map was among them.            *)
LEMMA ClearArrayKeeps ==
  ASSUME LocaleInv, NEW t \in Threads, ClearArray(t)
  PROVE  LocaleInv'
  <1>1. PICK c, d, k, b : /\ c = code[t] /\ k = known[t] /\ d = depth[t]
                          /\ b = BucketOf(c, d)
    OBVIOUS
  <1>2. /\ pc[t] = "clear array"
        /\ hash' = [x \in Buckets |-> IF x \in ChildrenOf(b) THEN NoCode ELSE hash[x]]
        /\ children' = [x \in Buckets |-> IF x \in ChildrenOf(b) THEN "no"
                                                                 ELSE children[x]]
        /\ UNCHANGED << value, mutex, created, finished >>
        /\ UNCHANGED code /\ UNCHANGED known /\ UNCHANGED depth
        /\ pc' = [pc EXCEPT ![t] = "put child"]
    BY <1>1 DEF ClearArray, Here, Goto, history
  <1>3. /\ mutex = t /\ mutex' = t /\ t # Nobody /\ PathTo(c, d) /\ Absent(c)
        /\ created[c] = 1 /\ c \in Codes /\ d \in Nat \ {0} /\ d \in DOMAIN Way[c]
        /\ d + 1 \in DOMAIN Way[c] /\ children[b] = "yes"
    BY <1>1, <1>2, ThreadFacts DEF Writing, Putting, HolderSound, PathTo
  <1>4. pc'[t] = "put child"
    BY <1>2 DEF LocaleInv, Typed
  <1>5. (\A x : Clearing(x) <=> x = b) /\ \A x : ~ Clearing(x)'
    BY <1>1, <1>2, <1>3, <1>4 DEF Clearing, Here
  <1>6. /\ b \in Buckets /\ MapSound
        /\ hash \in [Buckets -> Codes \cup {NoCode, Junk}]
        /\ children \in [Buckets -> {"yes", "no", Junk}]
    BY <1>1, <1>3, BucketIndices DEF LocaleInv, Typed
  <1>7. NoCode \notin Codes /\ Junk \notin Codes \cup {NoCode, "yes", "no"}
    BY LocaleCacheAssumption DEF NoCode
  <1>8. /\ hash' \in [Buckets -> Codes \cup {NoCode, Junk}]
        /\ children' \in [Buckets -> {"yes", "no", Junk}]
        /\ \A x \in Buckets :
             /\ hash'[x] = IF x \in ChildrenOf(b) THEN NoCode ELSE hash[x]
             /\ children'[x] = IF x \in ChildrenOf(b) THEN "no" ELSE children[x]
    BY <1>2, <1>6
  <1>9. ASSUME NEW e \in Codes, NEW f \in DOMAIN Way[e]
        PROVE  /\ BucketOf(e, f) \in Buckets
               /\ BucketOf(e, f) \in ChildrenOf(b) <=> f = d + 1 /\ BucketOf(e, d) = b
               /\ BucketOf(e, f) \in ChildrenOf(b) => Unset(BucketOf(e, f))
    <2>1. /\ BucketOf(e, f) \in Buckets
          /\ BucketOf(e, f) \in ChildrenOf(b) <=> f = d + 1 /\ BucketOf(e, d) = b
      BY <1>1, <1>3, BucketIndices, BucketsBelow
    <2>2. ASSUME f = d + 1, BucketOf(e, d) = b
          PROVE  Unset(BucketOf(e, f))
      <3>1. d \in DOMAIN Way[e]
        <4>1. Len(Way[e]) \in Nat /\ f \in 1 .. Len(Way[e])
              /\ DOMAIN Way[e] = 1 .. Len(Way[e])
          BY BucketIndices
        <4> QED
          BY <1>3, <2>2, <4>1
      <3>2. BucketSound(e, d)
        BY <1>6, <3>1 DEF MapSound
      <3> QED
        BY <1>5, <2>2, <3>2 DEF BucketSound
    <2> QED
      BY <2>1, <2>2
  <1>10. ASSUME NEW e \in Codes, NEW f \in DOMAIN Way[e]
         PROVE  /\ PathTo(e, f) => PathTo(e, f)'
                /\ Kept(e, f) => Kept(e, f)'
    <2>1. ASSUME PathTo(e, f)
          PROVE  PathTo(e, f)'
      <3>1. ASSUME NEW g \in 1 .. f - 1
            PROVE  hash'[BucketOf(e, g)] # e /\ children'[BucketOf(e, g)] = "yes"
        <4>1. Len(Way[e]) \in Nat /\ f \in 1 .. Len(Way[e])
              /\ DOMAIN Way[e] = 1 .. Len(Way[e])
          BY BucketIndices
        <4>2. g \in DOMAIN Way[e]
          BY <4>1
        <4>3. hash[BucketOf(e, g)] # e /\ children[BucketOf(e, g)] = "yes"
          BY <2>1 DEF PathTo
        <4>4. BucketOf(e, g) \in Buckets /\ BucketOf(e, g) \notin ChildrenOf(b)
          BY <1>7, <1>9, <4>2, <4>3 DEF Unset
        <4> QED
          BY <1>8, <4>3, <4>4
      <3> QED
        BY <2>1, <3>1 DEF PathTo
    <2>2. ASSUME Kept(e, f)
          PROVE  Kept(e, f)'
      <3>1. hash[BucketOf(e, f)] = e
        BY <2>2 DEF Kept, Holds
      <3>2. BucketOf(e, f) \in Buckets /\ BucketOf(e, f) \notin ChildrenOf(b)
        BY <1>7, <1>9, <3>1 DEF Unset
      <3>3. hash'[BucketOf(e, f)] = e
        BY <1>8, <3>1, <3>2
      <3> QED
        BY <1>2, <2>1, <2>2, <3>3 DEF Kept, Holds
    <2> QED
      BY <2>1, <2>2
  <1>11. MapSound'
    <2>1. ASSUME NEW e \in Codes, NEW f \in DOMAIN Way[e]
          PROVE  BucketSound(e, f)'
      <3> DEFINE x == BucketOf(e, f)
                 y == BucketOf(e, f + 1)
      <3>1. BucketSound(e, f)
        BY <1>6 DEF MapSound
      <3>2. /\ x \in Buckets
            /\ x \in ChildrenOf(b) <=> f = d + 1 /\ BucketOf(e, d) = b
            /\ x \in ChildrenOf(b) => Unset(x)
        BY <1>9
      <3>3. f = 1 => Clean(x)'
        BY <1>8, <3>1, <3>2 DEF BucketSound, Clean
      <3>4. hash'[x] \in Codes => hash'[x] = hash[x]
        BY <1>7, <1>8, <3>2
      <3>5. hash'[x] \in Codes => f \in DOMAIN Way[hash'[x]] /\ BucketOf(hash'[x], f) = x
        BY <3>1, <3>4 DEF BucketSound
      <3>6. children'[x] = "yes" => hash'[x] \in Codes
        BY <1>8, <3>1, <3>2 DEF BucketSound
      <3>7. f + 1 \in DOMAIN Way[e] =>
              IF children'[x] = "yes" THEN Clean(y)' ELSE Unset(y)'
        <4>1. SUFFICES ASSUME f + 1 \in DOMAIN Way[e]
                       PROVE  IF children'[x] = "yes" THEN Clean(y)' ELSE Unset(y)'
          OBVIOUS
        <4>2. /\ y \in Buckets
              /\ y \in ChildrenOf(b) <=> f + 1 = d + 1 /\ BucketOf(e, d) = b
          BY <1>9, <4>1
        <4>3. f \in Nat /\ d \in Nat
          BY <1>3, BucketIndices
        <4>4. y \in ChildrenOf(b) <=> x = b
          <5>1. x = b => f = d
            BY <1>1, <1>3, SameBucket
          <5> QED
            BY <4>2, <4>3, <5>1
        <4>5. IF children[x] = "yes" /\ x # b THEN Clean(y) ELSE Unset(y)
          BY <1>5, <3>1, <4>1 DEF BucketSound
        <4>6. b \notin ChildrenOf(b)
          BY <1>1, <1>3, <1>7, <1>9 DEF Unset
        <4> HIDE DEF x, y
        <4>7. CASE x = b
          BY <1>3, <1>6, <1>8, <4>2, <4>4, <4>6, <4>7 DEF Clean
        <4>8. CASE x # b
          BY <1>7, <1>8, <3>2, <4>2, <4>4, <4>5, <4>8 DEF Clean, Unset
        <4> QED
          BY <4>7, <4>8
      <3> QED
        BY <1>5, <3>3, <3>5, <3>6, <3>7 DEF BucketSound
    <2> QED
      BY <2>1 DEF MapSound
  <1>12. ASSUME NEW e \in Codes, Absent(e)
         PROVE  Absent(e)'
    BY <1>7, <1>8, <1>9, <1>12 DEF Absent
  <1>13. HolderSound("put child", c, d)'
    <2>1. PathTo(c, d)' /\ Absent(c)' /\ created'[c] = 1
      BY <1>2, <1>3, <1>10, <1>12
    <2>2. children'[b] = "yes"
      BY <1>1, <1>3, <1>7, <1>8, <1>9 DEF Unset
    <2>3. hash'[BucketOf(c, d + 1)] = NoCode
      BY <1>1, <1>3, <1>8, <1>9
    <2> QED
      BY <1>1, <1>3, <2>1, <2>2, <2>3 DEF HolderSound, Searching
  <1>14. Writes(t, "put child", c, d)
    <2>1. AllKept
      BY <1>10 DEF AllKept
    <2> QED
      BY <1>1, <1>2, <1>3, <1>8, <1>11, <1>12, <1>13, <2>1
      DEF Writes, Putting, LocaleInv, Typed
  <1>15. ThreadMoves(t, "put child", c, d, k)
    <2>1. "put child" \in Labels
      BY DEF Labels, Writing, Putting
    <2> QED
      BY <1>1, <1>2, <1>3, <2>1, ThreadFacts DEF ThreadMoves
  <1> QED
    BY <1>1, <1>14, <1>15, WriterStep

(* Stuttering does.                                                         *)
LEMMA StutterKeeps ==
  ASSUME LocaleInv, UNCHANGED vars
  PROVE  LocaleInv'
  <1>1. /\ UNCHANGED << map, created >>
        /\ hash' = hash /\ children' = children /\ value' = value
        /\ mutex' = mutex /\ pc' = pc /\ code' = code /\ depth' = depth
        /\ created' = created /\ finished' = finished /\ known' = known
    BY DEF vars, map, thread, history
  <1>2. Typed' /\ Exclusive'
    BY <1>1 DEF LocaleInv, Typed, Exclusive
  <1>3. ASSUME NEW b
        PROVE  Clearing(b)' <=> Clearing(b)
    BY <1>1 DEF Clearing, Here
  <1>4. MapSound'
    <2>1. ASSUME NEW e \in Codes, NEW f \in DOMAIN Way[e]
          PROVE  BucketSound(e, f)'
      <3>1. BucketSound(e, f)
        BY DEF LocaleInv, MapSound
      <3> QED
        BY <1>1, <1>3, <3>1 DEF BucketSound, Clean, Unset
    <2> QED
      BY <2>1 DEF MapSound
  <1>5. ASSUME NEW e, NEW f
        PROVE  Kept(e, f) => Kept(e, f)'
    BY <1>1, SameMap
  <1>6. ASSUME NEW e \in Codes
        PROVE  CreatedSound(e)'
    <2>1. CreatedSound(e)
      BY DEF LocaleInv
    <2>2. BeingPut(e) => BeingPut(e)'
      BY <1>1 DEF BeingPut
    <2>3. Absent(e) => Absent(e)'
      BY <1>1, SameMap
    <2> QED
      BY <1>1, <1>5, <2>1, <2>2, <2>3 DEF CreatedSound
  <1>7. \A e \in finished' : \E f \in DOMAIN Way[e] : Kept(e, f)'
    BY <1>1, <1>5 DEF LocaleInv
  <1>8. ASSUME NEW u \in Threads
        PROVE  /\ (mutex = u => HolderSound(pc[u], code[u], depth[u]))'
               /\ (known[u] \subseteq finished)'
               /\ (code[u] \in known[u] =>
                     mutex # u /\ FinderSound(pc[u], code[u], depth[u]))'
    <2>1. PICK q, e, f : q = pc[u] /\ e = code[u] /\ f = depth[u]
      OBVIOUS
    <2>2. q = pc'[u] /\ e = code'[u] /\ f = depth'[u] /\ known'[u] = known[u]
      BY <1>1, <2>1
    <2>3. /\ mutex = u => HolderSound(q, e, f)
          /\ e \in known[u] => mutex # u /\ FinderSound(q, e, f)
          /\ known[u] \subseteq finished
      BY <2>1 DEF LocaleInv
    <2>4. HolderSound(q, e, f) => HolderSound(q, e, f)'
      BY <1>1, SameMap
    <2>5. FinderSound(q, e, f) => FinderSound(q, e, f)'
      BY <1>5, FinderKept
    <2>6. mutex' = u => HolderSound(q, e, f)'
      BY <1>1, <2>3, <2>4
    <2>7. e \in known[u] => mutex' # u /\ FinderSound(q, e, f)'
      BY <1>1, <2>3, <2>5
    <2> QED
      BY <1>1, <2>2, <2>3, <2>6, <2>7, PlaceAfter
  <1> QED
    BY <1>2, <1>4, <1>6, <1>7, <1>8 DEF LocaleInv

(* Every step keeps the invariant.                                         *)
LEMMA LocaleStepSound == LocaleInv /\ [Next]_vars => LocaleInv'
  <1> SUFFICES ASSUME LocaleInv, [Next]_vars PROVE LocaleInv'
    OBVIOUS
  <1>1. ASSUME NEW t \in Threads, Inside(t)
        PROVE  LocaleInv'
    BY <1>1, GetHashKeeps, GetChildrenKeeps, LockKeeps, CreateKeeps, PutHashKeeps,
       PutBelowKeeps, PutArrayKeeps, ClearArrayKeeps, PutValueKeeps, UnlockKeeps,
       ReadKeeps DEF Inside
  <1> QED
    BY <1>1, CallKeeps, StutterKeeps DEF Next

------------------------------------------------------------------------------

(* The invariant holds, whatever the threads do.                           *)
THEOREM LocaleInvariant == Spec => []LocaleInv
  <1> QED
    BY LocaleInitSound, LocaleStepSound, PTL DEF Spec

(* However many threads ask for whatever codes at once, newlocale() is     *)
(* called at most once for each.                                           *)
THEOREM LocalesCreatedOnce == Spec => []CreatedOnce
  <1>1. LocaleInv => CreatedOnce
    BY DEF LocaleInv, CreatedSound, CreatedOnce
  <1> QED
    BY <1>1, LocaleInvariant, PTL

(* A call that begins when its code has been put finds it without locking, *)
(* and the locale with it, while other threads put other codes.            *)
THEOREM CallsFindWhatWasPut == Spec => []SubsequentCallsFind
  <1>1. LocaleInv => SubsequentCallsFind
    <2>1. ASSUME LocaleInv, NEW t \in Threads, code[t] \in known[t]
          PROVE  /\ pc[t] \notin {"lock", "create", "put", "unlock", "lost"}
                 /\ pc[t] \in {"read locale", "read again"} =>
                      hash[Here(t)] = code[t] /\ value[Here(t)] = Stored(code[t])
      <3>1. FinderSound(pc[t], code[t], depth[t])
        BY <2>1 DEF LocaleInv
      <3> QED
        BY <3>1 DEF FinderSound, Kept, Holds, Here, Searching, Reading
    <2> QED
      BY <2>1 DEF SubsequentCallsFind
  <1> QED
    BY <1>1, LocaleInvariant, PTL

==============================================================================
