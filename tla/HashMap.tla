------------------------------- MODULE HashMap -------------------------------
(***************************************************************************)
(* The hash map of src/hashmap.c: a tree of arrays of buckets. An element  *)
(* goes in the bucket its hash's low bits select, if that is free, else    *)
(* in the array of children of that bucket, by the next bits of the hash.  *)
(* The arrays get smaller with depth and the hash is rotated from one to   *)
(* the next, so that the bits of a hash are all used before they repeat.   *)
(*                                                                         *)
(* A bucket is named by the indices on the way to it from the root, and    *)
(* the array of a bucket's children by the name of the bucket, so the root *)
(* array is << >> and array << 3 >> holds buckets << 3, 0 >>, << 3, 1 >>...*)
(*                                                                         *)
(* A definition named X_Y just before X is X with a slip Y in it, kept to  *)
(* show that the properties notice it; nothing else refers to it.          *)
(***************************************************************************)
EXTENDS Alignment, FiniteSets, Sequences, FiniteSetsExt, Functions

CONSTANTS
  HashBits,       \* width of a hash: 64
  Hashes,         \* the hashes of the keys clients use
  Values,         \* elements
  None,           \* NULL
  Junk,           \* an element whose memory was never written
  Capacities,     \* capacities clients pass to gp_map_new
  MinCapacity,    \* 16
  MaxCapacity,    \* 0x4000
  DuplicatePuts   \* may clients put a key that is in the map already?

\* log2 of the size of the smallest arrays
MinShift == 4

\* 1 << n, for every n that a hash can be shifted by
TwoTo == [n \in 0 .. HashBits |-> PowerOfTwo[n]]

ASSUME HashMapAssumption ==
  /\ HashBits \in Nat /\ HashBits % 2 = 0
  /\ Hashes \subseteq 0 .. PowerOfTwo[HashBits] - 1
  /\ None \notin Values /\ Junk \notin Values /\ None # Junk
  /\ Capacities \subseteq Nat
  /\ MinCapacity \in Nat /\ PowerOfTwo[MinShift] <= MinCapacity
  /\ MaxCapacity \in MinCapacity .. PowerOfTwo[HashBits]
  /\ DuplicatePuts \in BOOLEAN

VARIABLES
  shift,   \* size_shift of the root array; 0 while there is no map
  arrays,  \* the arrays that are allocated
  slots,   \* the buckets in use, with the hash and the element they hold
  result   \* what the last operation returned

vars == << shift, arrays, slots, result >>

Root == << >>

\* log2 of a number, rounded down
Log2(n) == CHOOSE e \in 0 .. n : PowerOfTwo[e] <= n /\ n < PowerOfTwo[e + 1]

\* gp_map_new: the size of the root array, an even power of two.
RootShift_AnyPower(capacity) ==
  Log2(Min({MaxCapacity, Max({MinCapacity, capacity})}))

RootShift(capacity) ==
  LET e == Log2(Min({MaxCapacity, Max({MinCapacity, capacity})}))
  IN  e + (e % 2)

\* How the hash is rotated from an array of 2^s buckets to the next one.
Rotated(h, s) ==
  ((h * TwoTo[HashBits - s]) % TwoTo[HashBits]) + (h \div TwoTo[s])

\* The size of a bucket's children, from the size of its own array: as
\* gp_s_map_put computes it, as gp_s_map_get and gp_s_map_remove do, and as
\* gp_s_bucket_delete does.
PutShift(s) == Max({s - 2, MinShift})

GetShift(s) == IF s > MinShift THEN s - 2 ELSE s

DeleteShift(s) == IF s > MinShift THEN s \div 4 ELSE s

\* The bucket that a search looks at on a level.
Bucket(level) == Append(level.array, level.hash % TwoTo[level.shift])

(***************************************************************************)
(* The search for hash h goes from the root array down: at depth d it is   *)
(* in this array, of 2^shift buckets, with the hash rotated this far.      *)
(***************************************************************************)
Search(h, Down(_)) ==
  LET level[d \in Nat] ==
        IF d = 0
        THEN [array |-> Root, shift |-> shift, hash |-> h]
        ELSE LET up == level[d - 1] IN
             [ array |-> Bucket(up),
               shift |-> Down(up.shift),
               hash  |-> Rotated(up.hash, up.shift) ]
  IN  level

PutSearch(h) == Search(h, PutShift)

GetSearch(h) == Search(h, GetShift)

\* The hash field of a bucket: 0 if it is free.
HashIn(bucket) == IF bucket \in DOMAIN slots THEN slots[bucket].hash ELSE 0

\* The array a bucket is in, and its index in it.
ArrayOf(bucket) == SubSeq(bucket, 1, Len(bucket) - 1)

IndexOf(bucket) == bucket[Len(bucket)]

\* log2 of the number of buckets an array was allocated for.
ArrayShift(array) ==
  LET size[d \in Nat] == IF d = 0 THEN shift ELSE PutShift(size[d - 1])
  IN  size[Len(array)]

\* The depths a search can get to.
Depths == 0 .. Cardinality(arrays)

------------------------------------------------------------------------------

Init ==
  /\ shift = 0
  /\ arrays = {}
  /\ slots = << >>
  /\ result = None

\* gp_map_new
GpMapNew(capacity) ==
  /\ shift = 0
  /\ shift' = RootShift(capacity)
  /\ arrays' = {Root}
  /\ slots' = << >>
  /\ result' = None

\* gp_s_map_put stops at a free bucket, or at one that has no children yet.
PutStops(level) == HashIn(Bucket(level)) = 0 \/ Bucket(level) \notin arrays

PutDepth(h) ==
  LET level == PutSearch(h)
  IN  Min({d \in Depths : PutStops(level[d])})

\* The bucket that gets the element: the one itself, or one of new children.
PutLevel(h) ==
  LET level == PutSearch(h)
      d     == PutDepth(h)
  IN  IF HashIn(Bucket(level[d])) = 0 THEN level[d] ELSE level[d + 1]

\* A bucket whose hash is zero counts as free, whatever was put in it.
WithSlot(level, v) ==
  IF level.hash = 0
  THEN slots
  ELSE [b \in DOMAIN slots \cup {Bucket(level)} |->
          IF b = Bucket(level)
          THEN [hash |-> level.hash, value |-> v]
          ELSE slots[b]]

\* gp_map_put
GpMapPut(h, v) ==
  /\ shift # 0
  /\ arrays' = arrays \cup {PutLevel(h).array}
  /\ slots' = WithSlot(PutLevel(h), v)
  /\ result' = v
  /\ UNCHANGED shift

(***************************************************************************)
(* gp_s_map_get and gp_s_map_remove stop at a bucket with the hash, or at  *)
(* one that has no children.                                               *)
(***************************************************************************)
GetStops_AtFree(h, level) ==
  \/ HashIn(Bucket(level)) \in {level.hash, 0}
  \/ Bucket(level) \notin arrays

GetStops(h, level) ==
  HashIn(Bucket(level)) = level.hash \/ Bucket(level) \notin arrays

GetLevel(h) ==
  LET level == GetSearch(h)
  IN  level[Min({d \in Depths : GetStops(h, level[d])})]

Found(h) ==
  LET b == Bucket(GetLevel(h)) IN
  IF HashIn(b) # GetLevel(h).hash
  THEN None
  ELSE IF b \in DOMAIN slots THEN slots[b].value ELSE Junk

\* gp_map_get
GpMapGet(h) ==
  /\ shift # 0
  /\ result' = Found(h)
  /\ UNCHANGED << shift, arrays, slots >>

\* gp_map_remove
GpMapRemove(h) ==
  /\ shift # 0
  /\ result' = Found(h)
  /\ slots' = IF Found(h) = None
              THEN slots
              ELSE Restrict(slots, DOMAIN slots \ {Bucket(GetLevel(h))})
  /\ UNCHANGED << shift, arrays >>

(***************************************************************************)
(* gp_map_delete visits the buckets of the root array and, for each that   *)
(* has children, frees the children after visiting their buckets: as many  *)
(* as the size it computes for them says.                                  *)
(***************************************************************************)
Visited_OneLevel(array) == Len(array) < 2

Visited(array) ==
  LET size[d \in Nat] == IF d = 0 THEN shift ELSE DeleteShift(size[d - 1])
  IN  \A d \in DOMAIN array : array[d] < TwoTo[size[d - 1]]

GpMapDelete ==
  /\ shift # 0
  /\ arrays' = {a \in arrays : ~ Visited(a)}
  /\ shift' = 0
  /\ slots' = << >>
  /\ result' = None

------------------------------------------------------------------------------

\* The buckets that hold hash h, wherever they are.
Holders(h) ==
  LET level == PutSearch(h)
  IN  {b \in DOMAIN slots : slots[b].hash = level[Len(b) - 1].hash}

Contents ==
  LET holders == [h \in Hashes |-> Holders(h)]
  IN  [h \in {g \in Hashes : holders[g] # {}} |->
         slots[CHOOSE b \in holders[h] : TRUE].value]

Next ==
  \/ \E capacity \in Capacities : GpMapNew(capacity)
  \/ \E h \in Hashes, v \in Values :
       /\ DuplicatePuts \/ Holders(h) = {}
       /\ GpMapPut(h, v)
  \/ \E h \in Hashes : GpMapGet(h)
  \/ \E h \in Hashes : GpMapRemove(h)
  \/ GpMapDelete

Spec == Init /\ [][Next]_vars

------------------------------------------------------------------------------

(***************************************************************************)
(* Every bucket in use is in an array that is allocated, inside its        *)
(* bounds, and every array hangs off a bucket of another one: what put     *)
(* writes is inside the memory it allocated for it.                        *)
(***************************************************************************)
InArray(bucket) ==
  /\ ArrayOf(bucket) \in arrays
  /\ IndexOf(bucket) < TwoTo[ArrayShift(ArrayOf(bucket))]

BucketsInArrays ==
  /\ \A b \in DOMAIN slots : InArray(b)
  /\ \A a \in arrays \ {Root} : shift # 0 => InArray(a)

(***************************************************************************)
(* The map never holds a key twice, and a search finds the bucket that     *)
(* holds it: whatever was removed in between, on the way to it.            *)
(***************************************************************************)
SearchFindsHolder ==
  shift # 0 =>
    \A h \in Hashes :
      /\ Cardinality(Holders(h)) <= 1
      /\ \A b \in Holders(h) : Bucket(GetLevel(h)) = b

(***************************************************************************)
(* The sizes of arrays, which nobody stores, come out the same wherever    *)
(* src/hashmap.c computes them: what put, get and remove look at is in the *)
(* arrays that put allocated, and a search gets to the element of its key. *)
(***************************************************************************)
TreeIsSound == BucketsInArrays /\ SearchFindsHolder

(***************************************************************************)
(* "Deallocate hash map" (include/gpc/hashmap.h:60): no array of the map   *)
(* is left allocated. This goes for maps whose root array has the smallest *)
(* size, and is not true of the others.                                    *)
(***************************************************************************)
DeleteFreesSmall == [][shift = MinShift /\ shift' = 0 => arrays' = {}]_vars

(***************************************************************************)
(* The hash map is a map.                                                  *)
(***************************************************************************)
Map == INSTANCE AbstractMap WITH contents <- Contents

ImplementsMap == Map!Spec

==============================================================================
