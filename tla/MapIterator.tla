----------------------------- MODULE MapIterator -----------------------------
(***************************************************************************)
(* The iterator of the hash map (gp_map_begin and gp_map_next), used while *)
(* the map changes. It walks the arrays depth first: the children of a     *)
(* bucket before the bucket itself, and at the end of an array back to the *)
(* bucket the array hangs off, which the last bucket of the array, the     *)
(* terminator, has stored.                                                 *)
(***************************************************************************)
EXTENDS HashMap, SequencesExt

VARIABLES
  it,      \* the iterator: a bucket and the size_shift of its array, or Done
  seen,    \* history: the hashes the iterator has returned, in order
  stayed   \* history: the hashes in the map ever since gp_map_begin

iteratorVars == << it, seen, stayed >>

allVars == << vars, iteratorVars >>

Done == [bucket |-> << >>, shift |-> 0]

\* The hash of the key a bucket in use holds the element of.
KeyOf(bucket) == CHOOSE h \in Hashes : bucket \in Holders(h)

\* The size_shift of an array one level down, as the iterator computes it.
DownShift(s) == Max({s - 2, MinShift})

\* Does the bucket that an array hangs off hold an element itself?
ParentHolds_Never(array) == FALSE

ParentHolds(array) == HashIn(array) # 0

\* Where the loop of the iterator is: at a bucket of an array it takes to have
\* 2^shift buckets.
Places == [array : Seq(Nat), index : Nat, shift : Nat]

\* The buckets from there to the end of the array that are in use or have
\* children, and the first of them.
Ahead(p) ==
  {j \in p.index .. TwoTo[ArrayShift(p.array)] - 1 :
     Append(p.array, j) \in arrays \cup DOMAIN slots}

Reached(p) == Append(p.array, Min(Ahead(p)))

\* The first bucket of the children of the bucket that is reached.
Down(p) ==
  [array |-> Reached(p), index |-> 0, shift |-> DownShift(p.shift)]

\* The size_shift that the terminator of an array has stored.
UpShift(array) == ArrayShift(ArrayOf(array))

\* The bucket after the one that an array hangs off.
Up(p) ==
  [ array |-> ArrayOf(p.array),
    index |-> IndexOf(p.array) + 1,
    shift |-> UpShift(p.array) ]

(***************************************************************************)
(* The loop of gp_map_begin and gp_map_next: over buckets that are free    *)
(* and without children to the next one that is not, or to the end of the  *)
(* array.                                                                  *)
(***************************************************************************)
FirstFrom[p \in Places] ==
  IF Ahead(p) # {}
  THEN IF Reached(p) \in arrays
       THEN FirstFrom[Down(p)]
       ELSE [bucket |-> Reached(p), shift |-> p.shift]
  ELSE IF p.array = Root
       THEN Done
       ELSE IF ParentHolds(p.array)
            THEN [bucket |-> p.array, shift |-> UpShift(p.array)]
            ELSE FirstFrom[Up(p)]

Returned(p) == IF p = Done THEN << >> ELSE << KeyOf(p.bucket) >>

\* gp_map_begin
FirstBucket == FirstFrom[[array |-> Root, index |-> 0, shift |-> shift]]

GpMapBegin ==
  /\ shift # 0
  /\ it' = FirstBucket
  /\ seen' = Returned(it')
  /\ stayed' = DOMAIN Contents
  /\ UNCHANGED vars

\* gp_map_next
NextFrom(p) ==
  FirstFrom[ [ array |-> ArrayOf(p.bucket),
               index |-> IndexOf(p.bucket) + 1,
               shift |-> p.shift ] ]

GpMapNext ==
  /\ shift # 0
  /\ it # Done
  /\ it' = NextFrom(it)
  /\ seen' = seen \o Returned(it')
  /\ UNCHANGED << vars, stayed >>

\* The operations of the map leave an iterator as it is.
IteratorInit == Init /\ it = Done /\ seen = << >> /\ stayed = {}

IteratorNext ==
  \/ /\ \/ \E capacity \in Capacities : GpMapNew(capacity)
        \/ GpMapDelete
     /\ it' = Done /\ seen' = << >> /\ stayed' = {}
  \/ /\ \E h \in Hashes, v \in Values : Holders(h) = {} /\ GpMapPut(h, v)
     /\ UNCHANGED iteratorVars
  \/ \E h \in Hashes : GpMapGet(h) /\ UNCHANGED iteratorVars
  \/ \E h \in Hashes :
       /\ GpMapRemove(h)
       /\ stayed' = stayed \ {h}
       /\ UNCHANGED << it, seen >>
  \/ GpMapBegin
  \/ GpMapNext

IteratorSpec == IteratorInit /\ [][IteratorNext]_allVars

------------------------------------------------------------------------------

(***************************************************************************)
(* An iterator points into the map, and its size_shift, from which the     *)
(* value pointer is computed, is that of the array it points into.         *)
(***************************************************************************)
IteratorKnowsArray ==
  it # Done => InArray(it.bucket) /\ it.shift = ArrayShift(ArrayOf(it.bucket))

Times(h) == Cardinality({i \in DOMAIN seen : seen[i] = h})

(***************************************************************************)
(* An element that is in the map while it is iterated over is returned     *)
(* once: never twice, and not missed whatever is put and removed meanwhile.*)
(***************************************************************************)
ReturnsOnce ==
  /\ IteratorKnowsArray
  /\ \A h \in stayed : Times(h) <= 1 /\ (it = Done => Times(h) = 1)

==============================================================================
