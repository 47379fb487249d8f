----------------------------- MODULE AbstractMap -----------------------------
(***************************************************************************)
(* What a GPMap promises (include/gpc/hashmap.h): a finite map from hashes *)
(* to elements. The operations return the element concerned, if any.       *)
(***************************************************************************)
EXTENDS Functions

CONSTANTS Hashes, Values, None

VARIABLES
  contents,  \* the map
  result     \* what the last operation returned

vars == << contents, result >>

Found(h) == IF h \in DOMAIN contents THEN contents[h] ELSE None

Init == contents = << >> /\ result = None

Put(h, v) ==
  /\ result' = v
  /\ contents' = [g \in DOMAIN contents \cup {h} |->
                    IF g = h THEN v ELSE contents[g]]

Get(h) == result' = Found(h) /\ UNCHANGED contents

Remove(h) ==
  /\ result' = Found(h)
  /\ contents' = Restrict(contents, DOMAIN contents \ {h})

Clear == result' = None /\ contents' = << >>

Next ==
  \/ \E h \in Hashes, v \in Values : Put(h, v)
  \/ \E h \in Hashes : Get(h) \/ Remove(h)
  \/ Clear

Spec == Init /\ [][Next]_vars

==============================================================================
