---------------------------- MODULE MCMapIterator ----------------------------
(***************************************************************************)
(* The hash map and its iterator with hashes of 14 bits. A root array of   *)
(* 64 buckets uses six bits, the two levels after it four each; the first  *)
(* two hashes differ on the third level only, the last from both on the    *)
(* first. A root array of 16 buckets uses four bits, and all three share a *)
(* bucket of it.                                                           *)
(***************************************************************************)
EXTENDS MapIterator, TLC

CollidingHashes ==
  { 5 + 64 * 5 + 1024 * 1, 5 + 64 * 5 + 1024 * 2, 5 + 16 }

\* Elements are only ever copied.
SameElements == Permutations(Values)

==============================================================================
