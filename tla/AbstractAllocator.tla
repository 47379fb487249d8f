-------------------------- MODULE AbstractAllocator --------------------------
(***************************************************************************)
(* What every GPAllocator promises its client (include/gpc/memory.h, the   *)
(* polymorphic alloc/dealloc pair and the gp_mem_* wrappers above it): a   *)
(* block handed out shares no byte with a block the client still holds,    *)
(* and a held block stays where it is until the client gives it up.        *)
(*                                                                         *)
(* held is the sequence of blocks the client holds, oldest first. A block  *)
(* is a record with at least a region, an offset in it and a size.         *)
(***************************************************************************)
EXTENDS Naturals, SequencesExt

VARIABLE held

Overlap(b, c) ==
  /\ b.node = c.node
  /\ b.off < c.off + c.size
  /\ c.off < b.off + b.size

\* Block b shares no byte with any block of the sequence bs.
Fresh(b, bs) == \A i \in DOMAIN bs : ~ Overlap(b, bs[i])

Init == held = << >>

\* A new block, disjoint from all the others.
Acquire ==
  /\ Len(held') = Len(held) + 1
  /\ \A i \in DOMAIN held : held'[i] = held[i]
  /\ Fresh(held'[Len(held')], held)

\* The client gives one block up.
Release == \E i \in DOMAIN held : held' = RemoveAt(held, i)

\* A block is given up for another one, which is disjoint from the others.
Exchange ==
  \E i \in DOMAIN held :
    LET others == RemoveAt(held, i) IN
    /\ Len(held') = Len(held)
    /\ \A j \in DOMAIN others : held'[j] = others[j]
    /\ Fresh(held'[Len(held')], others)

\* Every block from the i-th on is given up at once.
ReleaseFrom == \E i \in DOMAIN held : held' = SubSeq(held, 1, i - 1)

Next == Acquire \/ Release \/ Exchange \/ ReleaseFrom

Spec == Init /\ [][Next]_held

==============================================================================
