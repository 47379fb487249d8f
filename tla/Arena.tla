-------------------------------- MODULE Arena --------------------------------
(***************************************************************************)
(* The arena allocator of src/memory.c: a linked list of nodes taken from  *)
(* a backing allocator, newest first. Blocks are cut off the newest node   *)
(* by bumping its position; a request that does not fit gets a new node.   *)
(* Memory is given back only in bulk: a rewind to a block frees it and     *)
(* everything allocated after it, a reset keeps the first node only.       *)
(*                                                                         *)
(* Addresses. The list is the sequence nodes, oldest first, so the C head  *)
(* is the last element and tail is the element before. A pointer is a pair *)
(* of a node's index and an offset from the start of that node, which      *)
(* loses nothing: nodes are separate allocations, so C's comparisons of    *)
(* addresses from different nodes come out as they do here. What absolute  *)
(* addresses matter for is alignment, and for that each node has a base,   *)
(* its address modulo the largest alignment.                               *)
(*                                                                         *)
(* A definition named X_Y just before X is X with a slip Y in it, kept to  *)
(* show that the properties notice it; nothing else refers to it.          *)
(***************************************************************************)
EXTENDS Alignment, SequencesExt

CONSTANTS
  NodeSize,         \* sizeof(GPArenaNode), the header before a node's memory
  AllocAlignment,   \* GP_ALLOC_ALIGNMENT
  PoisonBoundary,   \* GP_POISON_BOUNDARY_SIZE: 8 with a sanitizer, else 0
  Bases,            \* addresses the backing allocator gives nodes
  FirstBases,       \* addresses of the first node, inside the arena's own block
  MetaSize,         \* meta_size, the arena structure before the first node
  DefaultCapacity,  \* the capacity used for 0: 256
  Capacities,       \* capacities clients pass to gp_arena_new
  GrowNum, GrowDen, \* growth_factor, as a fraction
  Sizes,            \* sizes clients ask for
  Alignments,       \* alignments clients ask for
  MaxNodes,         \* bound: length of the list of nodes
  MaxBlocks         \* bound: blocks held at once

ASSUME ArenaAssumption ==
  /\ NodeSize \in Nat
  /\ AllocAlignment \in Nat \ {0}
  /\ PoisonBoundary \in Nat
  /\ Bases \subseteq Nat
  /\ FirstBases \subseteq Nat
  /\ MetaSize \in Nat
  /\ DefaultCapacity \in Nat
  /\ Capacities \subseteq Nat
  /\ GrowNum \in Nat \ {0}
  /\ GrowDen \in Nat \ {0}
  /\ Sizes \subseteq Nat \ {0}
  /\ Alignments \subseteq Nat \ {0}
  /\ MaxNodes \in Nat
  /\ MaxBlocks \in Nat

VARIABLES
  nodes,  \* the list of nodes; empty while there is no arena
  live,   \* the blocks the client holds, in the order they were allocated
  copied  \* the last memcpy() of a reallocation: how much, from and to where

vars == << nodes, live, copied >>

(***************************************************************************)
(* alloc is the size of the memory the node sits in, counted from the      *)
(* node's own start; cap is the capacity field and pos the position.       *)
(***************************************************************************)
Node == [base : Nat, alloc : Nat, cap : Nat, pos : Nat]

Block == [node : Nat \ {0}, off : Nat, size : Nat \ {0}, align : Nat \ {0}]

Copy == [from : Block, to : Block, len : Nat]

NoCopy == << >>

\* The first offset at or after off that is aligned in a node at base.
AlignedOffset_InNode(base, off, align) == RoundToAligned(off, align)

AlignedOffset(base, off, align) == RoundToAligned(base + off, align) - base

Max2(a, b) == IF a >= b THEN a ELSE b

------------------------------------------------------------------------------

(***************************************************************************)
(* How much gp_s_arena_node_new_alloc asks of the backing allocator for a  *)
(* node of capacity cap whose first block is as given.                     *)
(***************************************************************************)
NodeAllocation_NoOversize(cap, size, align) ==
  RoundToAligned(NodeSize, align) + cap + align - AllocAlignment

NodeAllocation(cap, size, align) ==
  RoundToAligned(NodeSize, align) + Max2(cap, size + PoisonBoundary)
    + align - AllocAlignment

GrownCapacity(cap) == (cap * GrowNum) \div GrowDen

\* The node it makes to hold a block that the head cannot.
NodeFor(head, base, size, align) ==
  LET cap == GrownCapacity(head.cap) IN
  [ base  |-> base,
    alloc |-> NodeAllocation(cap, size, align),
    cap   |-> cap,
    pos   |-> AlignedOffset(base, NodeSize, align) + size + PoisonBoundary ]

\* The list with the position of its k-th node moved.
WithPosition(ns, k, pos) == [ns EXCEPT ![k].pos = pos]

\* Does a block at off fit in the node's capacity?
Fits(node, off, size) == off + size + PoisonBoundary <= NodeSize + node.cap

(***************************************************************************)
(* gp_arena_alloc on the list ns: the resulting list and the block. base   *)
(* is where the backing allocator puts a new node, if there is one.        *)
(***************************************************************************)
ArenaAlloc(ns, base, size, align) ==
  LET k    == Len(ns)
      off  == AlignedOffset(ns[k].base, ns[k].pos, align)
      full == NodeFor(ns[k], base, size, align)
  IN  IF Fits(ns[k], off, size)
      THEN [ nodes |-> WithPosition(ns, k, off + size + PoisonBoundary),
             block |-> [node |-> k, off |-> off, size |-> size, align |-> align] ]
      ELSE [ nodes |-> Append(WithPosition(ns, k, off), full),
             block |-> [node |-> k + 1, off |-> AlignedOffset(base, NodeSize, align),
                        size |-> size, align |-> align] ]

\* gp_s_in_this_node: is the pointer inside the node's capacity, end included?
InThisNode_ShortByHeader(node, k, block) ==
  /\ block.node = k
  /\ NodeSize <= block.off
  /\ block.off <= node.cap

InThisNode(node, k, block) ==
  /\ block.node = k
  /\ NodeSize <= block.off
  /\ block.off <= NodeSize + node.cap

\* The nodes at which the loop of gp_arena_rewind would stop for this pointer.
RewindStops(block) == {k \in DOMAIN nodes : InThisNode(nodes[k], k, block)}

------------------------------------------------------------------------------

Init ==
  /\ nodes = << >>
  /\ live = << >>
  /\ copied = NoCopy

(***************************************************************************)
(* gp_arena_new. The first node sits after the arena's meta data, in       *)
(* memory of the backing allocator or, if it is large enough, in the       *)
(* client's buffer, where the poison boundary is kept out of the capacity. *)
(***************************************************************************)
FirstNode(base, cap, spare) ==
  [base |-> base, alloc |-> NodeSize + cap + spare, cap |-> cap, pos |-> NodeSize]

FitsBuffer(capacity) == capacity > MetaSize + NodeSize + PoisonBoundary

HeapCapacity(capacity) ==
  PoisonBoundary + (IF capacity # 0 THEN RoundToAligned(capacity, AllocAlignment)
                                    ELSE DefaultCapacity)

ArenaNew(capacity, base, buffered) ==
  /\ nodes = << >>
  /\ nodes' = IF buffered /\ FitsBuffer(capacity)
              THEN << FirstNode(base, capacity - MetaSize - NodeSize - PoisonBoundary,
                                PoisonBoundary) >>
              ELSE << FirstNode(base, HeapCapacity(capacity), 0) >>
  /\ copied' = NoCopy
  /\ UNCHANGED live

\* gp_mem_alloc_aligned(arena, size, align)
MemAlloc(size, align, base) ==
  /\ nodes # << >>
  /\ Len(live) < MaxBlocks
  /\ LET r == ArenaAlloc(nodes, base, size, align)
     IN  /\ Len(r.nodes) <= MaxNodes
         /\ nodes' = r.nodes
         /\ live' = Append(live, r.block)
  /\ copied' = NoCopy

\* gp_mem_dealloc(arena, block): gp_internal_arena_dealloc frees nothing.
MemDealloc(i) ==
  /\ live' = RemoveAt(live, i)
  /\ copied' = NoCopy
  /\ UNCHANGED nodes

\* Is this block the last object of the arena, ending at the head's position?
EndsAtPosition_AnywhereInHead(block) == block.node = Len(nodes)

EndsAtPosition(block) ==
  /\ block.node = Len(nodes)
  /\ block.off + block.size + PoisonBoundary = nodes[block.node].pos

\* A block that is the last object gives its room back.
GivenBack(ns, block) ==
  IF EndsAtPosition(block) THEN WithPosition(ns, block.node, block.off) ELSE ns

(***************************************************************************)
(* The reallocations clients ask for. gp_mem_reserve_aligned reallocates   *)
(* only to enlarge, and the containers keep the alignment of their memory. *)
(***************************************************************************)
Reallocates_NoSizeCheck(block, size, align) == align = block.align

Reallocates(block, size, align) == size > block.size /\ align = block.align

(***************************************************************************)
(* gp_mem_realloc_aligned. The last object is first given back, so that    *)
(* the request finds its room; unless the result is the same pointer the   *)
(* old contents are copied, all old_size bytes of them.                    *)
(***************************************************************************)
MemRealloc(i, size, align, base) ==
  LET old == live[i]
      r   == ArenaAlloc(GivenBack(nodes, old), base, size, align)
  IN  /\ Len(r.nodes) <= MaxNodes
      /\ Reallocates(old, size, align)
      /\ nodes' = r.nodes
      /\ live' = Append(RemoveAt(live, i), r.block)
      /\ copied' = IF r.block.node = old.node /\ r.block.off = old.off
                   THEN NoCopy
                   ELSE [from |-> old, to |-> r.block, len |-> old.size]

\* The first k nodes, the last of them back at the given position.
Rewound_ToStart(ns, k, pos) == WithPosition(SubSeq(ns, 1, k), k, NodeSize)

Rewound(ns, k, pos) == WithPosition(SubSeq(ns, 1, k), k, pos)

(***************************************************************************)
(* gp_arena_rewind to the i-th block held. The loop deletes nodes from the *)
(* newest on until one contains the pointer; if none does it runs off the  *)
(* list, which RewindStopsAtOwner excludes, hence the guard.               *)
(***************************************************************************)
ArenaRewind(i) ==
  LET stops == RewindStops(live[i])
      k     == CHOOSE m \in stops : \A n \in stops : n <= m
  IN  /\ stops # {}
      /\ nodes' = Rewound(nodes, k, live[i].off)
      /\ live' = SubSeq(live, 1, i - 1)
      /\ copied' = NoCopy

\* gp_arena_reset
ArenaReset ==
  /\ nodes # << >>
  /\ nodes' = Rewound(nodes, 1, NodeSize)
  /\ live' = << >>
  /\ copied' = NoCopy

\* gp_arena_delete
ArenaDelete ==
  /\ nodes # << >>
  /\ nodes' = << >>
  /\ live' = << >>
  /\ copied' = NoCopy

Next ==
  \/ \E capacity \in Capacities, base \in FirstBases, buffered \in BOOLEAN :
       ArenaNew(capacity, base, buffered)
  \/ \E size \in Sizes, align \in Alignments, base \in Bases :
       MemAlloc(size, align, base)
  \/ \E i \in DOMAIN live : MemDealloc(i)
  \/ \E i \in DOMAIN live, size \in Sizes, align \in Alignments, base \in Bases :
       MemRealloc(i, size, align, base)
  \/ \E i \in DOMAIN live : ArenaRewind(i)
  \/ ArenaReset
  \/ ArenaDelete

Spec == Init /\ [][Next]_vars

------------------------------------------------------------------------------

TypeOK ==
  /\ nodes \in Seq(Node)
  /\ live \in Seq(Block)
  /\ copied = NoCopy \/ copied \in Copy

(***************************************************************************)
(* Every block the client holds lies, with its poison boundary, inside     *)
(* the memory that was allocated for its node and after the node's header: *)
(* no rewind, reset or reallocation frees or overlays memory in use.       *)
(***************************************************************************)
BlocksInMemory ==
  \A i \in DOMAIN live :
    /\ live[i].node \in DOMAIN nodes
    /\ NodeSize <= live[i].off
    /\ live[i].off + live[i].size + PoisonBoundary <= nodes[live[i].node].alloc

(***************************************************************************)
(* Blocks are laid out in the order they were allocated, none overlaps     *)
(* another. Broken by a rewind or an in-place reallocation that puts the   *)
(* position below a block still in use.                                    *)
(***************************************************************************)
BlocksInOrder ==
  \A i, j \in DOMAIN live :
    i < j =>
      \/ live[i].node < live[j].node
      \/ /\ live[i].node = live[j].node
         /\ live[i].off + live[i].size + PoisonBoundary <= live[j].off

\* No block of the newest node reaches past the position the next is cut from.
BlocksBelowPosition ==
  \A i \in DOMAIN live :
    live[i].node = Len(nodes) =>
      live[i].off + live[i].size + PoisonBoundary <= nodes[live[i].node].pos

(***************************************************************************)
(* "All pointers returned by alloc() also MUST be aligned"                 *)
(* (tests/test_memory.c:427), whatever node a block ended up in and        *)
(* whatever the block was reallocated from.                                *)
(***************************************************************************)
BlocksAligned ==
  \A i \in DOMAIN live :
    (nodes[live[i].node].base + live[i].off) % live[i].align = 0

(***************************************************************************)
(* gp_arena_rewind to any block the client holds finds the node the block  *)
(* is in, and so never frees that node or runs off the end of the list     *)
(* (include/gpc/memory.h:281).                                             *)
(***************************************************************************)
RewindStopsAtOwner ==
  \A i \in DOMAIN live : RewindStops(live[i]) = {live[i].node}

(***************************************************************************)
(* The memcpy() of a reallocation reads and writes separate memory and     *)
(* stays inside the new block.                                             *)
(***************************************************************************)
CopiesAreSound ==
  copied # NoCopy =>
    /\ copied.len <= copied.to.size
    /\ \/ copied.from.node # copied.to.node
       \/ copied.from.off + copied.len <= copied.to.off
       \/ copied.to.off + copied.len <= copied.from.off

(***************************************************************************)
(* An arena is an allocator: its blocks, in order of allocation.           *)
(***************************************************************************)
Allocator == INSTANCE AbstractAllocator WITH held <- live

ImplementsAllocator == Allocator!Spec

==============================================================================
