--------------------------- MODULE ContiguousArena ---------------------------
(***************************************************************************)
(* The contiguous arenas of src/memory.c: each is one mapping of virtual   *)
(* memory, with the arena's own structure at its start and blocks cut off  *)
(* the rest by bumping a position. There is nothing to free but the whole: *)
(* a rewind moves the position back, a reset also gives physical memory    *)
(* back to the system, a delete unmaps.                                    *)
(*                                                                         *)
(* The system is part of the model: which pages of the address space are   *)
(* mapped, and which have physical memory, hence what was written there.   *)
(* Several arenas share the address space, in whatever place the system    *)
(* puts them, one right behind another too. Page p has the addresses from  *)
(* p * PageSize on, and blocks and positions are offsets from the start of *)
(* their arena. Allocation checks bounds, as it does unless NDEBUG is      *)
(* defined, and the program ends if they are exceeded.                     *)
(*                                                                         *)
(* A page that loses its physical memory reads as zeros. If it is an       *)
(* arena's first one, the arena's structure is gone: its capacity is 0 and *)
(* its position and functions are NULL (Zeroed). Whoever allocates from    *)
(* it, gives back to it or rewinds it then calls NULL, writes to it or     *)
(* fails an assertion, and the program ends; it can still be reset and     *)
(* deleted.                                                                *)
(*                                                                         *)
(* A definition named X_Y just before X is X with a slip Y in it, kept to  *)
(* show that the properties notice it; nothing else refers to it.          *)
(***************************************************************************)
EXTENDS Alignment, FiniteSets, SequencesExt

CONSTANTS
  Arenas,          \* names for arenas
  Observed,        \* one of them, of which ImplementsAllocator speaks
  PageSize,        \* gp_page_size()
  MetaSize,        \* sizeof(GPContiguousArena)
  AllocAlignment,  \* GP_ALLOC_ALIGNMENT
  Capacities,      \* sizes clients pass to gp_carena_new
  Sizes,           \* sizes of blocks
  Alignments,      \* their alignments
  MaxPages,        \* bound: pages of the address space
  MaxBlocks        \* bound: blocks held at once of one arena

ASSUME ContiguousArenaAssumption ==
  /\ Observed \in Arenas
  /\ PageSize \in Nat \ {0}
  /\ MetaSize \in 1 .. PageSize - 1
  /\ AllocAlignment \in Nat \ {0}
  /\ Capacities \subseteq Nat \ {0}
  /\ Sizes \subseteq Nat \ {0}
  /\ Alignments \subseteq Nat \ {0}
  /\ MaxPages \in Nat
  /\ MaxBlocks \in Nat

VARIABLES
  arenas,    \* the arenas there are: their mapping, capacity and position
  live,      \* for each arena the blocks the client holds, oldest first
  mapped,    \* pages that are mapped
  resident,  \* mapped pages with physical memory: what was written is there
  leaked     \* history: the pages of arenas whose structure was gone when deleted

vars == << arenas, live, mapped, resident, leaked >>

Pages == 1 .. MaxPages

\* first and count are the pages the system mapped for the arena.
ArenaRecord == [first : Pages, count : Nat \ {0}, cap : Nat, pos : Nat]

Block == [node : Arenas, off : Nat, size : Nat \ {0}]

Exists == DOMAIN arenas

\* An arena whose first page was discarded, and one that still has its structure.
Zeroed(r) == [r EXCEPT !.cap = 0, !.pos = 0]

Intact(a) == arenas[a].cap # 0

\* The pages of an arena, and those that a range of its memory lies on.
PagesOf(a) == arenas[a].first .. arenas[a].first + arenas[a].count - 1

PagesFrom(a, off, size) ==
  arenas[a].first + (off \div PageSize)
    .. arenas[a].first + ((off + size - 1) \div PageSize)

BlockPages(b) == PagesFrom(b.node, b.off, b.size)

------------------------------------------------------------------------------

Init ==
  /\ arenas = << >>
  /\ live = [a \in Arenas |-> << >>]
  /\ mapped = {}
  /\ resident = {}
  /\ leaked = {}

\* The pages of a mapping for size bytes.
PagesFor(size) == RoundToAligned(size, PageSize) \div PageSize

(***************************************************************************)
(* gp_carena_new. mmap() finds a free range; when it fails there is no new *)
(* arena. The arena's structure is written to the first page.              *)
(***************************************************************************)
CarenaNew(a, size, first) ==
  LET range == first .. first + PagesFor(size) - 1 IN
  /\ a \notin Exists
  /\ range \subseteq Pages \ mapped
  /\ arenas' = [n \in Exists \cup {a} |->
                  IF n = a
                  THEN [ first |-> first, count |-> PagesFor(size),
                         cap |-> RoundToAligned(size, PageSize) - MetaSize,
                         pos |-> MetaSize ]
                  ELSE arenas[n]]
  /\ mapped' = mapped \cup range
  /\ resident' = resident \cup {first}
  /\ UNCHANGED << live, leaked >>

\* Is this position still inside the arena?
InBounds(a, pos) == pos <= MetaSize + arenas[a].cap

(***************************************************************************)
(* gp_carena_alloc with the position at pos: the block starts there, only  *)
(* then is the position aligned, and moved on by the size.                 *)
(***************************************************************************)
Bumped(a, pos, size, align) ==
  LET start == arenas[a].first * PageSize
  IN  RoundToAligned(start + pos, align) - start + size

BlockAt(a, pos, size) == [node |-> a, off |-> pos, size |-> size]

\* The client writes what it is given.
CarenaAlloc(a, size, align) ==
  LET pos == Bumped(a, arenas[a].pos, size, align)
      b   == BlockAt(a, arenas[a].pos, size)
  IN  /\ Intact(a)
      /\ Len(live[a]) < MaxBlocks
      /\ InBounds(a, pos)
      /\ arenas' = [arenas EXCEPT ![a].pos = pos]
      /\ live' = [live EXCEPT ![a] = Append(@, b)]
      /\ resident' = resident \cup BlockPages(b)
      /\ UNCHANGED << mapped, leaked >>

\* gp_mem_dealloc: gp_internal_carena_dealloc does nothing.
MemDealloc(a, i) ==
  /\ Intact(a)
  /\ live' = [live EXCEPT ![a] = RemoveAt(@, i)]
  /\ UNCHANGED << arenas, mapped, resident, leaked >>

(***************************************************************************)
(* gp_mem_realloc_aligned. A block that ends where the position is, is     *)
(* cut off once more; any other is copied to a new block.                  *)
(***************************************************************************)
EndsAtPosition_Before(b) == b.off + b.size <= arenas[b.node].pos

EndsAtPosition(b) == b.off + b.size = arenas[b.node].pos

MemRealloc(a, i, size, align) ==
  LET old  == live[a][i]
      last == EndsAtPosition(old)
      from == IF last THEN old.off ELSE arenas[a].pos
      pos  == Bumped(a, from, size, IF last THEN AllocAlignment ELSE align)
      b    == BlockAt(a, from, size)
  IN  /\ Intact(a)
      /\ size > old.size
      /\ InBounds(a, pos)
      /\ arenas' = [arenas EXCEPT ![a].pos = pos]
      /\ live' = [live EXCEPT ![a] = Append(RemoveAt(@, i), b)]
      /\ resident' = resident \cup BlockPages(b)
      /\ UNCHANGED << mapped, leaked >>

\* gp_carena_rewind to the i-th block held, which it asserts to be inside the capacity.
CarenaRewind(a, i) ==
  /\ Intact(a)
  /\ arenas' = [arenas EXCEPT ![a].pos = live[a][i].off]
  /\ live' = [live EXCEPT ![a] = SubSeq(@, 1, i - 1)]
  /\ UNCHANGED << mapped, resident, leaked >>

(***************************************************************************)
(* gp_carena_reset writes the position to the first page of an arena and   *)
(* discards, with madvise(), as many pages as the capacity comes to after  *)
(* it. That is one more than the arena has. The system discards those of   *)
(* them that are mapped, whoever mapped them.                              *)
(***************************************************************************)
DiscardedPages_PageShort(a) ==
  IF arenas[a].cap < PageSize
  THEN {}
  ELSE PagesFrom(a, PageSize, RoundToAligned(arenas[a].cap, PageSize) - 2 * PageSize)

DiscardedPages(a) ==
  IF arenas[a].cap < PageSize
  THEN {}
  ELSE PagesFrom(a, PageSize, RoundToAligned(arenas[a].cap, PageSize))

CarenaReset(a) ==
  /\ arenas' = [n \in Exists |->
                  IF n = a THEN [arenas[a] EXCEPT !.pos = MetaSize]
                  ELSE IF arenas[n].first \in DiscardedPages(a) THEN Zeroed(arenas[n])
                  ELSE arenas[n]]
  /\ live' = [live EXCEPT ![a] = << >>]
  /\ resident' = (resident \cup {arenas[a].first}) \ DiscardedPages(a)
  /\ UNCHANGED << mapped, leaked >>

(***************************************************************************)
(* gp_carena_delete, which computes the size of the mapping from the       *)
(* capacity. munmap() refuses a size of 0, and the mapping stays.          *)
(***************************************************************************)
UnmappedPages_RoundedDown(a) ==
  {p \in Pages : arenas[a].first <= p /\ p < arenas[a].first + arenas[a].cap \div PageSize}

UnmappedPages(a) == PagesFrom(a, 0, RoundToAligned(arenas[a].cap, PageSize))

CarenaDelete(a) ==
  /\ arenas' = [n \in Exists \ {a} |-> arenas[n]]
  /\ live' = [live EXCEPT ![a] = << >>]
  /\ mapped' = mapped \ UnmappedPages(a)
  /\ resident' = resident \ UnmappedPages(a)
  /\ leaked' = IF Intact(a) THEN leaked ELSE leaked \cup PagesOf(a)

Next ==
  \/ \E a \in Arenas, size \in Capacities, first \in Pages : CarenaNew(a, size, first)
  \/ \E a \in Exists, size \in Sizes, align \in Alignments : CarenaAlloc(a, size, align)
  \/ \E a \in Exists : \E i \in DOMAIN live[a] : MemDealloc(a, i)
  \/ \E a \in Exists : \E i \in DOMAIN live[a], size \in Sizes, align \in Alignments :
       MemRealloc(a, i, size, align)
  \/ \E a \in Exists : \E i \in DOMAIN live[a] : CarenaRewind(a, i)
  \/ \E a \in Exists : CarenaReset(a)
  \/ \E a \in Exists : CarenaDelete(a)

Spec == Init /\ [][Next]_vars

------------------------------------------------------------------------------

(***************************************************************************)
(* Each arena has its pages to itself: what gp_carena_delete unmaps is     *)
(* what gp_carena_new mapped, though only the capacity is remembered, and  *)
(* what stays mapped for nobody are the pages of arenas that had lost      *)
(* their structure. Blocks lie in their arena, after its structure, and an *)
(* arena that has its structure has all that was written to its blocks:    *)
(* no reset or delete took it.                                             *)
(***************************************************************************)
MappedIsOwned ==
  /\ mapped = leaked \cup UNION {PagesOf(a) : a \in Exists}
  /\ \A a \in Exists : PagesOf(a) \cap leaked = {}
  /\ \A a, b \in Exists : a # b => PagesOf(a) \cap PagesOf(b) = {}
  /\ \A a \in Exists : \A i \in DOMAIN live[a] :
       MetaSize <= live[a][i].off /\ BlockPages(live[a][i]) \subseteq PagesOf(a)
  /\ \A a \in Exists : Intact(a) =>
       /\ arenas[a].first \in resident
       /\ \A i \in DOMAIN live[a] : BlockPages(live[a][i]) \subseteq resident

\* Arena b was mapped right behind the pages of arena a.
RightBehind(b, a) == arenas[b].first = arenas[a].first + arenas[a].count

(***************************************************************************)
(* "Deallocate all memory excluding the arena itself", "Physical memory    *)
(* will be deallocated, but virtual address space remains untouched"       *)
(* (include/gpc/memory.h:374): a reset of an arena that has its structure  *)
(* leaves it its first page. Of the others only one that is mapped right   *)
(* behind it loses anything, and that is no more than its first page. So   *)
(* much it does lose, structure and all, if the arena has two pages: the   *)
(* comment does not say so.                                                *)
(***************************************************************************)
ResetFreesPhysical ==
  [][ \A a \in Exists :
        CarenaReset(a) /\ Intact(a) =>
          /\ resident' \cap PagesOf(a) = {arenas[a].first}
          /\ \A b \in Exists \ {a} :
               IF RightBehind(b, a)
               THEN (resident \cap PagesOf(b)) \ {arenas[b].first} \subseteq resident'
               ELSE /\ arenas'[b] = arenas[b]
                    /\ resident' \cap PagesOf(b) = resident \cap PagesOf(b) ]_vars

\* What clients hold of an arena: with its structure all it gave out is lost to them.
Held(a) == IF a \in Exists /\ Intact(a) THEN live[a] ELSE << >>

(***************************************************************************)
(* A contiguous arena, whichever is observed, is an allocator for as long  *)
(* as it has its structure, and only a reset of the arena that it is       *)
(* mapped right behind takes that from it. What it then loses at once      *)
(* counts as given up, though no client did so.                            *)
(***************************************************************************)
Allocator == INSTANCE AbstractAllocator WITH held <- Held(Observed)

LosesStructure(b) ==
  b \in Exists /\ Intact(b) /\ b \in Exists' /\ ~ Intact(b)'

ImplementsAllocator ==
  /\ Allocator!Spec
  /\ [][ LosesStructure(Observed) =>
           \E a \in Exists : CarenaReset(a) /\ Intact(a) /\ RightBehind(Observed, a) ]_vars

==============================================================================
