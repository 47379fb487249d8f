------------------------------ MODULE MemoryProofs ------------------------------
(***************************************************************************)
(* Proofs about the memory of src/src/memory.c that has an end: the        *)
(* contiguous arenas of module ContiguousArena and the scopes of module    *)
(* Scope.                                                                  *)
(*                                                                         *)
(* The arenas, for any size of a page and of an arena's structure, any     *)
(* number of arenas and blocks, and whatever sizes and alignments clients  *)
(* ask for. An intact arena's structure, its capacity and its pages fit:   *)
(* the pages hold the two to the byte, which is what makes the size that   *)
(* is computed from the capacity alone the size that was mapped. Its       *)
(* blocks are placed: in the order of their allocation, after the          *)
(* structure and below the position. A block that ends at the position is  *)
(* therefore the last one, and its memory may be used again. Operations    *)
(* change one arena's position and blocks (MovedSound), or all it has. The *)
(* exception is a reset, which discards a page too many: it takes the      *)
(* structure of an arena that is mapped right behind (OnlyNeighbourTakes), *)
(* and the arena that was reset is the only one it can take.               *)
(*                                                                         *)
(* The scopes, for any deferred functions and depth of calls, whether or   *)
(* not clients skip the ends of inner scopes. The hypothesis               *)
(* EndsAreCalled is the one the runs have: clients call gp_end themselves, *)
(* and defer it only on scopes that they leave to the thread destructor.   *)
(* The argument goes by the depth of the stack. A call works on scopes of  *)
(* the function that called it, which are the newest of that depth as long *)
(* as it is in progress: deferred functions end what they begin, and ends  *)
(* change the list only from the newest scope on. So the steps of a call   *)
(* disturb nothing that the calls under it hold, and what they free is     *)
(* always the scope whose functions have all been run. The list itself     *)
(* runs through scopes that a call has freed: ListInv says where, between  *)
(* the newest scope of a deferred function's caller, as it was when the    *)
(* call began, and the one the call is at.                                 *)
(***************************************************************************)
EXTENDS ContiguousArena, Scope, CommonLemmas

(***************************************************************************)
(* Contiguous arenas                                                       *)
(***************************************************************************)
(* An offset before the end of n pages is on one of them.                  *)
LEMMA PageOfOffset ==
  ASSUME NEW off \in Nat, NEW n \in Nat, off < PageSize * n
  PROVE  off \div PageSize \in 0 .. n - 1
  <1> DEFINE q == off \div PageSize
  <1>1. /\ PageSize \in Nat \ {0}
        /\ q \in Int
        /\ off = PageSize * q + (off % PageSize)
        /\ off % PageSize \in 0 .. PageSize - 1
    BY ContiguousArenaAssumption
  <1> HIDE DEF q
  <1>2. ASSUME n <= q PROVE FALSE
    BY <1>1, <1>2, ProductOrder
  <1>3. ASSUME q <= -1 PROVE FALSE
    <2>1. PageSize * q <= PageSize * (-1)
      BY <1>1, <1>3, ProductOrder
    <2> QED
      BY <1>1, <2>1
  <1>4. q \in 0 .. n - 1
    BY <1>1, <1>2, <1>3
  <1> QED
    BY <1>4 DEF q

(* The first offset of a page is on it, and so is its last.                *)
LEMMA PageOfMultiple ==
  ASSUME NEW n \in Nat
  PROVE  /\ (PageSize * n) \div PageSize = n
         /\ n > 0 => (PageSize * n - 1) \div PageSize = n - 1
  <1>1. PageSize \in Nat \ {0}
    BY ContiguousArenaAssumption
  <1>2. PageSize * (n + 1) = PageSize * n + PageSize /\ PageSize * (n - 1) = PageSize * n - PageSize
    BY <1>1
  <1>3. (PageSize * n) \div PageSize = n
    BY <1>1
  <1>4. ASSUME n > 0 PROVE (PageSize * n - 1) \div PageSize = n - 1
    <2> DEFINE m == PageSize * n - 1
               q == m \div PageSize
    <2>1. /\ m \in Nat /\ q \in Int
          /\ m = PageSize * q + (m % PageSize)
          /\ m % PageSize \in 0 .. PageSize - 1
      <3>1. PageSize * 1 <= PageSize * n
        BY <1>1, <1>4, ProductOrder
      <3>2. m \in Nat
        BY <1>1, <3>1
      <3> HIDE DEF m
      <3> QED
        BY <1>1, <3>2
    <2>2. m < PageSize * n
      BY <1>1
    <2>3. q \in 0 .. n - 1
      BY <2>1, <2>2, PageOfOffset
    <2>4. m = PageSize * (n - 1) + (PageSize - 1)
      BY <1>1, <1>2
    <2> HIDE DEF m, q
    <2>5. ASSUME q < n - 1 PROVE FALSE
      <3>1. PageSize * (q + 1) <= PageSize * (n - 1)
        BY <1>1, <2>1, <2>5, ProductOrder
      <3>2. PageSize * (q + 1) = PageSize * q + PageSize
        BY <1>1, <2>1
      <3>3. /\ PageSize * (q + 1) \in Int /\ PageSize * q \in Int
            /\ PageSize * (n - 1) \in Int /\ m % PageSize \in Int
        BY <1>1, <2>1
      <3> QED
        BY <1>1, <2>1, <2>4, <3>1, <3>2, <3>3
    <2> QED
      BY <2>3, <2>5 DEF q, m
  <1> QED
    BY <1>3, <1>4

(* The pages of a mapping hold what was asked for, rounded up.             *)
LEMMA PagesForSize ==
  ASSUME NEW size \in Nat \ {0}
  PROVE  /\ PagesFor(size) \in Nat \ {0}
         /\ RoundToAligned(size, PageSize) = PageSize * PagesFor(size)
         /\ PageSize * PagesFor(size) >= PageSize
  <1> DEFINE q == (size - 1) \div PageSize + 1
  <1>1. PageSize \in Nat \ {0}
    BY ContiguousArenaAssumption
  <1>2. /\ RoundToAligned(size, PageSize) = PageSize * q
        /\ RoundToAligned(size, PageSize) \in size .. size + PageSize - 1
        /\ q \in Int
    BY <1>1, RoundingQuotient
  <1> HIDE DEF q
  <1>3. ASSUME q <= 0 PROVE FALSE
    <2>1. PageSize * q <= PageSize * 0
      BY <1>1, <1>2, <1>3, ProductOrder
    <2> QED
      BY <1>1, <1>2, <2>1
  <1>4. q \in Nat \ {0}
    BY <1>2, <1>3
  <1>5. PagesFor(size) = q
    BY <1>2, <1>4, PageOfMultiple DEF PagesFor
  <1>6. PageSize * 1 <= PageSize * q
    BY <1>1, <1>4, ProductOrder
  <1> QED
    BY <1>1, <1>2, <1>4, <1>5, <1>6

------------------------------------------------------------------------------

(* An arena's structure and capacity fill its pages, and its position is   *)
(* in them.                                                                *)
RecordSound(r) ==
  /\ r \in ArenaRecord
  /\ MetaSize + r.cap = PageSize * r.count
  /\ r.pos \in MetaSize .. MetaSize + r.cap

(* The blocks bs of arena a are in order, after its structure and below pos. *)
PlacedIn(a, pos, bs) ==
  /\ bs \in Seq(Block)
  /\ \A i \in DOMAIN bs :
       /\ bs[i].node = a
       /\ MetaSize <= bs[i].off
       /\ bs[i].off + bs[i].size <= pos
  /\ \A i, j \in DOMAIN bs : i < j => bs[i].off + bs[i].size <= bs[j].off

(* What gp_carena_delete computes from the capacity is what was mapped.    *)
LEMMA RoundedCapacity ==
  ASSUME NEW r, RecordSound(r)
  PROVE  RoundToAligned(r.cap, PageSize) = PageSize * r.count
  <1>1. /\ PageSize \in Nat \ {0} /\ MetaSize \in 1 .. PageSize - 1
        /\ r.cap \in Nat /\ r.count \in Nat \ {0}
        /\ MetaSize + r.cap = PageSize * r.count
    BY ContiguousArenaAssumption DEF RecordSound, ArenaRecord
  <1> DEFINE cap == r.cap
             n == r.count
             q == (cap - 1) \div PageSize + 1
  <1>3. /\ cap \in Int /\ n \in Nat /\ PageSize * n \in Nat
        /\ PageSize * n \in cap + 1 .. cap + PageSize - 1
    BY <1>1
  <1> HIDE DEF cap, n
  <1>2. /\ RoundToAligned(cap, PageSize) = PageSize * q
        /\ RoundToAligned(cap, PageSize) \in cap .. cap + PageSize - 1
        /\ q \in Int
    <2>1. cap \in Int /\ PageSize \in Nat \ {0}
      BY <1>1, <1>3
    <2> QED
      BY <2>1, RoundingQuotient
  <1> HIDE DEF q
  <1>4. ASSUME q < n PROVE FALSE
    <2>1. PageSize * (q + 1) <= PageSize * n
      BY <1>1, <1>2, <1>3, <1>4, ProductOrder
    <2>2. PageSize * (q + 1) = PageSize * q + PageSize /\ PageSize * q \in Int
      BY <1>1, <1>2
    <2> QED
      BY <1>1, <1>2, <1>3, <2>1, <2>2
  <1>5. ASSUME q > n PROVE FALSE
    <2>1. PageSize * (n + 1) <= PageSize * q
      BY <1>1, <1>2, <1>3, <1>5, ProductOrder
    <2>2. PageSize * (n + 1) = PageSize * n + PageSize /\ PageSize * q \in Int
      BY <1>1, <1>2, <1>3
    <2> QED
      BY <1>1, <1>2, <1>3, <2>1, <2>2
  <1>6. q = n
    BY <1>2, <1>3, <1>4, <1>5
  <1> QED
    BY <1>2, <1>6 DEF n, cap

(* gp_carena_delete unmaps the pages of its arena.                         *)
LEMMA UnmapsItsPages ==
  ASSUME NEW a \in Exists, RecordSound(arenas[a])
  PROVE  UnmappedPages(a) = PagesOf(a)
  <1> DEFINE n == arenas[a].count
             f == arenas[a].first
  <1>1. n \in Nat \ {0} /\ f \in Nat /\ PageSize \in Nat \ {0}
    BY ContiguousArenaAssumption DEF RecordSound, ArenaRecord, Pages
  <1>2. RoundToAligned(arenas[a].cap, PageSize) = PageSize * n
    BY RoundedCapacity
  <1> HIDE DEF n, f
  <1>3. (PageSize * n - 1) \div PageSize = n - 1 /\ 0 \div PageSize = 0
    <2>1. n \in Nat /\ n > 0
      BY <1>1
    <2>2. (PageSize * n - 1) \div PageSize = n - 1
      BY <2>1, PageOfMultiple
    <2>3. (PageSize * 0) \div PageSize = 0 /\ PageSize * 0 = 0
      BY <1>1, PageOfMultiple
    <2> QED
      BY <2>2, <2>3
  <1>4. PageSize * n \in Int
    BY <1>1
  <1>5. UnmappedPages(a) = f + 0 \div PageSize .. f + (0 + PageSize * n - 1) \div PageSize
    BY <1>2 DEF UnmappedPages, PagesFrom, f
  <1>6. 0 + PageSize * n - 1 = PageSize * n - 1
    BY <1>4
  <1>7. UnmappedPages(a) = f .. f + (n - 1)
    BY <1>1, <1>3, <1>5, <1>6
  <1> QED
    BY <1>1, <1>7 DEF PagesOf, f, n

(* A range of memory below the end of an arena's pages lies on them.       *)
LEMMA BlockOnPages ==
  ASSUME NEW a \in Exists, arenas[a] \in ArenaRecord,
         NEW off \in Nat, NEW size \in Nat \ {0},
         off + size <= PageSize * arenas[a].count
  PROVE  PagesFrom(a, off, size) \subseteq PagesOf(a)
  <1> DEFINE n == arenas[a].count
             f == arenas[a].first
             final == off + size - 1
  <1>1. n \in Nat \ {0} /\ f \in Nat /\ off + size <= PageSize * n
    BY DEF ArenaRecord, Pages
  <1>2. final \in Nat /\ final < PageSize * n /\ off < PageSize * n
    <2>1. PageSize * n \in Int
      BY <1>1, ContiguousArenaAssumption
    <2> HIDE DEF n
    <2> QED
      BY <1>1, <2>1
  <1> HIDE DEF n, f, final
  <1>3. off \div PageSize \in 0 .. n - 1 /\ final \div PageSize \in 0 .. n - 1
    BY <1>1, <1>2, PageOfOffset
  <1>4. f + off \div PageSize .. f + final \div PageSize \subseteq f .. f + n - 1
    BY <1>1, <1>3
  <1> QED
    BY <1>4 DEF PagesFrom, PagesOf, f, n, final

(* The position after a block is past the block, whatever is aligned.      *)
LEMMA BumpedPast ==
  ASSUME NEW a \in Exists, RecordSound(arenas[a]),
         NEW pos \in Nat, NEW size \in Nat, NEW align \in Nat \ {0}
  PROVE  Bumped(a, pos, size, align) \in Nat /\ pos + size <= Bumped(a, pos, size, align)
  <1> DEFINE start == arenas[a].first * PageSize
  <1>1. start \in Nat
    BY ContiguousArenaAssumption DEF RecordSound, ArenaRecord, Pages
  <1> HIDE DEF start
  <1>2. RoundToAligned(start + pos, align) \in start + pos .. start + pos + align - 1
    BY <1>1, Rounding
  <1> QED
    BY <1>1, <1>2 DEF Bumped, start

------------------------------------------------------------------------------

(* A block has a positive size, so it ends after it starts.                *)
LEMMA BlockEnds ==
  ASSUME NEW b \in Block
  PROVE  /\ b.off \in Nat /\ b.size \in Nat /\ b.off + b.size \in Nat
         /\ b.off < b.off + b.size
  BY DEF Block

(* A block cut off at or after a position below which all others end is    *)
(* placed with them, below the position it is moved to.                    *)
LEMMA AppendPlaced ==
  ASSUME NEW a \in Arenas, NEW bs, NEW from \in Nat, NEW pos \in Nat,
         NEW size \in Nat \ {0},
         PlacedIn(a, from, bs), MetaSize <= from, from + size <= pos
  PROVE  /\ PlacedIn(a, pos, Append(bs, BlockAt(a, from, size)))
         /\ BlockAt(a, from, size) \in Block
  <1> DEFINE b == BlockAt(a, from, size)
             cs == Append(bs, b)
  <1>1. /\ b \in Block /\ b.node = a /\ b.off = from /\ b.size = size
        /\ MetaSize \in Nat /\ bs \in Seq(Block)
    BY ContiguousArenaAssumption DEF BlockAt, Block, PlacedIn
  <1> HIDE DEF b
  <1>2. /\ cs \in Seq(Block) /\ Len(cs) = Len(bs) + 1 /\ cs[Len(bs) + 1] = b
        /\ \A i \in 1 .. Len(bs) : cs[i] = bs[i]
    BY <1>1, AppendProperties
  <1>3. /\ DOMAIN bs = 1 .. Len(bs) /\ Len(bs) \in Nat /\ DOMAIN cs = 1 .. Len(bs) + 1
    BY <1>1, <1>2
  <1> HIDE DEF cs
  <1>4. ASSUME NEW i \in DOMAIN cs
        PROVE  cs[i].node = a /\ MetaSize <= cs[i].off /\ cs[i].off + cs[i].size <= pos
    <2>1. CASE i = Len(bs) + 1
      BY <1>1, <1>2, <2>1
    <2>2. CASE i \in 1 .. Len(bs)
      <3>1. bs[i] \in Block /\ cs[i] = bs[i]
        BY <1>1, <1>2, <2>2
      <3>2. bs[i].node = a /\ MetaSize <= bs[i].off /\ bs[i].off + bs[i].size <= from
        BY <1>3, <2>2 DEF PlacedIn
      <3> QED
        BY <1>1, <3>1, <3>2, BlockEnds
    <2> QED
      BY <1>3, <2>1, <2>2
  <1>5. ASSUME NEW i \in DOMAIN cs, NEW j \in DOMAIN cs, i < j
        PROVE  cs[i].off + cs[i].size <= cs[j].off
    <2>1. i \in 1 .. Len(bs) /\ cs[i] = bs[i]
      BY <1>2, <1>3, <1>5
    <2>2. CASE j = Len(bs) + 1
      BY <1>1, <1>2, <1>3, <2>1, <2>2 DEF PlacedIn
    <2>3. CASE j \in 1 .. Len(bs)
      BY <1>2, <1>3, <1>5, <2>1, <2>3 DEF PlacedIn
    <2> QED
      BY <1>3, <2>2, <2>3
  <1> QED
    BY <1>1, <1>2, <1>4, <1>5 DEF PlacedIn, cs, b

(* Blocks stay placed when one of them is taken out, and below where it    *)
(* began if it ended at the position: it was the last.                     *)
LEMMA RemovePlaced ==
  ASSUME NEW a \in Arenas, NEW bs, NEW pos \in Nat, PlacedIn(a, pos, bs), NEW i \in DOMAIN bs
  PROVE  /\ PlacedIn(a, pos, RemoveAt(bs, i))
         /\ bs[i].off + bs[i].size = pos => PlacedIn(a, bs[i].off, RemoveAt(bs, i))
  <1> DEFINE cs == RemoveAt(bs, i)
             old(j) == IF j < i THEN j ELSE j + 1
  <1>1. /\ bs \in Seq(Block) /\ i \in 1 .. Len(bs) /\ Len(bs) \in Nat
        /\ DOMAIN bs = 1 .. Len(bs)
    BY DEF PlacedIn
  <1>2. /\ cs \in Seq(Block) /\ Len(cs) = Len(bs) - 1
        /\ \A j \in 1 .. Len(bs) - 1 : cs[j] = IF j < i THEN bs[j] ELSE bs[j + 1]
    BY <1>1, RemoveAtElements
  <1> HIDE DEF cs
  <1>3. DOMAIN cs = 1 .. Len(bs) - 1
    BY <1>1, <1>2
  <1>4. ASSUME NEW j \in DOMAIN cs
        PROVE  old(j) \in DOMAIN bs /\ old(j) # i /\ cs[j] = bs[old(j)]
    BY <1>1, <1>2, <1>3
  <1>5. ASSUME NEW j \in DOMAIN cs, NEW k \in DOMAIN cs, j < k
        PROVE  old(j) < old(k)
    BY <1>1, <1>3, <1>5
  <1> HIDE DEF old
  <1>6. PlacedIn(a, pos, cs)
    <2>1. ASSUME NEW j \in DOMAIN cs
          PROVE  cs[j].node = a /\ MetaSize <= cs[j].off /\ cs[j].off + cs[j].size <= pos
      BY <1>4 DEF PlacedIn
    <2>2. ASSUME NEW j \in DOMAIN cs, NEW k \in DOMAIN cs, j < k
          PROVE  cs[j].off + cs[j].size <= cs[k].off
      BY <1>4, <1>5, <2>2 DEF PlacedIn
    <2> QED
      BY <1>2, <2>1, <2>2 DEF PlacedIn
  <1>7. ASSUME bs[i].off + bs[i].size = pos, NEW j \in DOMAIN cs
        PROVE  cs[j].off + cs[j].size <= bs[i].off
    <2>1. cs[j] = bs[old(j)] /\ old(j) \in DOMAIN bs /\ old(j) # i
      BY <1>4
    <2>2. old(j) \in 1 .. Len(bs) /\ bs[old(j)] \in Block /\ bs[i] \in Block
      BY <1>1, <2>1
    <2>3. CASE old(j) < i
      BY <1>1, <2>1, <2>3 DEF PlacedIn
    <2>4. CASE old(j) > i
      <3>1. /\ bs[i].off + bs[i].size <= bs[old(j)].off
            /\ bs[old(j)].off + bs[old(j)].size <= pos
        BY <1>1, <2>1, <2>2, <2>4 DEF PlacedIn
      <3> QED
        BY <1>7, <2>2, <3>1, BlockEnds
    <2> QED
      BY <1>1, <2>1, <2>2, <2>3, <2>4
  <1>8. bs[i].off + bs[i].size = pos => PlacedIn(a, bs[i].off, cs)
    BY <1>6, <1>7 DEF PlacedIn
  <1> QED
    BY <1>6, <1>8 DEF cs

(* The blocks before one are placed below where it begins.                 *)
LEMMA PrefixPlaced ==
  ASSUME NEW a \in Arenas, NEW bs, NEW pos \in Nat, PlacedIn(a, pos, bs), NEW i \in DOMAIN bs
  PROVE  PlacedIn(a, bs[i].off, SubSeq(bs, 1, i - 1))
  <1> DEFINE cs == SubSeq(bs, 1, i - 1)
  <1>1. /\ bs \in Seq(Block) /\ i \in 1 .. Len(bs) /\ Len(bs) \in Nat
        /\ DOMAIN bs = 1 .. Len(bs)
    BY DEF PlacedIn
  <1>2. /\ cs \in Seq(Block) /\ Len(cs) = i - 1 /\ \A j \in 1 .. i - 1 : cs[j] = bs[j]
    BY <1>1
  <1> HIDE DEF cs
  <1>3. DOMAIN cs = 1 .. i - 1
    BY <1>1, <1>2
  <1>4. ASSUME NEW j \in DOMAIN cs
        PROVE  /\ cs[j].node = a /\ MetaSize <= cs[j].off
               /\ cs[j].off + cs[j].size <= bs[i].off
    <2>1. j \in DOMAIN bs /\ j < i /\ cs[j] = bs[j]
      BY <1>1, <1>2, <1>3
    <2> QED
      BY <2>1 DEF PlacedIn
  <1>5. ASSUME NEW j \in DOMAIN cs, NEW k \in DOMAIN cs, j < k
        PROVE  cs[j].off + cs[j].size <= cs[k].off
    <2>1. j \in DOMAIN bs /\ k \in DOMAIN bs /\ cs[j] = bs[j] /\ cs[k] = bs[k]
      BY <1>1, <1>2, <1>3
    <2> QED
      BY <1>5, <2>1 DEF PlacedIn
  <1> QED
    BY <1>2, <1>4, <1>5 DEF PlacedIn, cs

------------------------------------------------------------------------------

(* The inductive invariant. MappedIsOwned alone is not inductive: what is  *)
(* unmapped is right because the capacity remembers the pages, and where   *)
(* the next block goes because the others lie below the position. Of an    *)
(* arena that lost its structure neither is known any more: only that its  *)
(* blocks are where they were, on its pages.                               *)
ArenasSound ==
  /\ DOMAIN arenas \subseteq Arenas
  /\ \A a \in Exists : arenas[a] \in ArenaRecord /\ (Intact(a) => RecordSound(arenas[a]))

\* What the blocks of arena a lie below.
Limit(a) == IF Intact(a) THEN arenas[a].pos ELSE PageSize * arenas[a].count

BlocksPlaced ==
  /\ live \in [Arenas -> Seq(Block)]
  /\ \A a \in Arenas \ Exists : live[a] = << >>
  /\ \A a \in Exists : PlacedIn(a, Limit(a), live[a])

PagesOwned ==
  /\ mapped = leaked \cup UNION {PagesOf(a) : a \in Exists}
  /\ \A a \in Exists : PagesOf(a) \cap leaked = {}
  /\ \A a, b \in Exists : a # b => PagesOf(a) \cap PagesOf(b) = {}

\* The structure and all the blocks bs of arena a are still written somewhere.
Kept(a, bs) ==
  /\ arenas[a].first \in resident
  /\ \A i \in DOMAIN bs : BlockPages(bs[i]) \subseteq resident

ContentsKept == \A a \in Exists : Intact(a) => Kept(a, live[a])

CarenaInv == ArenasSound /\ BlocksPlaced /\ PagesOwned /\ ContentsKept

(* No blocks at all are placed anywhere.                                   *)
LEMMA EmptyPlaced == \A a, pos : PlacedIn(a, pos, << >>)
  BY DEF PlacedIn

(* Blocks placed below a position are placed below a higher one.           *)
LEMMA PlacedHigher ==
  ASSUME NEW a, NEW bs, NEW pos \in Nat, NEW higher \in Nat, PlacedIn(a, pos, bs), pos <= higher
  PROVE  PlacedIn(a, higher, bs)
  <1>1. ASSUME NEW i \in DOMAIN bs PROVE bs[i].off + bs[i].size <= higher
    <2>1. bs[i] \in Block /\ bs[i].off + bs[i].size <= pos
      BY DEF PlacedIn
    <2> QED
      BY <2>1, BlockEnds
  <1> QED
    BY <1>1 DEF PlacedIn

(* The blocks of an arena lie below the end of its pages, and so does the  *)
(* position of one that has its structure.                                 *)
LEMMA LimitInPages ==
  ASSUME ArenasSound, NEW a \in Exists
  PROVE  /\ Limit(a) \in Nat /\ PageSize * arenas[a].count \in Nat
         /\ Limit(a) <= PageSize * arenas[a].count
  <1> DEFINE r == arenas[a]
             n == r.count
  <1>1. r \in ArenaRecord /\ (Intact(a) => RecordSound(r))
    BY DEF ArenasSound
  <1>2. PageSize \in Nat /\ MetaSize \in Nat /\ n \in Nat /\ PageSize * n \in Nat
    BY <1>1, ContiguousArenaAssumption DEF ArenaRecord
  <1>3. CASE Intact(a)
    <2>1. MetaSize + r.cap = PageSize * n /\ r.pos \in MetaSize .. MetaSize + r.cap /\ r.cap \in Nat
      BY <1>1, <1>3 DEF RecordSound, ArenaRecord
    <2>2. Limit(a) = r.pos
      BY <1>3 DEF Limit
    <2> HIDE DEF n, r
    <2> QED
      BY <1>2, <2>1, <2>2 DEF n, r
  <1>4. CASE ~ Intact(a)
    BY <1>2, <1>4 DEF Limit
  <1> QED
    BY <1>3, <1>4

(* The blocks of an arena lie on its pages, whether it has its structure   *)
(* or not.                                                                 *)
LEMMA BlocksOnPages ==
  ASSUME CarenaInv, NEW a \in Exists, NEW i \in DOMAIN live[a]
  PROVE  /\ MetaSize <= live[a][i].off
         /\ BlockPages(live[a][i]) \subseteq PagesOf(a)
  <1> DEFINE b == live[a][i]
  <1>1. arenas[a] \in ArenaRecord /\ PlacedIn(a, Limit(a), live[a]) /\ ArenasSound
    BY DEF CarenaInv, ArenasSound, BlocksPlaced
  <1>2. /\ b \in Block /\ b.node = a /\ MetaSize <= b.off
        /\ b.off + b.size <= Limit(a)
    BY <1>1 DEF PlacedIn
  <1> HIDE DEF b
  <1>3. b.off \in Nat /\ b.size \in Nat \ {0}
    BY <1>2 DEF Block
  <1>4. b.off + b.size <= PageSize * arenas[a].count
    BY <1>1, <1>2, <1>3, LimitInPages
  <1>5. PagesFrom(a, b.off, b.size) \subseteq PagesOf(a)
    BY <1>1, <1>3, <1>4, BlockOnPages
  <1> QED
    BY <1>2, <1>5 DEF BlockPages, b

(* There are no arenas to begin with.                                      *)
LEMMA InitSound == Init => CarenaInv
  <1> SUFFICES ASSUME Init PROVE CarenaInv
    OBVIOUS
  <1>1. Exists = {} /\ mapped = {} /\ leaked = {} /\ live = [a \in Arenas |-> << >>]
    BY DEF Init, Exists
  <1>2. << >> \in Seq(Block)
    OBVIOUS
  <1> QED
    BY <1>1, <1>2 DEF CarenaInv, ArenasSound, BlocksPlaced, PagesOwned, ContentsKept, Exists

(* A step that moves the position of one arena, inside its memory, and     *)
(* leaves it blocks below that, all written somewhere, keeps the           *)
(* invariant, if it discards nothing.                                      *)
LEMMA MovedSound ==
  ASSUME CarenaInv, NEW a \in Exists, Intact(a), NEW pos, NEW bs,
         pos \in MetaSize .. MetaSize + arenas[a].cap, PlacedIn(a, pos, bs),
         arenas' = [arenas EXCEPT ![a].pos = pos], live' = [live EXCEPT ![a] = bs],
         resident \subseteq resident',
         \A i \in DOMAIN bs : BlockPages(bs[i]) \subseteq resident',
         UNCHANGED << mapped, leaked >>
  PROVE  CarenaInv'
  <1>1. DOMAIN arenas' = DOMAIN arenas /\ Exists' = Exists /\ a \in Arenas
    BY DEF Exists, CarenaInv, ArenasSound
  <1>2. ASSUME NEW b \in Exists
        PROVE  /\ arenas'[b] \in ArenaRecord
               /\ Intact(b)' <=> Intact(b)
               /\ Intact(b) => RecordSound(arenas'[b])
               /\ arenas'[b].first = arenas[b].first /\ arenas'[b].count = arenas[b].count
               /\ Limit(b)' = IF b = a THEN pos ELSE Limit(b)
    <2> DEFINE r == arenas[b]
               s == [r EXCEPT !.pos = pos]
    <2>1. r \in ArenaRecord /\ (Intact(b) => RecordSound(r))
      BY DEF CarenaInv, ArenasSound
    <2>2. arenas'[b] = IF b = a THEN s ELSE r
      BY DEF Exists
    <2>3. CASE b = a
      <3>1. pos \in Nat /\ pos \in MetaSize .. MetaSize + r.cap /\ RecordSound(r)
        BY <2>1, <2>3, ContiguousArenaAssumption DEF ArenaRecord
      <3>2. Intact(b) <=> r.cap # 0
        BY DEF Intact
      <3> HIDE DEF r
      <3>3. /\ s \in ArenaRecord /\ s.first = r.first /\ s.count = r.count
            /\ s.cap = r.cap /\ s.pos = pos
        BY <2>1, <3>1 DEF RecordSound, ArenaRecord
      <3>4. arenas'[b] = s
        BY <2>2, <2>3
      <3> HIDE DEF s
      <3>5. RecordSound(s)
        BY <2>1, <3>1, <3>3 DEF RecordSound
      <3>6. (Intact(b)' <=> Intact(b)) /\ Limit(b)' = pos
        BY <2>3, <3>2, <3>3, <3>4 DEF Intact, Limit
      <3> QED
        BY <2>3, <3>3, <3>4, <3>5, <3>6 DEF r
    <2>4. CASE b # a
      BY <2>1, <2>2, <2>4 DEF Intact, Limit
    <2> QED
      BY <2>3, <2>4
  <1>3. ArenasSound'
    BY <1>1, <1>2 DEF CarenaInv, ArenasSound
  <1>4. live \in [Arenas -> Seq(Block)] /\ bs \in Seq(Block)
    BY DEF CarenaInv, BlocksPlaced, PlacedIn
  <1>5. /\ live' \in [Arenas -> Seq(Block)]
        /\ \A b \in Arenas : live'[b] = IF b = a THEN bs ELSE live[b]
    BY <1>1, <1>4
  <1>6. BlocksPlaced'
    <2>1. ASSUME NEW b \in Exists PROVE PlacedIn(b, Limit(b)', live'[b])
      <3>1. b \in Arenas /\ PlacedIn(b, Limit(b), live[b])
        BY DEF CarenaInv, ArenasSound, BlocksPlaced, Exists
      <3> QED
        BY <1>2, <1>5, <3>1
    <2>2. \A b \in Arenas \ Exists : live'[b] = << >>
      BY <1>5 DEF CarenaInv, BlocksPlaced
    <2> QED
      BY <1>1, <1>5, <2>1, <2>2 DEF BlocksPlaced
  <1>7. PagesOwned'
    <2>1. \A b \in Exists : PagesOf(b)' = PagesOf(b)
      BY <1>1, <1>2 DEF PagesOf
    <2> QED
      BY <1>1, <2>1 DEF CarenaInv, PagesOwned
  <1>8. ContentsKept'
    <2> SUFFICES ASSUME NEW b \in Exists, Intact(b)
                 PROVE  Kept(b, live[b])'
      BY <1>1, <1>2 DEF ContentsKept
    <2>1. b \in Arenas /\ Kept(b, live[b]) /\ PlacedIn(b, Limit(b), live[b])
      BY <1>1 DEF CarenaInv, ArenasSound, BlocksPlaced, ContentsKept, Exists
    <2>2. \A i \in DOMAIN live'[b] : live'[b][i].node = b
      BY <1>5, <2>1 DEF PlacedIn
    <2>3. \A i \in DOMAIN live'[b] : BlockPages(live'[b][i]) \subseteq resident'
      BY <1>5, <2>1 DEF Kept
    <2> QED
      BY <1>2, <2>1, <2>2, <2>3 DEF Kept, BlockPages, PagesFrom
  <1> QED
    BY <1>3, <1>6, <1>7, <1>8 DEF CarenaInv

(* What is known of an arena that has its structure.                       *)
LEMMA IntactSound ==
  ASSUME CarenaInv, NEW a \in Exists, Intact(a)
  PROVE  /\ a \in Arenas /\ RecordSound(arenas[a]) /\ PlacedIn(a, arenas[a].pos, live[a])
         /\ live \in [Arenas -> Seq(Block)] /\ live[a] \in Seq(Block)
         /\ arenas[a].pos \in Nat /\ arenas[a].cap \in Nat /\ MetaSize \in Nat
         /\ MetaSize <= arenas[a].pos /\ arenas[a].pos <= MetaSize + arenas[a].cap
         /\ Kept(a, live[a])
  <1>1. /\ a \in Arenas /\ RecordSound(arenas[a]) /\ PlacedIn(a, arenas[a].pos, live[a])
        /\ live \in [Arenas -> Seq(Block)] /\ Kept(a, live[a])
    BY DEF CarenaInv, ArenasSound, BlocksPlaced, ContentsKept, Limit, Exists
  <1>2. MetaSize \in Nat
    BY ContiguousArenaAssumption
  <1>3. live[a] \in Seq(Block)
    BY <1>1
  <1> QED
    BY <1>1, <1>2, <1>3 DEF RecordSound, ArenaRecord

(* gp_carena_new maps pages that no arena has and fills them.              *)
LEMMA NewSound ==
  ASSUME CarenaInv, NEW a \in Arenas, NEW size \in Capacities, NEW first \in Pages,
         CarenaNew(a, size, first)
  PROVE  CarenaInv'
  <1> DEFINE n == PagesFor(size)
             r == [first |-> first, count |-> n, cap |-> RoundToAligned(size, PageSize) - MetaSize,
                   pos |-> MetaSize]
  <1>1. /\ n \in Nat \ {0} /\ RoundToAligned(size, PageSize) = PageSize * n
        /\ PageSize * n >= PageSize /\ MetaSize \in 1 .. PageSize - 1 /\ PageSize * n \in Nat
        /\ PageSize \in Nat
    <2>1. size \in Nat \ {0}
      BY ContiguousArenaAssumption
    <2> QED
      BY <2>1, PagesForSize, ContiguousArenaAssumption
  <1>2. /\ a \notin Exists /\ Exists' = Exists \cup {a}
        /\ arenas'[a] = r /\ \A b \in Exists : arenas'[b] = arenas[b] /\ b # a
        /\ live' = live /\ leaked' = leaked /\ mapped' = mapped \cup (first .. first + n - 1)
        /\ resident' = resident \cup {first}
        /\ (first .. first + n - 1) \cap mapped = {}
    BY DEF CarenaNew, Exists
  <1>3. RecordSound(r)
    <2> HIDE DEF n
    <2>1. /\ r \in ArenaRecord /\ r.cap = PageSize * n - MetaSize
          /\ r.pos = MetaSize /\ r.count = n
      <3>1. PageSize * n - MetaSize \in Nat /\ MetaSize \in Nat
        BY <1>1
      <3> QED
        BY <1>1, <3>1 DEF ArenaRecord
    <2> HIDE DEF r
    <2> QED
      BY <1>1, <2>1 DEF RecordSound
  <1>4. PagesOf(a)' = first .. first + n - 1 /\ arenas'[a].first = first
    BY <1>2 DEF PagesOf
  <1>5. \A b \in Exists : /\ PagesOf(b)' = PagesOf(b) /\ Limit(b)' = Limit(b)
                          /\ Intact(b)' <=> Intact(b)
    BY <1>2 DEF PagesOf, Limit, Intact
  <1> HIDE DEF r, n
  <1>6. ArenasSound'
    BY <1>2, <1>3, <1>5 DEF CarenaInv, ArenasSound, RecordSound, Exists
  <1>7. live[a] = << >>
    BY <1>2 DEF CarenaInv, BlocksPlaced
  <1>8. BlocksPlaced'
    <2>1. \A b \in Exists' : PlacedIn(b, Limit(b), live[b])'
      BY <1>2, <1>5, <1>7, EmptyPlaced DEF CarenaInv, BlocksPlaced
    <2> QED
      BY <1>2, <2>1 DEF CarenaInv, BlocksPlaced
  <1>9. PagesOwned'
    <2>1. /\ \A b \in Exists : PagesOf(b) \cap (first .. first + n - 1) = {}
          /\ leaked \cap (first .. first + n - 1) = {}
      BY <1>2 DEF CarenaInv, PagesOwned
    <2>2. /\ mapped' = leaked' \cup UNION {PagesOf(b)' : b \in Exists'}
          /\ \A b \in Exists' : PagesOf(b)' \cap leaked' = {}
      <3>1. UNION {PagesOf(b)' : b \in Exists'}
              = (first .. first + n - 1) \cup UNION {PagesOf(b) : b \in Exists}
        BY <1>2, <1>4, <1>5
      <3>2. \A b \in Exists : PagesOf(b) \cap leaked = {}
        BY DEF CarenaInv, PagesOwned
      <3> QED
        BY <1>2, <1>4, <1>5, <2>1, <3>1, <3>2 DEF CarenaInv, PagesOwned
    <2>3. ASSUME NEW b \in Exists', NEW c \in Exists', b # c
          PROVE  PagesOf(b)' \cap PagesOf(c)' = {}
      <3>1. CASE b \in Exists /\ c \in Exists
        BY <1>5, <2>3, <3>1 DEF CarenaInv, PagesOwned
      <3>2. CASE b = a /\ c \in Exists
        BY <1>4, <1>5, <2>1, <3>2
      <3>3. CASE b \in Exists /\ c = a
        BY <1>4, <1>5, <2>1, <3>3
      <3> QED
        BY <1>2, <2>3, <3>1, <3>2, <3>3
    <2> QED
      BY <2>2, <2>3 DEF PagesOwned
  <1>10. ContentsKept'
    <2>1. ASSUME NEW b \in Exists, Intact(b) PROVE Kept(b, live[b])'
      <3>1. Kept(b, live[b]) /\ PlacedIn(b, Limit(b), live[b])
        BY <2>1 DEF CarenaInv, ContentsKept, BlocksPlaced
      <3>2. \A i \in DOMAIN live[b] : BlockPages(live[b][i])' = BlockPages(live[b][i])
        BY <1>2, <3>1 DEF PlacedIn, BlockPages, PagesFrom
      <3> QED
        BY <1>2, <3>1, <3>2 DEF Kept
    <2>2. Kept(a, live[a])'
      BY <1>2, <1>4, <1>7 DEF Kept
    <2> QED
      BY <1>2, <1>5, <2>1, <2>2 DEF ContentsKept
  <1> QED
    BY <1>6, <1>8, <1>9, <1>10 DEF CarenaInv

(* gp_carena_delete unmaps the pages of its arena and of no other, unless  *)
(* that had lost its structure: then it unmaps nothing.                    *)
LEMMA DeleteUnmaps ==
  ASSUME CarenaInv, NEW a \in Exists
  PROVE  UnmappedPages(a) = IF Intact(a) THEN PagesOf(a) ELSE {}
  <1>1. CASE Intact(a)
    BY <1>1, UnmapsItsPages DEF CarenaInv, ArenasSound
  <1>2. CASE ~ Intact(a)
    <2> DEFINE f == arenas[a].first
               c == arenas[a].cap
    <2>1. c = 0 /\ f \in Nat /\ PageSize \in Nat \ {0}
      BY <1>2, ContiguousArenaAssumption DEF CarenaInv, ArenasSound, ArenaRecord, Pages, Intact
    <2> HIDE DEF f, c
    <2>2. RoundToAligned(c, PageSize) = PageSize * ((c - 1) \div PageSize + 1)
      BY <2>1, RoundingQuotient
    <2>3. (c - 1) \div PageSize = -1
      BY <2>1
    <2>4. RoundToAligned(c, PageSize) = 0
      BY <2>1, <2>2, <2>3
    <2>5. UnmappedPages(a) = f + 0 \div PageSize .. f + (0 + 0 - 1) \div PageSize
      BY <2>1, <2>4 DEF UnmappedPages, PagesFrom, f, c
    <2>6. 0 \div PageSize = 0 /\ (0 + 0 - 1) \div PageSize = -1
      BY <2>1
    <2> QED
      BY <1>2, <2>1, <2>5, <2>6
  <1> QED
    BY <1>1, <1>2

(* A delete unmaps the arena's own pages, or none if its structure is      *)
(* lost.                                                                   *)
LEMMA DeleteSound ==
  ASSUME CarenaInv, NEW a \in Exists, CarenaDelete(a)
  PROVE  CarenaInv'
  <1> DEFINE gone == IF Intact(a) THEN PagesOf(a) ELSE {}
  <1>1. /\ Exists' = Exists \ {a} /\ \A b \in Exists \ {a} : arenas'[b] = arenas[b]
        /\ mapped' = mapped \ gone /\ resident' = resident \ gone /\ a \in Arenas
        /\ leaked' = IF Intact(a) THEN leaked ELSE leaked \cup PagesOf(a)
        /\ live' = [live EXCEPT ![a] = << >>]
    BY DeleteUnmaps DEF CarenaDelete, Exists, CarenaInv, ArenasSound
  <1>2. \A b \in Exists \ {a} : /\ PagesOf(b)' = PagesOf(b) /\ Limit(b)' = Limit(b)
                                /\ Intact(b)' <=> Intact(b)
    BY <1>1 DEF PagesOf, Limit, Intact
  <1>3. ArenasSound'
    BY <1>1, <1>2 DEF CarenaInv, ArenasSound, Exists
  <1>4. live \in [Arenas -> Seq(Block)] /\ << >> \in Seq(Block)
    BY DEF CarenaInv, BlocksPlaced
  <1>5. /\ live' \in [Arenas -> Seq(Block)]
        /\ \A b \in Arenas : live'[b] = IF b = a THEN << >> ELSE live[b]
    BY <1>1, <1>4
  <1>6. BlocksPlaced'
    BY <1>1, <1>2, <1>5 DEF CarenaInv, BlocksPlaced, ArenasSound, Exists
  <1>7. PagesOwned'
    <2>1. CASE Intact(a)
      BY <1>1, <1>2, <2>1 DEF CarenaInv, PagesOwned
    <2>2. CASE ~ Intact(a)
      BY <1>1, <1>2, <2>2 DEF CarenaInv, PagesOwned
    <2> QED
      BY <2>1, <2>2
  <1>8. ContentsKept'
    <2> SUFFICES ASSUME NEW b \in Exists \ {a}, Intact(b)
                 PROVE  Kept(b, live[b])'
      BY <1>1, <1>2 DEF ContentsKept
    <2>1. /\ b \in Arenas /\ Kept(b, live[b]) /\ PlacedIn(b, Limit(b), live[b])
          /\ arenas[b] \in ArenaRecord /\ PagesOf(b) \cap gone = {}
      BY DEF CarenaInv, ArenasSound, BlocksPlaced, PagesOwned, ContentsKept, Exists
    <2>2. arenas[b].first \in PagesOf(b)
      BY <2>1 DEF PagesOf, ArenaRecord, Pages
    <2>3. \A i \in DOMAIN live[b] : /\ BlockPages(live[b][i])' = BlockPages(live[b][i])
                                    /\ BlockPages(live[b][i]) \subseteq PagesOf(b)
      BY <1>1, <2>1, BlocksOnPages DEF PlacedIn, BlockPages, PagesFrom
    <2> HIDE DEF gone
    <2> QED
      BY <1>1, <1>5, <2>1, <2>2, <2>3 DEF Kept
  <1> QED
    BY <1>3, <1>6, <1>7, <1>8 DEF CarenaInv

(* A block is added to others, and written.                                *)
LEMMA AppendKept ==
  ASSUME NEW bs \in Seq(Block), NEW b \in Block,
         \A i \in DOMAIN bs : BlockPages(bs[i]) \subseteq resident,
         resident' = resident \cup BlockPages(b)
  PROVE  /\ resident \subseteq resident'
         /\ \A i \in DOMAIN Append(bs, b) : BlockPages(Append(bs, b)[i]) \subseteq resident'
  <1> DEFINE cs == Append(bs, b)
  <1>1. /\ cs \in Seq(Block) /\ Len(cs) = Len(bs) + 1 /\ cs[Len(bs) + 1] = b
        /\ \A i \in 1 .. Len(bs) : cs[i] = bs[i]
    BY AppendProperties
  <1>2. DOMAIN bs = 1 .. Len(bs) /\ Len(bs) \in Nat /\ DOMAIN cs = 1 .. Len(bs) + 1
    BY <1>1
  <1> HIDE DEF cs
  <1>3. \A i \in DOMAIN cs : cs[i] = b \/ (i \in DOMAIN bs /\ cs[i] = bs[i])
    BY <1>1, <1>2
  <1> QED
    BY <1>3 DEF cs

(* gp_carena_alloc cuts a block off at the position, past all the others.  *)
LEMMA AllocSound ==
  ASSUME CarenaInv, NEW a \in Exists, NEW size \in Sizes, NEW align \in Alignments,
         CarenaAlloc(a, size, align)
  PROVE  CarenaInv'
  <1> DEFINE from == arenas[a].pos
             pos == Bumped(a, from, size, align)
             b == BlockAt(a, from, size)
  <1>1. /\ Intact(a) /\ pos <= MetaSize + arenas[a].cap
        /\ arenas' = [arenas EXCEPT ![a].pos = pos]
        /\ live' = [live EXCEPT ![a] = Append(@, b)]
        /\ resident' = resident \cup BlockPages(b)
        /\ UNCHANGED << mapped, leaked >>
    BY DEF CarenaAlloc, InBounds
  <1>2. /\ a \in Arenas /\ RecordSound(arenas[a]) /\ PlacedIn(a, from, live[a])
        /\ live \in [Arenas -> Seq(Block)] /\ live[a] \in Seq(Block) /\ Kept(a, live[a])
        /\ size \in Nat \ {0} /\ align \in Nat \ {0} /\ MetaSize \in Nat
        /\ from \in Nat /\ MetaSize <= from /\ arenas[a].cap \in Nat
    BY <1>1, IntactSound, ContiguousArenaAssumption
  <1>3. pos \in Nat /\ from + size <= pos
    BY <1>2, BumpedPast
  <1>4. live' = [live EXCEPT ![a] = Append(live[a], b)]
    BY <1>1, <1>2
  <1> HIDE DEF from, pos
  <1>5. PlacedIn(a, pos, Append(live[a], b)) /\ b \in Block
    BY <1>2, <1>3, AppendPlaced
  <1>6. pos \in MetaSize .. MetaSize + arenas[a].cap
    BY <1>1, <1>2, <1>3
  <1> HIDE DEF b
  <1>7. \A i \in DOMAIN Append(live[a], b) : BlockPages(Append(live[a], b)[i]) \subseteq resident'
    BY <1>1, <1>2, <1>5, AppendKept DEF Kept
  <1> QED
    BY <1>1, <1>4, <1>5, <1>6, <1>7, MovedSound

(* What gp_mem_realloc_aligned puts in place of a block: one that begins   *)
(* where no other block of the arena reaches.                              *)
LEMMA ReallocSound ==
  ASSUME CarenaInv, NEW a \in Exists, NEW i \in DOMAIN live[a],
         NEW size \in Sizes, NEW align \in Alignments, MemRealloc(a, i, size, align)
  PROVE  /\ CarenaInv'
         /\ \E from, pos \in Nat :
              /\ PlacedIn(a, from, RemoveAt(live[a], i))
              /\ live' = [live EXCEPT ![a] = Append(RemoveAt(live[a], i), BlockAt(a, from, size))]
  <1> DEFINE old == live[a][i]
             atEnd == EndsAtPosition(old)
             rest == RemoveAt(live[a], i)
             from == IF atEnd THEN old.off ELSE arenas[a].pos
             alignment == IF atEnd THEN AllocAlignment ELSE align
             pos == Bumped(a, from, size, alignment)
             b == BlockAt(a, from, size)
  <1>1. /\ Intact(a) /\ pos <= MetaSize + arenas[a].cap
        /\ arenas' = [arenas EXCEPT ![a].pos = pos]
        /\ live' = [live EXCEPT ![a] = Append(RemoveAt(@, i), b)]
        /\ resident' = resident \cup BlockPages(b)
        /\ UNCHANGED << mapped, leaked >>
    BY DEF MemRealloc, InBounds
  <1>2. /\ a \in Arenas /\ RecordSound(arenas[a]) /\ PlacedIn(a, arenas[a].pos, live[a])
        /\ live \in [Arenas -> Seq(Block)] /\ live[a] \in Seq(Block) /\ Kept(a, live[a])
        /\ arenas[a].pos \in Nat /\ MetaSize <= arenas[a].pos /\ arenas[a].cap \in Nat
        /\ size \in Nat \ {0} /\ alignment \in Nat \ {0} /\ MetaSize \in Nat
    BY <1>1, IntactSound, ContiguousArenaAssumption
  <1>3. old \in Block /\ old.node = a /\ MetaSize <= old.off
    BY <1>2 DEF PlacedIn
  <1>4. live' = [live EXCEPT ![a] = Append(rest, b)]
    BY <1>1, <1>2
  <1>5. from \in Nat /\ MetaSize <= from /\ PlacedIn(a, from, rest)
    <2>1. CASE atEnd
      <3>1. old.off + old.size = arenas[a].pos
        BY <1>3, <2>1 DEF EndsAtPosition
      <3>2. PlacedIn(a, old.off, rest)
        BY <1>2, <3>1, RemovePlaced
      <3> QED
        BY <1>3, <2>1, <3>2, BlockEnds
    <2>2. CASE ~ atEnd
      <3>1. PlacedIn(a, arenas[a].pos, rest)
        BY <1>2, RemovePlaced
      <3> QED
        BY <1>2, <2>2, <3>1
    <2> QED
      BY <2>1, <2>2
  <1>6. rest \in Seq(Block) /\ \A j \in DOMAIN rest : BlockPages(rest[j]) \subseteq resident
    <2>1. i \in 1 .. Len(live[a]) /\ Len(live[a]) \in Nat /\ DOMAIN live[a] = 1 .. Len(live[a])
      BY <1>2
    <2>2. /\ rest \in Seq(Block) /\ Len(rest) = Len(live[a]) - 1
          /\ \A j \in 1 .. Len(live[a]) - 1 :
               rest[j] = IF j < i THEN live[a][j] ELSE live[a][j + 1]
      BY <1>2, <2>1, RemoveAtElements
    <2> HIDE DEF rest
    <2>3. ASSUME NEW j \in DOMAIN rest
          PROVE  BlockPages(rest[j]) \subseteq resident
      <3>1. j \in 1 .. Len(live[a]) - 1
        BY <2>1, <2>2
      <3>2. j \in DOMAIN live[a] /\ j + 1 \in DOMAIN live[a]
        BY <2>1, <3>1
      <3>3. rest[j] = live[a][j] \/ rest[j] = live[a][j + 1]
        BY <2>2, <3>1
      <3> QED
        BY <1>2, <3>2, <3>3 DEF Kept
    <2> QED
      BY <2>2, <2>3
  <1> HIDE DEF from, rest, alignment
  <1>7. pos \in Nat /\ from + size <= pos
    BY <1>2, <1>5, BumpedPast
  <1> HIDE DEF pos
  <1>8. PlacedIn(a, pos, Append(rest, b)) /\ b \in Block
    BY <1>2, <1>5, <1>7, AppendPlaced
  <1>9. pos \in MetaSize .. MetaSize + arenas[a].cap
    BY <1>1, <1>2, <1>5, <1>7
  <1>10. CarenaInv'
    <2> HIDE DEF b
    <2>1. \A j \in DOMAIN Append(rest, b) : BlockPages(Append(rest, b)[j]) \subseteq resident'
      BY <1>1, <1>6, <1>8, AppendKept
    <2> QED
      BY <1>1, <1>4, <1>8, <1>9, <2>1, MovedSound
  <1> QED
    BY <1>4, <1>5, <1>7, <1>10 DEF rest

(* gp_carena_rewind leaves the blocks before the one rewound to.           *)
LEMMA RewindSound ==
  ASSUME CarenaInv, NEW a \in Exists, NEW i \in DOMAIN live[a], CarenaRewind(a, i)
  PROVE  CarenaInv'
  <1> DEFINE pos == live[a][i].off
             bs == SubSeq(live[a], 1, i - 1)
  <1>1. /\ Intact(a)
        /\ arenas' = [arenas EXCEPT ![a].pos = pos] /\ live' = [live EXCEPT ![a] = SubSeq(@, 1, i - 1)]
        /\ UNCHANGED << mapped, resident, leaked >>
    BY DEF CarenaRewind
  <1>2. /\ a \in Arenas /\ PlacedIn(a, arenas[a].pos, live[a]) /\ live[a] \in Seq(Block)
        /\ arenas[a].pos \in Nat /\ arenas[a].cap \in Nat /\ MetaSize \in Nat
        /\ arenas[a].pos <= MetaSize + arenas[a].cap /\ Kept(a, live[a])
        /\ live \in [Arenas -> Seq(Block)]
    BY <1>1, IntactSound
  <1>3. /\ live[a][i] \in Block /\ MetaSize <= pos
        /\ pos + live[a][i].size <= arenas[a].pos
    BY <1>2 DEF PlacedIn
  <1>4. PlacedIn(a, pos, bs)
    BY <1>2, PrefixPlaced
  <1>5. pos \in MetaSize .. MetaSize + arenas[a].cap
    BY <1>2, <1>3, BlockEnds
  <1>6. live' = [live EXCEPT ![a] = bs]
    BY <1>1, <1>2
  <1>7. \A j \in DOMAIN bs : BlockPages(bs[j]) \subseteq resident'
    <2>1. i \in 1 .. Len(live[a]) /\ Len(live[a]) \in Nat /\ DOMAIN live[a] = 1 .. Len(live[a])
      BY <1>2
    <2>2. DOMAIN bs = 1 .. i - 1 /\ \A j \in 1 .. i - 1 : bs[j] = live[a][j]
      BY <1>2, <2>1
    <2> HIDE DEF bs
    <2> QED
      BY <1>1, <1>2, <2>1, <2>2 DEF Kept
  <1> HIDE DEF pos, bs
  <1> QED
    BY <1>1, <1>4, <1>5, <1>6, <1>7, MovedSound

(* gp_mem_dealloc takes a block out and moves nothing.                     *)
LEMMA DeallocSound ==
  ASSUME CarenaInv, NEW a \in Exists, NEW i \in DOMAIN live[a], MemDealloc(a, i)
  PROVE  CarenaInv'
  <1> DEFINE bs == RemoveAt(live[a], i)
  <1>1. /\ Intact(a) /\ live' = [live EXCEPT ![a] = RemoveAt(@, i)]
        /\ UNCHANGED << arenas, mapped, resident, leaked >>
    BY DEF MemDealloc
  <1>2. /\ a \in Arenas /\ PlacedIn(a, arenas[a].pos, live[a]) /\ Kept(a, live[a])
        /\ live \in [Arenas -> Seq(Block)] /\ live[a] \in Seq(Block) /\ arenas[a].pos \in Nat
    BY <1>1, IntactSound
  <1>3. live' = [live EXCEPT ![a] = bs]
    BY <1>1, <1>2
  <1>4. PlacedIn(a, arenas[a].pos, bs)
    BY <1>2, RemovePlaced
  <1>5. i \in 1 .. Len(live[a]) /\ Len(live[a]) \in Nat /\ DOMAIN live[a] = 1 .. Len(live[a])
    BY <1>2
  <1>6. /\ bs \in Seq(Block) /\ Len(bs) = Len(live[a]) - 1
        /\ \A j \in 1 .. Len(live[a]) - 1 : bs[j] = IF j < i THEN live[a][j] ELSE live[a][j + 1]
    BY <1>2, <1>5, RemoveAtElements
  <1> HIDE DEF bs
  <1>7. \A j \in DOMAIN bs : \E k \in DOMAIN live[a] : bs[j] = live[a][k]
    BY <1>5, <1>6
  <1>8. /\ live' \in [Arenas -> Seq(Block)]
        /\ \A b \in Arenas : live'[b] = IF b = a THEN bs ELSE live[b]
    BY <1>2, <1>3, <1>6
  <1>9. BlocksPlaced'
    BY <1>1, <1>4, <1>8 DEF CarenaInv, BlocksPlaced, ArenasSound, Exists, Limit, Intact
  <1>10. ContentsKept'
    <2>1. Kept(a, bs)
      BY <1>2, <1>7 DEF Kept
    <2>2. \A b \in Exists : Intact(b) => Kept(b, live'[b])
      BY <1>8, <2>1 DEF CarenaInv, ContentsKept, ArenasSound, Exists
    <2> QED
      BY <1>1, <2>2 DEF ContentsKept, Kept, BlockPages, PagesFrom, Intact, Exists
  <1> QED
    BY <1>1, <1>9, <1>10 DEF CarenaInv, ArenasSound, PagesOwned, PagesOf, Intact, Exists

------------------------------------------------------------------------------

(* A reset of an arena that has its structure discards all its pages but   *)
(* the first, and the page after them. One without structure has nothing   *)
(* discarded.                                                              *)
LEMMA DiscardsTheRest ==
  ASSUME NEW a \in Exists, RecordSound(arenas[a])
  PROVE  /\ DiscardedPages(a) \subseteq arenas[a].first + 1 .. arenas[a].first + arenas[a].count
         /\ PagesOf(a) \subseteq {arenas[a].first} \cup DiscardedPages(a)
  <1> DEFINE n == arenas[a].count
             f == arenas[a].first
  <1>1. /\ n \in Nat \ {0} /\ f \in Nat /\ arenas[a].cap \in Nat
        /\ MetaSize + arenas[a].cap = PageSize * n
        /\ MetaSize \in 1 .. PageSize - 1 /\ PageSize \in Nat \ {0}
    BY ContiguousArenaAssumption DEF RecordSound, ArenaRecord, Pages
  <1>2. RoundToAligned(arenas[a].cap, PageSize) = PageSize * n
    BY RoundedCapacity
  <1> HIDE DEF n, f
  <1>3. ASSUME arenas[a].cap < PageSize PROVE n = 1
    <2>1. ASSUME 2 <= n PROVE FALSE
      <3>1. PageSize * 2 <= PageSize * n
        BY <1>1, <2>1, ProductOrder
      <3> QED
        BY <1>1, <1>3, <3>1
    <2> QED
      BY <1>1, <2>1
  <1>4. /\ PageSize + PageSize * n - 1 = PageSize * (n + 1) - 1
        /\ PageSize * 1 = PageSize
    BY <1>1
  <1>5. /\ PageSize \div PageSize = 1
        /\ (PageSize + PageSize * n - 1) \div PageSize = n
    <2> DEFINE m == n + 1
    <2>1. m \in Nat /\ m > 0 /\ m - 1 = n
      BY <1>1
    <2> HIDE DEF m
    <2>2. (PageSize * m - 1) \div PageSize = n
      BY <2>1, PageOfMultiple
    <2>3. (PageSize * 1) \div PageSize = 1
      BY PageOfMultiple
    <2> QED
      BY <1>4, <2>2, <2>3 DEF m
  <1>6. DiscardedPages(a) = IF arenas[a].cap < PageSize THEN {} ELSE f + 1 .. f + n
    BY <1>2, <1>5 DEF DiscardedPages, PagesFrom, f
  <1>7. PagesOf(a) = f .. f + n - 1
    BY DEF PagesOf, f, n
  <1>8. /\ DiscardedPages(a) \subseteq f + 1 .. f + n
        /\ PagesOf(a) \subseteq {f} \cup DiscardedPages(a)
    <2>1. n = 1 => f .. f + n - 1 = {f}
      BY <1>1
    <2>2. f .. f + n - 1 \subseteq {f} \cup (f + 1 .. f + n)
      BY <1>1
    <2> QED
      BY <1>3, <1>6, <1>7, <2>1, <2>2
  <1> QED
    BY <1>8 DEF f, n

(* A reset keeps its own arena's first page. Of the pages of another arena *)
(* it discards at most the first, and that only if the arena is mapped     *)
(* right behind, while this one has its structure.                         *)
LEMMA ResetReaches ==
  ASSUME CarenaInv, NEW a \in Exists, NEW b \in Exists, b # a
  PROVE  /\ arenas[a].first \notin DiscardedPages(a)
         /\ PagesOf(b) \cap DiscardedPages(a) \subseteq {arenas[b].first}
         /\ arenas[a].first \notin PagesOf(b)
         /\ PagesOf(b) \cap DiscardedPages(a) # {} => Intact(a) /\ RightBehind(b, a)
  <1> DEFINE f == arenas[a].first
             n == arenas[a].count
             g == arenas[b].first
             m == arenas[b].count
  <1>1. /\ f \in Nat /\ n \in Nat \ {0} /\ g \in Nat /\ m \in Nat \ {0}
    BY DEF CarenaInv, ArenasSound, ArenaRecord, Pages
  <1>2. /\ PagesOf(a) = f .. f + n - 1 /\ PagesOf(b) = g .. g + m - 1
        /\ (f .. f + n - 1) \cap (g .. g + m - 1) = {}
    BY DEF CarenaInv, PagesOwned, PagesOf
  <1>3. Intact(a) => DiscardedPages(a) \subseteq f + 1 .. f + n
    BY DiscardsTheRest DEF CarenaInv, ArenasSound
  <1>4. ~ Intact(a) => DiscardedPages(a) = {}
    BY ContiguousArenaAssumption DEF Intact, DiscardedPages
  <1>5. RightBehind(b, a) <=> g = f + n
    BY DEF RightBehind
  <1> HIDE DEF f, n, g, m
  <1>6. f \notin g .. g + m - 1 /\ g \notin f .. f + n - 1
    BY <1>1, <1>2
  <1>7. /\ (g .. g + m - 1) \cap (f + 1 .. f + n) \subseteq {g}
        /\ (g .. g + m - 1) \cap (f + 1 .. f + n) # {} => g = f + n
        /\ f \notin f + 1 .. f + n
    BY <1>1, <1>6
  <1>8. f \notin DiscardedPages(a)
    BY <1>3, <1>4, <1>7
  <1> QED
    BY <1>2, <1>3, <1>4, <1>5, <1>6, <1>7, <1>8 DEF f, g

(* A reset does not discard the page it has just written to.               *)
LEMMA ResetKeepsOwn ==
  ASSUME CarenaInv, NEW a \in Exists
  PROVE  arenas[a].first \notin DiscardedPages(a)
  <1>1. CASE Intact(a)
    <2>1. RecordSound(arenas[a]) /\ arenas[a].first \in Nat /\ arenas[a].count \in Nat
      BY <1>1 DEF CarenaInv, ArenasSound, ArenaRecord, Pages
    <2>2. arenas[a].first \notin arenas[a].first + 1 .. arenas[a].first + arenas[a].count
      BY <2>1
    <2> QED
      BY <2>1, <2>2, DiscardsTheRest
  <1>2. CASE ~ Intact(a)
    BY <1>2, ContiguousArenaAssumption DEF Intact, DiscardedPages
  <1> QED
    BY <1>1, <1>2

(* What a reset does to the arenas' structures: that of its own keeps all  *)
(* but the position, that of another is left alone or lost.                *)
LEMMA ResetChanges ==
  ASSUME CarenaInv, NEW a \in Exists, CarenaReset(a), NEW b \in Exists
  PROVE  /\ Exists' = Exists /\ arenas'[b] \in ArenaRecord
         /\ arenas'[b].first = arenas[b].first /\ arenas'[b].count = arenas[b].count
         /\ b = a => (Intact(b)' <=> Intact(b)) /\ (Intact(b) => RecordSound(arenas'[b]))
         /\ b # a /\ arenas[b].first \notin DiscardedPages(a) => arenas'[b] = arenas[b]
         /\ b # a /\ arenas[b].first \in DiscardedPages(a) => ~ Intact(b)'
  <1> DEFINE r == arenas[b]
             s == [r EXCEPT !.pos = MetaSize]
             z == Zeroed(r)
  <1>1. /\ Exists' = Exists
        /\ arenas'[b] = IF b = a THEN s ELSE IF r.first \in DiscardedPages(a) THEN z ELSE r
    BY DEF CarenaReset, Exists
  <1>2. r \in ArenaRecord /\ (Intact(b) => RecordSound(r)) /\ MetaSize \in Nat
    BY ContiguousArenaAssumption DEF CarenaInv, ArenasSound
  <1>3. Intact(b) <=> r.cap # 0
    BY DEF Intact
  <1>4. Intact(b)' <=> arenas'[b].cap # 0
    BY DEF Intact
  <1> HIDE DEF r
  <1>5. /\ s \in ArenaRecord /\ s.first = r.first /\ s.count = r.count
        /\ s.cap = r.cap /\ s.pos = MetaSize
    BY <1>2 DEF ArenaRecord
  <1>6. /\ z \in ArenaRecord /\ z.first = r.first /\ z.count = r.count /\ z.cap = 0
    BY <1>2 DEF ArenaRecord, Zeroed
  <1> HIDE DEF s, z
  <1>7. Intact(b) => RecordSound(s)
    BY <1>2, <1>5 DEF RecordSound, ArenaRecord
  <1> QED
    BY <1>1, <1>2, <1>3, <1>4, <1>5, <1>6, <1>7 DEF r

(* gp_carena_reset leaves its arena no blocks, and takes the structure of  *)
(* the arena right behind or nothing.                                      *)
LEMMA ResetSound ==
  ASSUME CarenaInv, NEW a \in Exists, CarenaReset(a)
  PROVE  CarenaInv'
  <1>1. /\ a \in Arenas /\ live' = [live EXCEPT ![a] = << >>]
        /\ resident' = (resident \cup {arenas[a].first}) \ DiscardedPages(a)
        /\ UNCHANGED << mapped, leaked >>
    BY DEF CarenaReset, CarenaInv, ArenasSound, Exists
  <1>2. Exists' = Exists /\ DOMAIN arenas' = DOMAIN arenas
    BY ResetChanges DEF Exists
  <1>3. live \in [Arenas -> Seq(Block)] /\ << >> \in Seq(Block)
    BY DEF CarenaInv, BlocksPlaced
  <1>4. /\ live' \in [Arenas -> Seq(Block)]
        /\ \A b \in Arenas : live'[b] = IF b = a THEN << >> ELSE live[b]
    BY <1>1, <1>3
  <1>5. ASSUME NEW b \in Exists
        PROVE  arenas'[b] \in ArenaRecord /\ (Intact(b)' => RecordSound(arenas'[b]))
    <2>1. Intact(b) => RecordSound(arenas[b])
      BY DEF CarenaInv, ArenasSound
    <2> QED
      BY <2>1, ResetChanges DEF Intact
  <1>6. ArenasSound'
    BY <1>2, <1>5 DEF CarenaInv, ArenasSound
  <1>7. BlocksPlaced'
    <2>1. ASSUME NEW b \in Exists PROVE PlacedIn(b, Limit(b)', live'[b])
      <3>1. CASE b = a
        BY <1>1, <1>4, <3>1, EmptyPlaced
      <3>2. CASE b # a
        <4>1. b \in Arenas /\ live'[b] = live[b] /\ PlacedIn(b, Limit(b), live[b])
          BY <1>4, <3>2 DEF CarenaInv, ArenasSound, BlocksPlaced, Exists
        <4>2. CASE arenas[b].first \in DiscardedPages(a)
          <5>1. Limit(b)' = PageSize * arenas[b].count
            BY <3>2, <4>2, ResetChanges DEF Limit
          <5>2. /\ Limit(b) \in Nat /\ PageSize * arenas[b].count \in Nat
                /\ Limit(b) <= PageSize * arenas[b].count
            BY LimitInPages DEF CarenaInv
          <5> QED
            BY <4>1, <5>1, <5>2, PlacedHigher
        <4>3. CASE arenas[b].first \notin DiscardedPages(a)
          <5>1. Limit(b)' = Limit(b)
            BY <3>2, <4>3, ResetChanges DEF Limit, Intact
          <5> QED
            BY <4>1, <5>1
        <4> QED
          BY <4>2, <4>3
      <3> QED
        BY <3>1, <3>2
    <2>2. \A b \in Arenas \ Exists : live'[b] = << >>
      BY <1>4 DEF CarenaInv, BlocksPlaced
    <2> QED
      BY <1>2, <1>4, <2>1, <2>2 DEF BlocksPlaced
  <1>8. \A b \in Exists : PagesOf(b)' = PagesOf(b)
    BY ResetChanges DEF PagesOf
  <1>9. PagesOwned'
    BY <1>1, <1>2, <1>8 DEF CarenaInv, PagesOwned
  <1>10. ContentsKept'
    <2> SUFFICES ASSUME NEW b \in Exists, Intact(b)'
                 PROVE  Kept(b, live[b])'
      BY <1>2 DEF ContentsKept
    <2>1. arenas'[b].first = arenas[b].first
      BY ResetChanges
    <2>2. CASE b = a
      <3>1. arenas[a].first \notin DiscardedPages(a) /\ live'[b] = << >>
        BY <1>1, <1>4, <2>2, ResetKeepsOwn
      <3> QED
        BY <1>1, <2>1, <2>2, <3>1 DEF Kept
    <2>3. CASE b # a
      <3>1. arenas[b].first \notin DiscardedPages(a) /\ arenas'[b] = arenas[b]
        BY <2>3, ResetChanges
      <3>2. Intact(b) /\ live'[b] = live[b] /\ Kept(b, live[b]) /\ PlacedIn(b, Limit(b), live[b])
            /\ arenas[b] \in ArenaRecord
        BY <1>4, <2>3, <3>1
           DEF CarenaInv, ArenasSound, BlocksPlaced, ContentsKept, Intact, Exists
      <3>3. PagesOf(b) \cap DiscardedPages(a) = {}
        BY <2>3, <3>1, ResetReaches
      <3>4. arenas[b].first \in PagesOf(b)
        BY <3>2 DEF PagesOf, ArenaRecord, Pages
      <3>5. \A i \in DOMAIN live[b] : /\ BlockPages(live[b][i])' = BlockPages(live'[b][i])
                                      /\ BlockPages(live[b][i]) \subseteq PagesOf(b)
        BY <3>1, <3>2, BlocksOnPages DEF PlacedIn, BlockPages, PagesFrom
      <3> QED
        BY <1>1, <2>1, <3>1, <3>2, <3>3, <3>4, <3>5 DEF Kept
    <2> QED
      BY <2>2, <2>3
  <1> QED
    BY <1>6, <1>7, <1>9, <1>10 DEF CarenaInv

(* Every operation keeps the invariant.                                    *)
LEMMA StepSound == CarenaInv /\ [Next]_vars => CarenaInv'
  <1> SUFFICES ASSUME CarenaInv, [Next]_vars PROVE CarenaInv'
    OBVIOUS
  <1>1. CASE UNCHANGED vars
    BY <1>1 DEF vars, CarenaInv, ArenasSound, BlocksPlaced, PagesOwned, ContentsKept, Kept,
                Limit, Intact, PagesOf, BlockPages, PagesFrom, Exists
  <1>2. ASSUME NEW a \in Exists, NEW i \in DOMAIN live[a],
               MemDealloc(a, i) \/ CarenaRewind(a, i)
        PROVE  CarenaInv'
    BY <1>2, DeallocSound, RewindSound
  <1>3. ASSUME NEW a \in Exists, CarenaReset(a) \/ CarenaDelete(a)
        PROVE  CarenaInv'
    BY <1>3, ResetSound, DeleteSound
  <1>4. ASSUME NEW a \in Exists, NEW i \in DOMAIN live[a], NEW size \in Sizes,
               NEW align \in Alignments, MemRealloc(a, i, size, align)
        PROVE  CarenaInv'
    BY <1>4, ReallocSound
  <1> QED
    BY <1>1, <1>2, <1>3, <1>4, NewSound, AllocSound DEF Next

(* The invariant of every behaviour, for all values of the constants: an   *)
(* arena that still has its structure has a sound one, and all that was    *)
(* written to its blocks. That a reset takes the structure of the arena    *)
(* right behind is one of the steps.                                       *)
THEOREM CarenaInvariant == Spec => []CarenaInv
  <1> QED
    BY InitSound, StepSound, PTL DEF Spec

------------------------------------------------------------------------------

(* What is mapped is what the arenas have, each to itself, and what was    *)
(* left behind by arenas that were deleted without their structure. Every  *)
(* block lies in its arena, after the arena's structure: no delete takes a *)
(* page from another arena, and no reset takes the contents of an arena    *)
(* that it leaves the structure.                                           *)
THEOREM PagesStayOwned == Spec => []MappedIsOwned
  <1>1. CarenaInv => MappedIsOwned
    BY BlocksOnPages DEF MappedIsOwned, CarenaInv, PagesOwned, ContentsKept, Kept
  <1> QED
    BY <1>1, CarenaInvariant, PTL

(* A reset leaves its arena the first page and no other, and takes nothing *)
(* from the others but the first page of the one right behind.             *)
THEOREM ResetKeepsFirstPage == Spec => ResetFreesPhysical
  <1> DEFINE Other(a, b) ==
               IF RightBehind(b, a)
               THEN (resident \cap PagesOf(b)) \ {arenas[b].first} \subseteq resident'
               ELSE /\ arenas'[b] = arenas[b]
                    /\ resident' \cap PagesOf(b) = resident \cap PagesOf(b)
             Frees(a) == CarenaReset(a) /\ Intact(a) =>
                           /\ resident' \cap PagesOf(a) = {arenas[a].first}
                           /\ \A b \in Exists \ {a} : Other(a, b)
             Resets == \A a \in Exists : Frees(a)
  <1>1. ASSUME CarenaInv, [Next]_vars PROVE Resets
    <2> SUFFICES ASSUME NEW a \in Exists, CarenaReset(a), Intact(a)
                 PROVE  /\ resident' \cap PagesOf(a) = {arenas[a].first}
                        /\ \A b \in Exists \ {a} : Other(a, b)
      OBVIOUS
    <2>1. RecordSound(arenas[a])
      BY <1>1 DEF CarenaInv, ArenasSound
    <2>2. arenas[a].first \in PagesOf(a)
      BY <2>1 DEF PagesOf, RecordSound, ArenaRecord, Pages
    <2>3. resident' = (resident \cup {arenas[a].first}) \ DiscardedPages(a)
      BY DEF CarenaReset
    <2>4. resident' \cap PagesOf(a) = {arenas[a].first}
      BY <1>1, <2>1, <2>2, <2>3, DiscardsTheRest, ResetKeepsOwn
    <2>5. ASSUME NEW b \in Exists \ {a} PROVE Other(a, b)
      <3>1. /\ PagesOf(b) \cap DiscardedPages(a) \subseteq {arenas[b].first}
            /\ arenas[a].first \notin PagesOf(b)
            /\ PagesOf(b) \cap DiscardedPages(a) # {} => RightBehind(b, a)
        BY <1>1, ResetReaches
      <3>2. arenas[b].first \in PagesOf(b)
        BY <1>1 DEF CarenaInv, ArenasSound, PagesOf, ArenaRecord, Pages
      <3>3. arenas[b].first \notin DiscardedPages(a) => arenas'[b] = arenas[b]
        BY <1>1, ResetChanges
      <3> QED
        BY <2>3, <3>1, <3>2, <3>3
    <2> QED
      BY <2>4, <2>5
  <1>2. CarenaInv /\ [Next]_vars => [Resets]_vars
    BY <1>1
  <1>3. Spec => [][Resets]_vars
    BY <1>2, CarenaInvariant, PTL DEF Spec
  <1> QED
    BY <1>3 DEF ResetFreesPhysical

------------------------------------------------------------------------------

(* A block cut off where no block of a sequence reaches overlaps none.     *)
LEMMA PlacedIsFresh ==
  ASSUME NEW a \in Arenas, NEW bs, NEW from \in Nat, NEW size \in Nat \ {0},
         PlacedIn(a, from, bs)
  PROVE  LET b == BlockAt(a, from, size) IN
         /\ Len(Append(bs, b)) = Len(bs) + 1
         /\ Append(bs, b)[Len(Append(bs, b))] = b
         /\ \A i \in DOMAIN bs : Append(bs, b)[i] = bs[i]
         /\ Allocator!Fresh(b, bs)
  <1> DEFINE b == BlockAt(a, from, size)
  <1>1. bs \in Seq(Block) /\ b \in Block /\ b.off = from
    BY DEF PlacedIn, BlockAt, Block
  <1> HIDE DEF b
  <1>2. /\ Len(Append(bs, b)) = Len(bs) + 1
        /\ Append(bs, b)[Len(Append(bs, b))] = b
        /\ \A i \in DOMAIN bs : Append(bs, b)[i] = bs[i]
    <2>1. DOMAIN bs = 1 .. Len(bs) /\ Len(bs) \in Nat
      BY <1>1
    <2> QED
      BY <1>1, <2>1, AppendProperties
  <1>3. ASSUME NEW i \in DOMAIN bs PROVE ~ Allocator!Overlap(b, bs[i])
    <2>1. bs[i] \in Block /\ bs[i].off + bs[i].size <= from
      BY <1>1 DEF PlacedIn
    <2>2. /\ bs[i].off \in Nat /\ bs[i].size \in Nat /\ b.off \in Nat /\ b.size \in Nat
      BY <1>1, <2>1, BlockEnds
    <2> QED
      BY <1>1, <2>1, <2>2 DEF Allocator!Overlap
  <1> QED
    BY <1>2, <1>3 DEF Allocator!Fresh, b

(* Every step of the arenas is a step of an allocator, seen from the arena *)
(* that is observed, or is not seen from there.                            *)
LEMMA StepRefines ==
  ASSUME CarenaInv, [Next]_vars
  PROVE  [Allocator!Next]_(Held(Observed))
  <1> DEFINE held == Held(Observed)
  <1>1. live \in [Arenas -> Seq(Block)] /\ Exists \subseteq Arenas /\ Observed \in Arenas
    BY ContiguousArenaAssumption DEF CarenaInv, BlocksPlaced, ArenasSound, Exists
  <1>2. ASSUME NEW a \in Arenas, NEW bs, live' = [live EXCEPT ![a] = bs],
               Exists' = Exists, \A b \in Exists : (Intact(b)' <=> Intact(b))
        PROVE  IF a = Observed /\ a \in Exists /\ Intact(a) THEN held' = bs ELSE UNCHANGED held
    BY <1>1, <1>2 DEF Held
  <1>3. ASSUME NEW a \in Exists, Intact(a), NEW pos \in Nat, arenas' = [arenas EXCEPT ![a].pos = pos]
        PROVE  Exists' = Exists /\ \A b \in Exists : (Intact(b)' <=> Intact(b))
    <2>1. Exists' = Exists
      BY <1>3 DEF Exists
    <2>2. ASSUME NEW b \in Exists PROVE Intact(b)' <=> Intact(b)
      <3> DEFINE r == arenas[b]
                 s == [r EXCEPT !.pos = pos]
      <3>1. r \in ArenaRecord /\ arenas'[b] = IF b = a THEN s ELSE r
        BY <1>3 DEF CarenaInv, ArenasSound, Exists
      <3>2. Intact(b) <=> r.cap # 0
        BY DEF Intact
      <3> HIDE DEF r
      <3>3. s.cap = r.cap
        BY <3>1 DEF ArenaRecord
      <3> HIDE DEF s
      <3>4. Intact(b)' <=> arenas'[b].cap # 0
        BY DEF Intact
      <3> QED
        BY <3>1, <3>2, <3>3, <3>4
    <2> QED
      BY <2>1, <2>2
  <1>4. ASSUME NEW a \in Exists, NEW size \in Sizes, NEW align \in Alignments,
               CarenaAlloc(a, size, align)
        PROVE  Allocator!Acquire \/ UNCHANGED held
    <2> DEFINE b == BlockAt(a, arenas[a].pos, size)
               pos == Bumped(a, arenas[a].pos, size, align)
    <2>1. /\ Intact(a) /\ live' = [live EXCEPT ![a] = Append(live[a], b)]
          /\ arenas' = [arenas EXCEPT ![a].pos = pos]
      BY <1>1, <1>4 DEF CarenaAlloc
    <2>2. /\ PlacedIn(a, arenas[a].pos, live[a]) /\ arenas[a].pos \in Nat
          /\ size \in Nat \ {0} /\ align \in Nat \ {0} /\ RecordSound(arenas[a])
      BY <1>4, <2>1, IntactSound, ContiguousArenaAssumption
    <2>3. pos \in Nat
      BY <2>2, BumpedPast
    <2> HIDE DEF pos
    <2>4. CASE a = Observed
      <3>1. held' = Append(held, b) /\ held = live[a]
        BY <1>1, <1>2, <1>3, <2>1, <2>3, <2>4 DEF Held
      <3> QED
        BY <1>1, <2>2, <2>4, <3>1, PlacedIsFresh DEF Allocator!Acquire
    <2>5. CASE a # Observed
      BY <1>1, <1>2, <1>3, <2>1, <2>3, <2>5
    <2> QED
      BY <2>4, <2>5
  <1>5. ASSUME NEW a \in Exists, NEW i \in DOMAIN live[a], MemDealloc(a, i)
        PROVE  Allocator!Release \/ UNCHANGED held
    <2>1. /\ Intact(a) /\ live' = [live EXCEPT ![a] = RemoveAt(live[a], i)]
          /\ Exists' = Exists /\ \A b \in Exists : (Intact(b)' <=> Intact(b))
      BY <1>1, <1>5 DEF MemDealloc, Exists, Intact
    <2>2. CASE a = Observed
      <3>1. held' = RemoveAt(held, i) /\ i \in DOMAIN held
        BY <1>1, <1>2, <2>1, <2>2 DEF Held
      <3> QED
        BY <3>1 DEF RemoveAt, Allocator!Release, Allocator!RemoveAt
    <2>3. CASE a # Observed
      BY <1>1, <1>2, <2>1, <2>3
    <2> QED
      BY <2>2, <2>3
  <1>6. ASSUME NEW a \in Exists, NEW i \in DOMAIN live[a], NEW size \in Sizes,
               NEW align \in Alignments, MemRealloc(a, i, size, align)
        PROVE  Allocator!Exchange \/ UNCHANGED held
    <2> DEFINE rest == RemoveAt(live[a], i)
    <2>1. PICK from \in Nat : /\ PlacedIn(a, from, rest)
                              /\ live' = [live EXCEPT ![a] = Append(rest, BlockAt(a, from, size))]
      BY <1>6, ReallocSound
    <2>2. Intact(a) /\ Exists' = Exists /\ \A b \in Exists : (Intact(b)' <=> Intact(b))
      <3> DEFINE old == live[a][i]
                 start == IF EndsAtPosition(old) THEN old.off ELSE arenas[a].pos
                 alignment == IF EndsAtPosition(old) THEN AllocAlignment ELSE align
                 pos == Bumped(a, start, size, alignment)
      <3>1. Intact(a) /\ arenas' = [arenas EXCEPT ![a].pos = pos]
        BY <1>6 DEF MemRealloc
      <3>2. /\ RecordSound(arenas[a]) /\ start \in Nat
            /\ size \in Nat /\ alignment \in Nat \ {0}
        <4>1. /\ RecordSound(arenas[a]) /\ PlacedIn(a, arenas[a].pos, live[a])
              /\ arenas[a].pos \in Nat
          BY <3>1, IntactSound
        <4>2. old \in Block
          BY <4>1 DEF PlacedIn
        <4> QED
          BY <4>1, <4>2, ContiguousArenaAssumption DEF Block
      <3> HIDE DEF start, alignment
      <3>3. pos \in Nat
        BY <3>2, BumpedPast
      <3> HIDE DEF pos
      <3> QED
        BY <1>3, <3>1, <3>3
    <2>3. CASE a = Observed
      <3>1. /\ size \in Nat \ {0} /\ held = live[a]
            /\ held' = Append(rest, BlockAt(a, from, size))
        BY <1>1, <1>2, <2>1, <2>2, <2>3, ContiguousArenaAssumption DEF Held
      <3>2. Len(rest) + 1 = Len(held) /\ i \in DOMAIN held
        <4>1. held \in Seq(Block) /\ i \in 1 .. Len(held) /\ rest = RemoveAt(held, i)
          BY <1>1, <2>3, <3>1
        <4> HIDE DEF held, rest
        <4>2. Len(rest) = Len(held) - 1 /\ Len(held) \in Nat
          BY <4>1, RemoveAtElements
        <4> QED
          BY <4>1, <4>2
      <3>3. Allocator!RemoveAt(held, i) = rest
        BY <3>1 DEF RemoveAt, Allocator!RemoveAt
      <3> HIDE DEF rest, held
      <3>4. /\ Len(held') = Len(rest) + 1
            /\ \A j \in DOMAIN rest : held'[j] = rest[j]
            /\ Allocator!Fresh(held'[Len(held')], rest)
        BY <1>1, <2>1, <2>3, <3>1, PlacedIsFresh
      <3>5. Allocator!Exchange
        BY <3>2, <3>3, <3>4 DEF Allocator!Exchange, held
      <3> QED
        BY <3>5
    <2>4. CASE a # Observed
      BY <1>1, <1>2, <2>1, <2>2, <2>4
    <2> QED
      BY <2>3, <2>4
  <1>7. ASSUME NEW a \in Exists, NEW i \in DOMAIN live[a], CarenaRewind(a, i)
        PROVE  Allocator!ReleaseFrom \/ UNCHANGED held
    <2>1. Intact(a) /\ live' = [live EXCEPT ![a] = SubSeq(live[a], 1, i - 1)]
      BY <1>1, <1>7 DEF CarenaRewind
    <2>2. Exists' = Exists /\ \A b \in Exists : (Intact(b)' <=> Intact(b))
      <3> DEFINE pos == live[a][i].off
      <3>1. pos \in Nat
        <4>1. PlacedIn(a, arenas[a].pos, live[a])
          BY <2>1, IntactSound
        <4> QED
          BY <4>1, BlockEnds DEF PlacedIn
      <3>2. arenas' = [arenas EXCEPT ![a].pos = pos]
        BY <1>7 DEF CarenaRewind
      <3> HIDE DEF pos
      <3> QED
        BY <1>3, <2>1, <3>1, <3>2
    <2>3. CASE a = Observed
      <3>1. held' = SubSeq(held, 1, i - 1) /\ i \in DOMAIN held
        BY <1>1, <1>2, <2>1, <2>2, <2>3 DEF Held
      <3> QED
        BY <3>1 DEF Allocator!ReleaseFrom
    <2>4. CASE a # Observed
      BY <1>1, <1>2, <2>1, <2>2, <2>4
    <2> QED
      BY <2>3, <2>4
  <1>8. held \in Seq(Block)
    BY <1>1 DEF Held
  <1>9. ASSUME held' = << >>
        PROVE  Allocator!ReleaseFrom \/ UNCHANGED held
    <2>1. CASE held = << >>
      BY <1>9, <2>1
    <2>2. CASE held # << >>
      <3>1. 1 \in DOMAIN held /\ SubSeq(held, 1, 1 - 1) = << >>
        BY <1>8, <2>2
      <3> QED
        BY <1>9, <3>1 DEF Allocator!ReleaseFrom
    <2> QED
      BY <2>1, <2>2
  <1>10. ASSUME NEW a \in Exists, CarenaReset(a)
         PROVE  held' = << >> \/ UNCHANGED held
    <2>1. live' = [live EXCEPT ![a] = << >>] /\ Exists' = Exists
      BY <1>10, ResetChanges DEF CarenaReset
    <2>2. CASE Observed = a
      BY <1>1, <2>1, <2>2 DEF Held
    <2>3. CASE Observed # a
      <3>1. live'[Observed] = live[Observed]
        BY <1>1, <2>1, <2>3
      <3>2. Observed \in Exists => arenas'[Observed] = arenas[Observed] \/ ~ Intact(Observed)'
        BY <1>10, <2>3, ResetChanges
      <3> QED
        BY <2>1, <3>1, <3>2 DEF Held, Intact
    <2> QED
      BY <2>2, <2>3
  <1>11. ASSUME NEW a \in Exists, CarenaDelete(a)
         PROVE  held' = << >> \/ UNCHANGED held
    <2>1. /\ live' = [live EXCEPT ![a] = << >>] /\ Exists' = Exists \ {a}
          /\ \A b \in Exists \ {a} : arenas'[b] = arenas[b]
      BY <1>11 DEF CarenaDelete, Exists
    <2> QED
      BY <1>1, <2>1 DEF Held, Intact
  <1>12. ASSUME NEW a \in Arenas, NEW size \in Capacities, NEW first \in Pages,
                CarenaNew(a, size, first)
         PROVE  UNCHANGED held
    <2>1. /\ live' = live /\ Exists' = Exists \cup {a} /\ live[a] = << >> /\ a \notin Exists
          /\ \A b \in Exists : arenas'[b] = arenas[b]
      BY <1>12 DEF CarenaNew, Exists, CarenaInv, BlocksPlaced
    <2> QED
      BY <2>1 DEF Held, Intact
  <1>13. CASE UNCHANGED vars
    BY <1>13 DEF vars, Held, Intact, Exists
  <1>14. CASE Next
    BY <1>4, <1>5, <1>6, <1>7, <1>9, <1>10, <1>11, <1>12, <1>14 DEF Next, Allocator!Next
  <1> QED
    BY <1>13, <1>14

(* Only a reset takes an arena's structure, that of the arena it is mapped *)
(* right behind.                                                           *)
LEMMA OnlyNeighbourTakes ==
  ASSUME CarenaInv, [Next]_vars, LosesStructure(Observed)
  PROVE  \E a \in Exists : CarenaReset(a) /\ Intact(a) /\ RightBehind(Observed, a)
  <1> DEFINE b == Observed
  <1>1. /\ b \in Exists /\ Intact(b) /\ b \in Exists' /\ ~ Intact(b)'
        /\ arenas[b] \in ArenaRecord
    BY DEF LosesStructure, CarenaInv, ArenasSound
  <1>2. ASSUME NEW a \in Exists, NEW pos, arenas' = [arenas EXCEPT ![a].pos = pos]
        PROVE  FALSE
    <2> DEFINE r == arenas[b]
               s == [r EXCEPT !.pos = pos]
    <2>1. arenas'[b] = s \/ arenas'[b] = r
      BY <1>1, <1>2 DEF Exists
    <2>2. r.cap # 0 /\ r \in ArenaRecord /\ arenas'[b].cap = 0
      BY <1>1 DEF Intact
    <2> HIDE DEF r
    <2>3. s.cap = r.cap
      BY <2>2 DEF ArenaRecord
    <2> HIDE DEF s
    <2> QED
      BY <2>1, <2>2, <2>3
  <1>3. arenas'[b] # arenas[b]
    BY <1>1 DEF Intact
  <1>4. ASSUME NEW a \in Exists, CarenaReset(a)
        PROVE  Intact(a) /\ RightBehind(b, a)
    <2>1. a # b
      BY <1>1, <1>4, ResetChanges
    <2>2. arenas[b].first \in DiscardedPages(a)
      BY <1>1, <1>3, <1>4, <2>1, ResetChanges
    <2>3. arenas[b].first \in PagesOf(b)
      BY <1>1 DEF PagesOf, ArenaRecord, Pages
    <2> QED
      BY <1>1, <2>1, <2>2, <2>3, ResetReaches
  <1>5. ASSUME NEW a \in Arenas, NEW size \in Capacities, NEW first \in Pages,
               CarenaNew(a, size, first)
        PROVE  FALSE
    BY <1>1, <1>3, <1>5 DEF CarenaNew, Exists
  <1>6. ASSUME NEW a \in Exists, CarenaDelete(a) PROVE FALSE
    BY <1>1, <1>3, <1>6 DEF CarenaDelete, Exists
  <1>7. ASSUME NEW a \in Exists, NEW i \in DOMAIN live[a], MemDealloc(a, i) PROVE FALSE
    BY <1>3, <1>7 DEF MemDealloc
  <1>8. ASSUME NEW a \in Exists, NEW i \in DOMAIN live[a], CarenaRewind(a, i) PROVE FALSE
    BY <1>2, <1>8 DEF CarenaRewind
  <1>9. ASSUME NEW a \in Exists, NEW size \in Sizes, NEW align \in Alignments,
               CarenaAlloc(a, size, align)
        PROVE  FALSE
    BY <1>2, <1>9 DEF CarenaAlloc
  <1>10. ASSUME NEW a \in Exists, NEW i \in DOMAIN live[a], NEW size \in Sizes,
                NEW align \in Alignments, MemRealloc(a, i, size, align)
         PROVE  FALSE
    BY <1>2, <1>10 DEF MemRealloc
  <1>11. ~ UNCHANGED vars
    BY <1>3 DEF vars
  <1> HIDE DEF b
  <1> QED
    BY <1>4, <1>5, <1>6, <1>7, <1>8, <1>9, <1>10, <1>11 DEF Next, b

(* A contiguous arena keeps the promises of an allocator while it has its  *)
(* structure: a block handed out shares no byte with another, also when it *)
(* takes the place of the last one. Whatever is done with the other arenas *)
(* takes nothing from it, but for a reset of the arena that it is mapped   *)
(* right behind: that takes its structure, and all it handed out.          *)
THEOREM CarenaImplementsAllocator == Spec => ImplementsAllocator
  <1> DEFINE Blamed == LosesStructure(Observed) =>
               \E a \in Exists : CarenaReset(a) /\ Intact(a) /\ RightBehind(Observed, a)
  <1>1. Init => Allocator!Init
    BY ContiguousArenaAssumption DEF Init, Allocator!Init, Held, Exists
  <1>2. CarenaInv /\ [Next]_vars => [Allocator!Next]_(Held(Observed))
    BY StepRefines
  <1>3. CarenaInv /\ [Next]_vars => [Blamed]_vars
    BY OnlyNeighbourTakes
  <1>4. Spec => Allocator!Spec
    BY <1>1, <1>2, CarenaInvariant, PTL DEF Spec, Allocator!Spec
  <1>5. Spec => [][Blamed]_vars
    BY <1>3, CarenaInvariant, PTL DEF Spec
  <1> QED
    BY <1>4, <1>5 DEF ImplementsAllocator

(***************************************************************************)
(* Scopes                                                                  *)
(***************************************************************************)
(* Clients call gp_end themselves, but for scopes left to the destructor.  *)
EndsAreCalled == "deferred ends" \notin Habits

Frame == [kind : {"end", "delete"}, scope : Nat, child : Nat, left : Nat]

Typed ==
  /\ scopes \in Seq(ScopeRecord)
  /\ last \in 0 .. Len(scopes)
  /\ stack \in Seq(Frame \cup {Callback})
  /\ phase \in {"running", "destroying", "exiting", "gone"}
  /\ passes \in Nat

Depth == Len(stack)

(* Does the client's code run, or the thread library's at the very bottom? *)
ClientOnTop == Depth # 0 => stack[Depth] = Callback

(* The scopes begun by the function that has d frames under it.            *)
At(d) == {s \in Live : scopes[s].depth = d}

IsNewest(s, S) == s \in S /\ \A t \in S : t <= s

OnlyClients(s) == \A i \in DOMAIN scopes[s].defers : scopes[s].defers[i] = Client

(* Calls and callbacks take turns, and only an exit deletes.               *)
StackSound ==
  /\ Depth # 0 => stack[1] # Callback
  /\ \A i \in 1 .. Depth - 1 : stack[i + 1] = Callback <=> stack[i] # Callback
  /\ \A i \in 1 .. Depth :
       stack[i] # Callback => (stack[i].kind = "delete" <=> i = 1 /\ phase # "running")
  /\ phase = "gone" => Depth = 0

(* A call in progress works on the newest scope of its caller.             *)
FrameSound(i) ==
  LET f == stack[i] IN
  /\ IsNewest(f.child, At(i - 1))
  /\ Len(scopes[f.child].ran) + f.left = Len(scopes[f.child].defers)
  /\ f.kind = "end" =>
       /\ f.scope \in At(i - 1)
       /\ \A t \in Live : t >= f.scope => OnlyClients(t)
  /\ phase = "exiting" => \A t \in Live : OnlyClients(t)

FramesSound == \A i \in 1 .. Depth : stack[i] # Callback => FrameSound(i)

(* Functions that find no scope when they begin.                           *)
AtBottom(d) == d = 0 \/ (d = 2 /\ phase = "destroying")

LastSound ==
  IF ClientOnTop
  THEN /\ \A t \in At(Depth) : last \in At(Depth) /\ t <= last
       /\ last \notin At(Depth) /\ last # NoScope =>
            \/ ~ AtBottom(Depth) /\ scopes[last].depth < Depth - 1
            \/ phase \in {"exiting", "gone"} /\ Depth = 0
  ELSE last # NoScope =>
         /\ scopes[last].depth < Depth
         /\ Depth = 1 => phase # "destroying"

ParentSound(s) ==
  LET p == scopes[s].parent
      d == scopes[s].depth
  IN  /\ p < s
      /\ p \in At(d) \/ \A t \in At(d) : s <= t
      /\ \A t \in At(d) : t < s => t <= p
      /\ p # NoScope /\ p \notin At(d) => ~ AtBottom(d) /\ scopes[p].depth < d - 1

ParentsSound == \A s \in Live : ParentSound(s)

PlacedSound ==
  /\ \A s \in Live : LET d == scopes[s].depth
                     IN  d # 0 => d <= Depth /\ stack[d] = Callback
  /\ \A s, t \in Live : scopes[s].depth < scopes[t].depth => s < t

RanSound(s) ==
  /\ \A i \in DOMAIN scopes[s].ran : scopes[s].ran[i] = Len(scopes[s].defers) + 1 - i
  /\ s \notin Live => Len(scopes[s].ran) = Len(scopes[s].defers)
  /\ s \in Live \ Executing => scopes[s].ran = << >>

RansSound == \A s \in DOMAIN scopes : RanSound(s)

EndSound ==
  /\ passes # 0 => phase \in {"destroying", "gone"} /\ (Depth = 0 => last = NoScope)
  /\ phase \in {"gone", "exiting"} /\ Depth = 0 => Live = {}

ScopeInv ==
  /\ Typed /\ StackSound /\ PlacedSound /\ FramesSound /\ LastSound /\ ParentsSound
  /\ RansSound /\ EndSound

------------------------------------------------------------------------------

(* What the parts of a scope are.                                          *)
LEMMA ScopeTypes ==
  ASSUME Typed
  PROVE  /\ DOMAIN scopes = 1 .. Len(scopes) /\ Len(scopes) \in Nat
         /\ \A s \in DOMAIN scopes :
              /\ scopes[s] \in ScopeRecord
              /\ scopes[s].parent \in Nat /\ scopes[s].depth \in Nat
              /\ scopes[s].defers \in Seq(Nat) /\ Len(scopes[s].defers) \in Nat
              /\ scopes[s].ran \in Seq(Nat) /\ Len(scopes[s].ran) \in Nat
              /\ scopes[s].freed \in BOOLEAN
         /\ Live \subseteq DOMAIN scopes
  <1>1. scopes \in Seq(ScopeRecord)
    BY DEF Typed
  <1>2. DOMAIN scopes = 1 .. Len(scopes) /\ Len(scopes) \in Nat
    BY <1>1
  <1>3. ASSUME NEW s \in DOMAIN scopes
        PROVE  scopes[s] \in ScopeRecord
    BY <1>1, <1>2
  <1>4. ASSUME NEW r \in ScopeRecord
        PROVE  /\ r.parent \in Nat /\ r.depth \in Nat /\ r.freed \in BOOLEAN
               /\ r.defers \in Seq(Nat) /\ Len(r.defers) \in Nat
               /\ r.ran \in Seq(Nat) /\ Len(r.ran) \in Nat
    <2>1. /\ r.parent \in Nat /\ r.depth \in Nat /\ r.freed \in BOOLEAN
          /\ r.defers \in Seq(Nat) /\ r.ran \in Seq(Nat)
      BY <1>4 DEF ScopeRecord
    <2> QED
      BY <2>1
  <1> QED
    BY <1>2, <1>3, <1>4 DEF Live

(* Scopes are numbers, and none is NoScope.                                *)
LEMMA IndexTypes ==
  ASSUME Typed
  PROVE  \A s \in DOMAIN scopes : s \in Nat /\ s # 0 /\ s <= Len(scopes)
  <1>1. DOMAIN scopes = 1 .. Len(scopes) /\ Len(scopes) \in Nat
    BY ScopeTypes
  <1> QED
    BY <1>1

(* What is on the stack are calls and callbacks.                           *)
LEMMA StackTypes ==
  ASSUME Typed
  PROVE  /\ DOMAIN stack = 1 .. Depth /\ Depth \in Nat /\ Depth = Len(stack)
         /\ stack = << >> <=> Depth = 0
         /\ \A i \in 1 .. Depth :
              /\ stack[i] \in Frame \cup {Callback}
              /\ stack[i] # Callback =>
                   /\ stack[i] \in Frame
                   /\ stack[i].kind \in {"end", "delete"}
                   /\ stack[i].child \in Nat /\ stack[i].scope \in Nat
                   /\ stack[i].left \in Nat
  <1>1. stack \in Seq(Frame \cup {Callback})
    BY DEF Typed
  <1>2. DOMAIN stack = 1 .. Depth /\ Depth \in Nat /\ (stack = << >> <=> Depth = 0)
    BY <1>1 DEF Depth
  <1>3. \A i \in 1 .. Depth : stack[i] \in Frame \cup {Callback}
    BY <1>1, <1>2 DEF Depth
  <1>4. \A f \in Frame : /\ f.kind \in {"end", "delete"} /\ f.child \in Nat
                         /\ f.scope \in Nat /\ f.left \in Nat
    BY DEF Frame
  <1> QED
    BY <1>2, <1>3, <1>4 DEF Depth

(* One scope is freed.                                                     *)
LEMMA ScopesFreed ==
  ASSUME Typed, NEW s \in DOMAIN scopes, scopes' = [scopes EXCEPT ![s].freed = TRUE]
  PROVE  /\ scopes' \in Seq(ScopeRecord) /\ Len(scopes') = Len(scopes)
         /\ DOMAIN scopes' = DOMAIN scopes
         /\ Live' = Live \ {s}
         /\ \A t \in DOMAIN scopes :
              /\ scopes'[t].parent = scopes[t].parent /\ scopes'[t].depth = scopes[t].depth
              /\ scopes'[t].defers = scopes[t].defers /\ scopes'[t].ran = scopes[t].ran
  <1>1. scopes[s] \in ScopeRecord /\ scopes \in Seq(ScopeRecord)
    BY ScopeTypes DEF Typed
  <1>2. [scopes[s] EXCEPT !.freed = TRUE] \in ScopeRecord
    BY <1>1 DEF ScopeRecord
  <1>3. scopes' = [scopes EXCEPT ![s] = [scopes[s] EXCEPT !.freed = TRUE]]
    OBVIOUS
  <1>4. /\ scopes' \in Seq(ScopeRecord) /\ Len(scopes') = Len(scopes)
        /\ DOMAIN scopes' = DOMAIN scopes
    BY <1>1, <1>2, <1>3
  <1>5. ASSUME NEW t \in DOMAIN scopes
        PROVE  /\ scopes'[t].parent = scopes[t].parent /\ scopes'[t].depth = scopes[t].depth
               /\ scopes'[t].defers = scopes[t].defers /\ scopes'[t].ran = scopes[t].ran
               /\ t # s => scopes'[t].freed = scopes[t].freed
               /\ scopes'[s].freed = TRUE
    <2> DEFINE r == [scopes[s] EXCEPT !.freed = TRUE]
    <2>1. /\ r.parent = scopes[s].parent /\ r.depth = scopes[s].depth
          /\ r.defers = scopes[s].defers /\ r.ran = scopes[s].ran /\ r.freed = TRUE
      BY <1>1 DEF ScopeRecord
    <2>2. scopes'[s] = r /\ (t # s => scopes'[t] = scopes[t])
      BY <1>3
    <2> QED
      BY <2>1, <2>2
  <1>6. Live' = Live \ {s}
    BY <1>4, <1>5 DEF Live
  <1> QED
    BY <1>4, <1>5, <1>6

(* A call or callback is added to those in progress.                       *)
LEMMA StackPushed ==
  ASSUME Typed, NEW f \in Frame \cup {Callback}, stack' = stack \o << f >>
  PROVE  /\ stack' \in Seq(Frame \cup {Callback}) /\ Depth' = Depth + 1
         /\ stack'[Depth + 1] = f
         /\ \A i \in 1 .. Depth : stack'[i] = stack[i]
  BY DEF Typed, Depth

(* The last of them changes ...                                            *)
LEMMA StackChanged ==
  ASSUME Typed, Depth # 0, NEW f \in Frame, stack' = WithTop(f)
  PROVE  /\ stack' \in Seq(Frame \cup {Callback}) /\ Depth' = Depth
         /\ stack'[Depth] = f
         /\ \A i \in 1 .. Depth : i # Depth => stack'[i] = stack[i]
  BY DEF Typed, Depth, WithTop

(* A sequence without its last element.                                    *)
LEMMA FrontOf ==
  ASSUME NEW S, NEW s \in Seq(S), Len(s) # 0
  PROVE  /\ Front(s) \in Seq(S) /\ Len(Front(s)) = Len(s) - 1
         /\ \A i \in 1 .. Len(s) - 1 : Front(s)[i] = s[i]
  <1>1. Front(s) = SubSeq(s, 1, Len(s) - 1)
    BY DEF Front
  <1> DEFINE m == Len(s) - 1
  <1>2. m \in Nat /\ m <= Len(s) /\ Len(s) \in Nat
    OBVIOUS
  <1> HIDE DEF m
  <1>3. /\ SubSeq(s, 1, m) \in Seq(S) /\ Len(SubSeq(s, 1, m)) = m
        /\ \A i \in 1 .. m : SubSeq(s, 1, m)[i] = s[i]
    BY <1>2
  <1> QED
    BY <1>1, <1>3 DEF m

(* ... or returns.                                                         *)
LEMMA StackPopped ==
  ASSUME Typed, Depth # 0, stack' = Front(stack)
  PROVE  /\ stack' \in Seq(Frame \cup {Callback}) /\ Depth' = Depth - 1
         /\ \A i \in 1 .. Depth - 1 : stack'[i] = stack[i]
  BY FrontOf DEF Typed, Depth

(* The scopes whose deferred functions run, by the calls that run them.    *)
IsExecuting(s) == \E i \in 1 .. Depth : stack[i] # Callback /\ s = stack[i].child

(* A scope is executing if some call on the stack works on it.             *)
LEMMA ExecutingNow == Typed => \A s : s \in Executing <=> IsExecuting(s)
  BY StackTypes DEF Executing, IsExecuting

(* The same after a step.                                                  *)
LEMMA ExecutingNext == Typed' => \A s : s \in Executing' <=> IsExecuting(s)'
  <1>1. (Typed => \A s : s \in Executing <=> IsExecuting(s))'
    BY ExecutingNow, PTL
  <1> QED
    BY <1>1

(* Neighbours among the first n of m are neighbours among the m.           *)
LEMMA NeighboursOfPrefix ==
  ASSUME NEW m \in Nat, NEW n \in 0 .. m, NEW i \in 1 .. n - 1
  PROVE  i \in 1 .. n /\ i + 1 \in 1 .. n /\ i \in 1 .. m - 1
  OBVIOUS

(* Of calls and callbacks that take turns, the first do.                   *)
LEMMA PrefixSound ==
  ASSUME StackSound, Depth \in Nat, Depth' \in 0 .. Depth,
         \A i \in 1 .. Depth' : /\ stack'[i] = Callback <=> stack[i] = Callback
                                /\ stack'[i].kind = stack[i].kind,
         phase' = phase
  PROVE  StackSound'
  <1>1. Depth' # 0 => stack'[1] # Callback
    BY DEF StackSound
  <1>2. ASSUME NEW i \in 1 .. Depth' - 1
        PROVE  stack'[i + 1] = Callback <=> stack'[i] # Callback
    <2>1. i \in 1 .. Depth' /\ i + 1 \in 1 .. Depth' /\ i \in 1 .. Depth - 1
      BY NeighboursOfPrefix
    <2>2. stack[i + 1] = Callback <=> stack[i] # Callback
      BY <2>1 DEF StackSound
    <2> QED
      BY <2>1, <2>2
  <1>3. ASSUME NEW i \in 1 .. Depth', stack'[i] # Callback
        PROVE  stack'[i].kind = "delete" <=> i = 1 /\ phase' # "running"
    <2>1. /\ i \in 1 .. Depth /\ stack'[i].kind = stack[i].kind
          /\ stack'[i] = Callback <=> stack[i] = Callback
      OBVIOUS
    <2>2. stack[i] # Callback => (stack[i].kind = "delete" <=> i = 1 /\ phase # "running")
      BY <2>1 DEF StackSound
    <2> QED
      BY <1>3, <2>1, <2>2
  <1>4. phase' = "gone" => Depth' = 0
    BY DEF StackSound
  <1> QED
    BY <1>1, <1>2, <1>3, <1>4 DEF StackSound

(* A call in progress stays sound when its scopes do and others that may   *)
(* come with them leave no ends to it.                                     *)
LEMMA FrameKept ==
  ASSUME NEW i, FrameSound(i), stack'[i] = stack[i], phase' = phase,
         At(i - 1)' \subseteq At(i - 1),
         stack[i].child \in At(i - 1)',
         stack[i].kind = "end" => stack[i].scope \in At(i - 1)',
         Len(scopes'[stack[i].child].ran) = Len(scopes[stack[i].child].ran),
         Len(scopes'[stack[i].child].defers) = Len(scopes[stack[i].child].defers),
         \A t \in Live' : OnlyClients(t)' \/ (t \in Live /\ ~ OnlyClients(t))
  PROVE  FrameSound(i)'
  BY DEF FrameSound, IsNewest

(* The parent of a scope stays sound when others of its function go.       *)
LEMMA ParentKept ==
  ASSUME NEW s, ParentSound(s), NEW p, NEW d, p = scopes[s].parent, d = scopes[s].depth,
         p = scopes'[s].parent, d = scopes'[s].depth,
         At(d)' \subseteq At(d), p \in At(d) => p \in At(d)',
         p # NoScope => scopes'[p].depth = scopes[p].depth,
         phase' = phase
  PROVE  ParentSound(s)'
  BY DEF ParentSound, AtBottom

(* Nothing has begun.                                                      *)
LEMMA ScopeInitSound == ScopeInit => ScopeInv
  <1> SUFFICES ASSUME ScopeInit PROVE ScopeInv
    OBVIOUS
  <1>1. Typed
    BY DEF ScopeInit, Typed, NoScope
  <1>2. Live = {} /\ DOMAIN scopes = {} /\ Depth = 0 /\ last = NoScope /\ passes = 0
        /\ phase = "running"
    BY DEF ScopeInit, Live, Depth
  <1> HIDE DEF Live, Depth
  <1> QED
    BY <1>1, <1>2
    DEF ScopeInv, FramesSound, ParentsSound, RansSound, StackSound, PlacedSound, LastSound,
        ClientOnTop, EndSound, At

(* A deferred function returns.                                            *)
LEMMA CallbackReturnsKeeps == ScopeInv /\ CallbackReturns => ScopeInv'
  <1> SUFFICES ASSUME ScopeInv, CallbackReturns PROVE ScopeInv'
    OBVIOUS
  <1> DEFINE n == Depth
  <1>1. Typed
    BY DEF ScopeInv
  <1>2. /\ n # 0 /\ stack[n] = Callback
        /\ \A s \in Live : scopes[s].depth # n
        /\ stack' = Front(stack)
        /\ scopes' = scopes /\ last' = last /\ phase' = phase /\ passes' = passes
    BY <1>1, StackTypes DEF CallbackReturns, Top
  <1>3. /\ stack' \in Seq(Frame \cup {Callback}) /\ Depth' = n - 1
        /\ \A i \in 1 .. n - 1 : stack'[i] = stack[i]
    BY <1>1, <1>2, StackPopped
  <1>4. n \in Nat /\ n # 1 /\ n - 1 \in 1 .. n /\ stack[n - 1] # Callback
    BY <1>1, <1>2, StackTypes DEF ScopeInv, StackSound
  <1>5. Live' = Live /\ \A d : At(d)' = At(d)
    BY <1>2 DEF Live, At
  <1>6. Typed'
    BY <1>1, <1>2, <1>3 DEF Typed
  <1>7. StackSound'
    BY <1>2, <1>3, <1>4, PrefixSound DEF ScopeInv
  <1>8. PlacedSound'
    BY <1>1, <1>2, <1>3, <1>4, <1>5, ScopeTypes DEF ScopeInv, PlacedSound
  <1>9. FramesSound'
    BY <1>2, <1>3, <1>4, <1>5 DEF ScopeInv, FramesSound, FrameSound, OnlyClients, IsNewest
  <1>10. LastSound'
    BY <1>2, <1>3, <1>4, <1>5 DEF ScopeInv, LastSound, ClientOnTop, At, AtBottom
  <1>11. ParentsSound'
    BY <1>2, <1>5 DEF ScopeInv, ParentsSound, ParentSound, AtBottom
  <1>12. \A s : s \in Executing' <=> s \in Executing
    <2>1. \A s : IsExecuting(s)' <=> IsExecuting(s)
      BY <1>2, <1>3, <1>4 DEF IsExecuting
    <2> QED
      BY <1>1, <1>6, <2>1, ExecutingNow, ExecutingNext
  <1>13. RansSound'
    BY <1>2, <1>5, <1>12 DEF ScopeInv, RansSound, RanSound
  <1>14. EndSound'
    BY <1>2, <1>3, <1>4, <1>5 DEF ScopeInv, EndSound
  <1> QED
    BY <1>6, <1>7, <1>8, <1>9, <1>10, <1>11, <1>13, <1>14 DEF ScopeInv

(* The top call frees the scope it works on; what is under it stays.       *)
FreesChild(c) ==
  /\ Depth # 0 /\ Top # Callback /\ Top.left = 0 /\ c = Top.child
  /\ scopes' = [scopes EXCEPT ![c].freed = TRUE]
  /\ phase' = phase /\ passes' = passes
  /\ Depth' \in {Depth, Depth - 1}
  /\ \A i \in 1 .. Depth - 1 : stack'[i] = stack[i]

(* That leaves sound what does not depend on where the call goes on.       *)
LEMMA ChildFreed ==
  ASSUME ScopeInv, NEW c, FreesChild(c), NEW n, n = Depth
  PROVE  /\ n \in Nat \ {0} /\ n \in 1 .. n /\ stack[n] = Top /\ Top \in Frame
         /\ c \in At(n - 1) /\ c \in Live /\ c \in DOMAIN scopes /\ c \in Nat
         /\ scopes[c].depth = n - 1 /\ IsNewest(c, At(n - 1)) /\ FrameSound(n)
         /\ scopes' \in Seq(ScopeRecord) /\ Len(scopes') = Len(scopes)
         /\ DOMAIN scopes' = DOMAIN scopes /\ Live' = Live \ {c}
         /\ \A s \in DOMAIN scopes :
              /\ scopes'[s].parent = scopes[s].parent /\ scopes'[s].depth = scopes[s].depth
              /\ scopes'[s].defers = scopes[s].defers /\ scopes'[s].ran = scopes[s].ran
         /\ \A d : At(d)' = At(d) \ {c}
         /\ \A s \in Live' : scopes'[s].depth # 0 =>
              scopes'[s].depth <= n - 1 /\ stack'[scopes'[s].depth] = Callback
         /\ \A r, s \in Live' : scopes'[r].depth < scopes'[s].depth => r < s
         /\ \A i \in 1 .. n - 1 : stack'[i] # Callback => FrameSound(i)'
         /\ \A s \in Live' : OnlyClients(s)' \/ (s \in Live /\ ~ OnlyClients(s))
         /\ ParentsSound'
         /\ Typed' => RansSound'
  <1>1. /\ Typed /\ n \in Nat \ {0} /\ stack[n] = Top /\ Top \in Frame /\ n \in 1 .. n
        /\ phase' = phase /\ Top # Callback /\ n - 1 \in Nat
        /\ \A i \in 1 .. n - 1 : stack'[i] = stack[i] /\ i \in 1 .. n
    BY StackTypes DEF ScopeInv, Top, Depth, FreesChild
  <1>2. /\ IsNewest(c, At(n - 1)) /\ FrameSound(n)
        /\ Len(scopes[c].ran) = Len(scopes[c].defers)
    <2>1. FrameSound(n)
      BY <1>1 DEF ScopeInv, FramesSound
    <2>2. IsNewest(c, At(n - 1)) /\ Len(scopes[c].ran) + 0 = Len(scopes[c].defers)
      BY <1>1, <2>1 DEF FrameSound, FreesChild
    <2>3. c \in DOMAIN scopes
      BY <2>2 DEF IsNewest, At, Live
    <2> QED
      BY <1>1, <2>1, <2>2, <2>3, ScopeTypes
  <1>3. /\ c \in Live /\ c \in DOMAIN scopes /\ c \in Nat /\ scopes[c].depth = n - 1
        /\ c \in At(n - 1)
    <2>1. /\ c \in Live /\ c \in DOMAIN scopes /\ scopes[c].depth = n - 1
          /\ c \in At(n - 1)
      BY <1>2 DEF IsNewest, At, Live
    <2> QED
      BY <1>1, <2>1, ScopeTypes
  <1>4. /\ scopes' \in Seq(ScopeRecord) /\ Len(scopes') = Len(scopes)
        /\ DOMAIN scopes' = DOMAIN scopes
        /\ Live' = Live \ {c}
        /\ \A t \in DOMAIN scopes :
             /\ scopes'[t].parent = scopes[t].parent /\ scopes'[t].depth = scopes[t].depth
             /\ scopes'[t].defers = scopes[t].defers /\ scopes'[t].ran = scopes[t].ran
    BY <1>1, <1>3, ScopesFreed DEF FreesChild
  <1>5. \A d : At(d)' = At(d) \ {c}
    BY <1>1, <1>4, ScopeTypes DEF At
  <1>6. /\ Live \subseteq DOMAIN scopes
        /\ \A s \in DOMAIN scopes :
             s \in Nat /\ scopes[s].depth \in Nat /\ scopes[s].parent \in Nat
    BY <1>1, ScopeTypes
  <1>7. ASSUME NEW s \in Live', scopes'[s].depth # 0
        PROVE  scopes'[s].depth <= n - 1 /\ stack'[scopes'[s].depth] = Callback
    <2>1. /\ s \in Live /\ scopes'[s].depth = scopes[s].depth /\ scopes[s].depth \in Nat
      BY <1>4, <1>6
    <2>2. scopes[s].depth <= n /\ stack[scopes[s].depth] = Callback
      BY <1>7, <2>1 DEF ScopeInv, PlacedSound
    <2>3. scopes[s].depth \in 1 .. n - 1
      BY <1>1, <1>7, <2>1, <2>2
    <2> QED
      BY <1>1, <2>1, <2>2, <2>3
  <1>8. \A r, s \in Live' : scopes'[r].depth < scopes'[s].depth => r < s
    BY <1>4, <1>6 DEF ScopeInv, PlacedSound
  <1>9. \A s \in Live' : OnlyClients(s)' \/ (s \in Live /\ ~ OnlyClients(s))
    BY <1>4, <1>6 DEF OnlyClients
  <1>10. ASSUME NEW i \in 1 .. n - 1, stack'[i] # Callback
         PROVE  FrameSound(i)'
    <2>1. FrameSound(i)
      BY <1>1, <1>10 DEF ScopeInv, FramesSound
    <2>2. /\ stack[i].child \in At(i - 1) /\ stack[i].child \in DOMAIN scopes
          /\ stack[i].kind = "end" => stack[i].scope \in At(i - 1)
      BY <1>6, <2>1 DEF FrameSound, IsNewest, At
    <2>3. c \notin At(i - 1)
      BY <1>1, <1>3, <1>10 DEF At
    <2>4. stack'[i] = stack[i] /\ At(i - 1)' = At(i - 1)
      BY <1>1, <1>5, <2>3
    <2> QED
      BY <1>1, <1>4, <1>9, <2>1, <2>2, <2>4, FrameKept
  <1>11. ASSUME Typed', NEW s \in DOMAIN scopes
         PROVE  RanSound(s)'
    <2>1. ASSUME s # c, IsExecuting(s)
          PROVE  IsExecuting(s)'
      <3>1. PICK i \in 1 .. n : stack[i] # Callback /\ s = stack[i].child
        BY <2>1 DEF IsExecuting
      <3>2. i \in 1 .. n - 1
        BY <1>1, <2>1, <3>1 DEF FreesChild
      <3>3. Depth' \in {n, n - 1}
        BY DEF FreesChild
      <3> QED
        BY <1>1, <3>1, <3>2, <3>3 DEF IsExecuting
    <2>2. s \in Live' \ Executing' => s \in Live \ Executing
      BY <1>1, <1>4, <1>11, <2>1, ExecutingNow, ExecutingNext
    <2>3. s \notin Live' => s = c \/ s \notin Live
      BY <1>4
    <2>4. RanSound(s)
      BY DEF ScopeInv, RansSound
    <2> QED
      BY <1>2, <1>4, <2>2, <2>3, <2>4 DEF RanSound
  <1>12. ParentsSound'
    <2>1. ASSUME NEW s \in Live'
          PROVE  ParentSound(s)'
      <3>1. PICK q, d : q = scopes[s].parent /\ d = scopes[s].depth
        OBVIOUS
      <3>2. s \in Live /\ s # c /\ s \in DOMAIN scopes /\ s \in At(d)
        BY <1>4, <1>6, <2>1, <3>1 DEF At
      <3>3. ParentSound(s)
        BY <3>2 DEF ScopeInv, ParentsSound
      <3>4. q # NoScope => q \in DOMAIN scopes
        BY <1>1, <1>6, <3>1, <3>2, <3>3, ScopeTypes DEF ParentSound, NoScope
      <3>5. q = c => q \notin At(d)
        <4>1. SUFFICES ASSUME q = c, q \in At(d) PROVE FALSE
          OBVIOUS
        <4>2. d = n - 1
          BY <1>3, <4>1 DEF At
        <4>3. s <= c /\ c < s
          BY <1>2, <3>1, <3>2, <3>3, <4>1, <4>2 DEF IsNewest, ParentSound
        <4> QED
          BY <1>3, <1>6, <3>2, <4>3
      <3> QED
        BY <1>1, <1>4, <1>5, <3>1, <3>2, <3>3, <3>4, <3>5, ParentKept
    <2> QED
      BY <2>1 DEF ParentsSound
  <1> QED
    BY <1>1, <1>2, <1>3, <1>4, <1>5, <1>7, <1>8, <1>9, <1>10, <1>11, <1>12 DEF RansSound

(* It goes on to the scope's parent ...                                    *)
FreesAndGoesOn(c) ==
  /\ Depth # 0 /\ Top # Callback /\ Top.left = 0 /\ c = Top.child
  /\ scopes[c].parent \in At(Depth - 1)
  /\ Top.kind = "end" => Top.scope # c
  /\ scopes' = [scopes EXCEPT ![c].freed = TRUE]
  /\ stack' = WithTop(OnToParent(Top))
  /\ UNCHANGED << last, phase, passes >>

(* A call that frees its scope and goes on to the parent keeps the         *)
(* invariant.                                                              *)
LEMMA FreedAndOn ==
  ASSUME ScopeInv, NEW c, FreesAndGoesOn(c)
  PROVE  ScopeInv'
  <1>1. PICK n, p, f : n = Depth /\ p = scopes[c].parent /\ f = OnToParent(Top)
    OBVIOUS
  <1>2. /\ Typed /\ n \in Nat \ {0} /\ n - 1 \in Nat /\ stack[n] = Top /\ Top \in Frame
        /\ Top # Callback /\ c = Top.child /\ Top.left = 0
        /\ Top.kind = "end" => Top.scope # c
        /\ last' = last /\ phase' = phase /\ passes' = passes
    BY <1>1, StackTypes DEF ScopeInv, Top, Depth, FreesAndGoesOn
  <1>3. /\ p \in At(n - 1) /\ p \in Live /\ p \in DOMAIN scopes /\ p \in Nat
        /\ scopes[p].depth = n - 1 /\ Len(scopes[p].defers) \in Nat
    BY <1>1, <1>2, ScopeTypes DEF At, FreesAndGoesOn
  <1>4. /\ f \in Frame /\ f # Callback /\ f.kind = Top.kind /\ f.scope = Top.scope
        /\ f.child = p /\ f.left = Len(scopes[p].defers)
    <2>1. f = [Top EXCEPT !.child = p, !.left = Len(scopes[p].defers)]
      BY <1>1, <1>2, <1>3 DEF OnToParent, DefersOf
    <2> QED
      BY <1>2, <1>3, <2>1 DEF Frame, Callback
  <1>5. /\ stack' \in Seq(Frame \cup {Callback}) /\ Depth' = n /\ stack'[n] = f
        /\ \A i \in 1 .. n : i # n => stack'[i] = stack[i]
    BY <1>1, <1>2, <1>4, StackChanged DEF FreesAndGoesOn
  <1>6. FreesChild(c)
    <2>1. Depth' \in {Depth, Depth - 1} /\ \A i \in 1 .. Depth - 1 : stack'[i] = stack[i]
      BY <1>1, <1>2, <1>5
    <2> QED
      BY <1>2, <2>1 DEF FreesChild, FreesAndGoesOn
  <1>7. /\ c \in At(n - 1) /\ c \in Live /\ c \in DOMAIN scopes /\ c \in Nat
        /\ scopes[c].depth = n - 1 /\ IsNewest(c, At(n - 1)) /\ FrameSound(n)
        /\ scopes' \in Seq(ScopeRecord) /\ Len(scopes') = Len(scopes)
        /\ DOMAIN scopes' = DOMAIN scopes /\ Live' = Live \ {c}
        /\ \A s \in DOMAIN scopes :
             /\ scopes'[s].parent = scopes[s].parent /\ scopes'[s].depth = scopes[s].depth
             /\ scopes'[s].defers = scopes[s].defers /\ scopes'[s].ran = scopes[s].ran
        /\ \A d : At(d)' = At(d) \ {c}
    BY <1>1, <1>6, ChildFreed
  <1>8. /\ \A s \in Live' : scopes'[s].depth # 0 =>
             scopes'[s].depth <= n - 1 /\ stack'[scopes'[s].depth] = Callback
        /\ \A r, s \in Live' : scopes'[r].depth < scopes'[s].depth => r < s
        /\ \A i \in 1 .. n - 1 : stack'[i] # Callback => FrameSound(i)'
        /\ \A s \in Live' : OnlyClients(s)' \/ (s \in Live /\ ~ OnlyClients(s))
        /\ ParentsSound'
        /\ Typed' => RansSound'
    BY <1>1, <1>6, ChildFreed
  <1>9. Typed'
    BY <1>2, <1>5, <1>7 DEF Typed
  <1>10. /\ Live \subseteq DOMAIN scopes
         /\ \A s \in DOMAIN scopes :
              s \in Nat /\ scopes[s].depth \in Nat /\ scopes[s].parent \in Nat
    BY <1>2, ScopeTypes
  <1>11. StackSound'
    <2>1. \A i \in 1 .. n : /\ stack'[i] = Callback <=> stack[i] = Callback
                            /\ stack'[i].kind = stack[i].kind
      BY <1>2, <1>4, <1>5
    <2> QED
      BY <1>1, <1>2, <1>5, <2>1, PrefixSound DEF ScopeInv
  <1>12. PlacedSound'
    <2>1. \A s \in Live' : scopes'[s].depth \in Nat
      BY <1>7, <1>10
    <2> QED
      BY <1>2, <1>5, <1>8, <2>1 DEF PlacedSound
  <1>13. ParentSound(c) /\ p < c
    BY <1>1, <1>7 DEF ScopeInv, ParentsSound, ParentSound
  <1>14. FrameSound(n)'
    <2>1. p \in At(n - 1)' /\ \A t \in At(n - 1)' : t <= p
      <3>1. p \in At(n - 1) /\ p # c
        BY <1>3, <1>7, <1>13
      <3>2. ASSUME NEW t \in At(n - 1), t # c
            PROVE  t <= p
        <4>1. t < c
          BY <1>7, <1>10, <3>2 DEF IsNewest, At
        <4> QED
          BY <1>1, <1>7, <1>13, <3>2, <4>1 DEF ParentSound
      <3> QED
        BY <1>7, <3>1, <3>2
    <2>2. Len(scopes'[p].ran) + f.left = Len(scopes'[p].defers)
      <3>1. ~ IsExecuting(p)
        <4>1. ASSUME NEW i \in 1 .. n, stack[i] # Callback, stack[i].child = p
              PROVE  FALSE
          <5>1. scopes[p].depth = i - 1
            BY <1>1, <4>1 DEF ScopeInv, FramesSound, FrameSound, IsNewest, At
          <5> QED
            BY <1>2, <1>3, <1>13, <4>1, <5>1
        <4> QED
          BY <1>1, <4>1 DEF IsExecuting
      <3>2. scopes[p].ran = << >>
        BY <1>2, <1>3, <3>1, ExecutingNow DEF ScopeInv, RansSound, RanSound
      <3>3. scopes'[p].ran = << >> /\ scopes'[p].defers = scopes[p].defers
        BY <1>3, <1>7, <3>2
      <3>4. Len(scopes'[p].ran) = 0
        BY <3>3
      <3> QED
        BY <1>3, <1>4, <3>3, <3>4
    <2>3. f.kind = "end" =>
            /\ f.scope \in At(n - 1)'
            /\ \A t \in Live' : t >= f.scope => OnlyClients(t)'
      <3>1. Top.kind = "end" =>
              /\ Top.scope \in At(n - 1)
              /\ \A t \in Live : t >= Top.scope => OnlyClients(t)
        BY <1>2, <1>7 DEF FrameSound
      <3> QED
        BY <1>2, <1>4, <1>7, <1>8, <3>1
    <2>4. phase = "exiting" => \A t \in Live' : OnlyClients(t)'
      BY <1>7, <1>8 DEF FrameSound
    <2> QED
      BY <1>2, <1>4, <1>5, <2>1, <2>2, <2>3, <2>4 DEF FrameSound, IsNewest
  <1>15. FramesSound'
    <2>1. ASSUME NEW i \in 1 .. n, stack'[i] # Callback
          PROVE  FrameSound(i)'
      <3>1. CASE i = n
        BY <1>14, <3>1
      <3>2. CASE i # n
        <4>1. i \in 1 .. n - 1
          BY <1>2, <3>2
        <4> QED
          BY <1>8, <2>1, <4>1
      <3> QED
        BY <3>1, <3>2
    <2> QED
      BY <1>5, <2>1 DEF FramesSound
  <1>16. LastSound'
    <2>1. last # NoScope => scopes[last].depth < n /\ (n = 1 => phase # "destroying")
      BY <1>1, <1>2 DEF ScopeInv, LastSound, ClientOnTop
    <2>2. last # NoScope => last \in DOMAIN scopes
      BY <1>2, ScopeTypes DEF Typed, NoScope
    <2>3. ~ ClientOnTop'
      BY <1>2, <1>4, <1>5 DEF ClientOnTop
    <2> QED
      BY <1>2, <1>5, <1>7, <2>1, <2>2, <2>3 DEF LastSound
  <1>17. EndSound'
    BY <1>1, <1>2, <1>5, <1>7 DEF ScopeInv, EndSound
  <1> QED
    BY <1>8, <1>9, <1>11, <1>12, <1>15, <1>16, <1>17 DEF ScopeInv

(* ... or returns: gp_end with the parent as the newest scope.             *)
FreesAndReturns(c) ==
  /\ Depth # 0 /\ Top # Callback /\ Top.left = 0 /\ c = Top.child
  /\ scopes' = [scopes EXCEPT ![c].freed = TRUE]
  /\ stack' = Front(stack)
  /\ UNCHANGED << phase, passes >>
  /\ \/ Top.kind = "end" /\ Top.scope = c /\ last' = scopes[c].parent
     \/ Top.kind = "delete" /\ scopes[c].parent = NoScope /\ last' = last

(* A call that frees its scope and returns keeps the invariant.            *)
LEMMA FreedAndBack ==
  ASSUME ScopeInv, NEW c, FreesAndReturns(c)
  PROVE  ScopeInv'
  <1>1. PICK n, p : n = Depth /\ p = scopes[c].parent
    OBVIOUS
  <1>2. /\ Typed /\ n \in Nat \ {0} /\ n - 1 \in Nat /\ stack[n] = Top /\ Top \in Frame
        /\ Top # Callback /\ c = Top.child /\ Top.left = 0
        /\ phase' = phase /\ passes' = passes
    BY <1>1, StackTypes DEF ScopeInv, Top, Depth, FreesAndReturns
  <1>3. \/ Top.kind = "end" /\ Top.scope = c /\ last' = p
        \/ Top.kind = "delete" /\ p = NoScope /\ last' = last
    BY <1>1 DEF FreesAndReturns
  <1>4. Top.kind = "delete" <=> n = 1 /\ phase # "running"
    BY <1>1, <1>2 DEF ScopeInv, StackSound
  <1>5. /\ stack' \in Seq(Frame \cup {Callback}) /\ Depth' = n - 1
        /\ \A i \in 1 .. n - 1 : stack'[i] = stack[i]
    BY <1>1, <1>2, StackPopped DEF FreesAndReturns
  <1>6. FreesChild(c)
    <2>1. Depth' \in {Depth, Depth - 1} /\ \A i \in 1 .. Depth - 1 : stack'[i] = stack[i]
      BY <1>1, <1>2, <1>5
    <2> QED
      BY <1>2, <2>1 DEF FreesChild, FreesAndReturns
  <1>7. /\ c \in At(n - 1) /\ c \in Live /\ c \in DOMAIN scopes /\ c \in Nat
        /\ scopes[c].depth = n - 1 /\ IsNewest(c, At(n - 1)) /\ FrameSound(n)
        /\ scopes' \in Seq(ScopeRecord) /\ Len(scopes') = Len(scopes)
        /\ DOMAIN scopes' = DOMAIN scopes /\ Live' = Live \ {c}
        /\ \A s \in DOMAIN scopes :
             /\ scopes'[s].parent = scopes[s].parent /\ scopes'[s].depth = scopes[s].depth
             /\ scopes'[s].defers = scopes[s].defers /\ scopes'[s].ran = scopes[s].ran
        /\ \A d : At(d)' = At(d) \ {c}
    BY <1>1, <1>6, ChildFreed
  <1>8. /\ \A s \in Live' : scopes'[s].depth # 0 =>
             scopes'[s].depth <= n - 1 /\ stack'[scopes'[s].depth] = Callback
        /\ \A r, s \in Live' : scopes'[r].depth < scopes'[s].depth => r < s
        /\ \A i \in 1 .. n - 1 : stack'[i] # Callback => FrameSound(i)'
        /\ ParentsSound'
        /\ Typed' => RansSound'
    BY <1>1, <1>6, ChildFreed
  <1>9. /\ Live \subseteq DOMAIN scopes /\ DOMAIN scopes = 1 .. Len(scopes)
        /\ \A s \in DOMAIN scopes :
             s \in Nat /\ scopes[s].depth \in Nat /\ scopes[s].parent \in Nat
    BY <1>2, ScopeTypes
  <1>10. ParentSound(c) /\ p < c /\ p \in Nat
    BY <1>1, <1>7, <1>9 DEF ScopeInv, ParentsSound, ParentSound
  <1>11. last' \in 0 .. Len(scopes)
    BY <1>2, <1>3, <1>7, <1>9, <1>10 DEF Typed
  <1>12. Typed'
    BY <1>2, <1>5, <1>7, <1>11 DEF Typed
  <1>13. StackSound' /\ PlacedSound' /\ FramesSound'
    <2>1. StackSound'
      BY <1>1, <1>2, <1>5, PrefixSound DEF ScopeInv
    <2> QED
      BY <1>5, <1>8, <2>1 DEF PlacedSound, FramesSound
  <1>14. ClientOnTop'
    <2>1. n # 1 => stack[n - 1] = Callback
      <3>1. n # 1 => n - 1 \in 1 .. n - 1 /\ (n - 1) + 1 = n
        BY <1>2
      <3> QED
        BY <1>1, <1>2, <3>1 DEF ScopeInv, StackSound
    <2> QED
      BY <1>2, <1>5, <2>1 DEF ClientOnTop
  <1>15. \A t \in At(n - 1) \ {c} : t < c /\ t <= p /\ p \in At(n - 1)
    BY <1>1, <1>7, <1>9, <1>10 DEF ParentSound, IsNewest, At
  <1>16. CASE Top.kind = "end"
    <2>1. last' = p /\ Top.scope = c /\ (n = 1 => phase = "running")
      BY <1>3, <1>4, <1>16
    <2>2. LastSound'
      <3>1. \A t \in At(n - 1)' : p \in At(n - 1)' /\ t <= p
        BY <1>7, <1>10, <1>15
      <3>2. p \notin At(n - 1)' /\ p # NoScope =>
              /\ ~ AtBottom(n - 1) /\ scopes'[p].depth < n - 2
        <4>1. p # NoScope => p \in DOMAIN scopes /\ p # c
          BY <1>7, <1>9, <1>10 DEF NoScope
        <4> QED
          BY <1>1, <1>2, <1>7, <1>10, <4>1 DEF ParentSound
      <3> QED
        BY <1>2, <1>5, <1>14, <2>1, <3>1, <3>2 DEF LastSound, AtBottom
    <2>3. EndSound'
      BY <1>1, <1>2, <1>5, <2>1 DEF ScopeInv, EndSound
    <2> QED
      BY <1>8, <1>12, <1>13, <2>2, <2>3 DEF ScopeInv
  <1>17. CASE Top.kind = "delete"
    <2>1. /\ n = 1 /\ phase # "running" /\ p = NoScope /\ last' = last
      BY <1>3, <1>4, <1>17
    <2>2. At(0)' = {} /\ Live' = {}
      <3>1. At(0) \ {c} = {}
        BY <1>9, <1>15, <2>1 DEF At, NoScope
      <3>2. At(0)' = {}
        BY <1>7, <3>1
      <3>3. ASSUME NEW s \in Live'
            PROVE  FALSE
        <4>1. s \in Live /\ s # c /\ scopes'[s].depth = scopes[s].depth
          BY <1>7, <1>9
        <4>2. scopes[s].depth = 0
          BY <1>8, <1>9, <2>1, <4>1
        <4> QED
          BY <3>1, <4>1, <4>2 DEF At
      <3> QED
        BY <3>2, <3>3
    <2>3. last # NoScope => phase = "exiting"
      BY <1>1, <1>2, <2>1 DEF ScopeInv, LastSound, ClientOnTop, Typed, StackSound
    <2>4. LastSound'
      BY <1>2, <1>5, <1>14, <2>1, <2>2, <2>3 DEF LastSound
    <2>5. EndSound'
      BY <1>1, <1>2, <1>5, <2>1, <2>2, <2>3 DEF ScopeInv, EndSound
    <2> QED
      BY <1>8, <1>12, <1>13, <2>4, <2>5 DEF ScopeInv
  <1> QED
    BY <1>3, <1>16, <1>17

(* Which it does is a matter of the list of its caller's scopes.           *)
LEMMA FreeInnerGoesOn ==
  ASSUME ScopeInv, FreeInner
  PROVE  FreesAndGoesOn(Top.child)
  <1>1. PICK c : c = Top.child
    OBVIOUS
  <1>2. Depth # 0 /\ Depth \in 1 .. Depth /\ stack[Depth] = Top /\ Top # Callback
    BY StackTypes DEF ScopeInv, FreeInner, Top, Depth
  <1>3. /\ c \in At(Depth - 1) /\ Top.scope \in At(Depth - 1) /\ Top.scope <= c
        /\ Top.scope # c
    BY <1>1, <1>2 DEF ScopeInv, FramesSound, FrameSound, FreeInner, IsNewest
  <1>4. c \in Live /\ scopes[c].depth = Depth - 1 /\ c \in Nat /\ Top.scope \in Nat
    BY <1>3, ScopeTypes DEF ScopeInv, At
  <1>5. scopes[c].parent \in At(Depth - 1)
    BY <1>3, <1>4 DEF ScopeInv, ParentsSound, ParentSound
  <1> QED
    BY <1>1, <1>2, <1>3, <1>5 DEF FreesAndGoesOn, FreeInner

(* gp_end frees the scope it was called for last, and returns.             *)
LEMMA FinishEndReturns ==
  ASSUME ScopeInv, FinishEnd
  PROVE  FreesAndReturns(Top.child)
  <1>1. Depth # 0 /\ Top # Callback
    BY StackTypes DEF ScopeInv, FinishEnd
  <1> QED
    BY <1>1 DEF FreesAndReturns, FinishEnd

(* The deletion at exit frees a scope, and goes on or returns.             *)
LEMMA DeleteNextFrees ==
  ASSUME ScopeInv, DeleteNext
  PROVE  FreesAndGoesOn(Top.child) \/ FreesAndReturns(Top.child)
  <1>1. PICK c : c = Top.child
    OBVIOUS
  <1>2. Depth # 0 /\ Depth \in 1 .. Depth /\ stack[Depth] = Top /\ Top # Callback
    BY StackTypes DEF ScopeInv, DeleteNext, Top, Depth
  <1>3. Depth = 1 /\ Top.kind = "delete"
    BY <1>2 DEF ScopeInv, StackSound, DeleteNext
  <1>4. c \in At(0)
    BY <1>1, <1>2, <1>3 DEF ScopeInv, FramesSound, FrameSound, IsNewest
  <1>5. scopes[c].parent = NoScope \/ scopes[c].parent \in At(0)
    BY <1>4 DEF ScopeInv, ParentsSound, ParentSound, At, AtBottom
  <1>6. CASE scopes[c].parent = NoScope
    BY <1>1, <1>2, <1>6 DEF FreesAndReturns, DeleteNext
  <1>7. CASE scopes[c].parent # NoScope
    BY <1>1, <1>2, <1>3, <1>5, <1>7 DEF FreesAndGoesOn, DeleteNext
  <1> QED
    BY <1>6, <1>7

(* At the bottom of the stack only the thread's own scopes are left.       *)
LEMMA OnlyOwnLeft ==
  ASSUME ScopeInv, Depth = 0
  PROVE  Live = At(0) /\ Executing = {}
  <1>1. \A s \in Live : scopes[s].depth \in Nat /\ (scopes[s].depth # 0 => scopes[s].depth <= 0)
    BY ScopeTypes DEF ScopeInv, PlacedSound
  <1>2. Live = At(0)
    BY <1>1 DEF At
  <1>3. Executing = {}
    BY ExecutingNow DEF ScopeInv, IsExecuting
  <1> QED
    BY <1>2, <1>3

(* The thread begins to exit, or is gone.                                  *)
LEMMA PhaseChangeKeeps ==
  ASSUME ScopeInv, Depth = 0, UNCHANGED << scopes, last, stack, passes >>,
         phase' \in {"destroying", "exiting", "gone"},
         phase' # "gone" => phase = "running",
         phase' # "destroying" => Live = {},
         phase' = "exiting" => last = NoScope
  PROVE  ScopeInv'
  <1>1. /\ Typed /\ Live = At(0) /\ Live' = Live /\ Depth' = 0 /\ \A d : At(d)' = At(d)
        /\ Executing' = Executing
    BY OnlyOwnLeft DEF ScopeInv, Live, Depth, At, Executing
  <1>2. Typed' /\ StackSound' /\ PlacedSound' /\ FramesSound'
    BY <1>1 DEF ScopeInv, Typed, StackSound, PlacedSound, FramesSound
  <1>3. LastSound'
    BY <1>1 DEF ScopeInv, LastSound, ClientOnTop, AtBottom
  <1>4. ParentsSound'
    <2>1. ASSUME NEW s \in Live
          PROVE  ParentSound(s)'
      <3>1. scopes[s].depth = 0 /\ ParentSound(s)
        BY <1>1, <2>1 DEF At, ScopeInv, ParentsSound
      <3> QED
        BY <1>1, <3>1 DEF ParentSound, AtBottom
    <2> QED
      BY <1>1, <2>1 DEF ParentsSound
  <1>5. RansSound'
    BY <1>1 DEF ScopeInv, RansSound, RanSound
  <1>6. EndSound'
    BY <1>1 DEF ScopeInv, EndSound
  <1> QED
    BY <1>2, <1>3, <1>4, <1>5, <1>6 DEF ScopeInv

(* Steps of the thread's exit between calls keep the invariant.            *)
LEMMA PhaseStepsKeep == ScopeInv /\ (ThreadExit \/ ThreadGone \/ ExitDone) => ScopeInv'
  <1>1. ASSUME ScopeInv, ThreadExit
        PROVE  ScopeInv'
    <2>1. Depth = 0
      BY <1>1 DEF ThreadExit, Depth
    <2> QED
      BY <1>1, <2>1, PhaseChangeKeeps DEF ThreadExit
  <1>2. ASSUME ScopeInv, ThreadGone
        PROVE  ScopeInv'
    <2>1. Depth = 0 /\ phase = "destroying"
      BY <1>2 DEF ThreadGone, Depth
    <2>2. last = NoScope
      BY <1>2, <2>1, ScopeAssumption DEF ThreadGone, ScopeInv, EndSound
    <2>3. Live = {}
      <3>1. NoScope \notin Live
        BY <1>2, ScopeTypes DEF ScopeInv, NoScope
      <3> QED
        BY <1>2, <2>1, <2>2, <3>1, OnlyOwnLeft DEF ScopeInv, LastSound, ClientOnTop
    <2> QED
      BY <1>2, <2>1, <2>3, PhaseChangeKeeps DEF ThreadGone
  <1>3. ASSUME ScopeInv, ExitDone
        PROVE  ScopeInv'
    <2>1. Depth = 0
      BY <1>3 DEF ExitDone, Depth
    <2>2. Live = {}
      BY <1>3, <2>1 DEF ExitDone, ScopeInv, EndSound
    <2> QED
      BY <1>3, <2>1, <2>2, PhaseChangeKeeps DEF ExitDone
  <1> QED
    BY <1>1, <1>2, <1>3

(* A client calls the library, which begins to work on its newest scope.   *)
Calls(f) ==
  /\ ClientOnTop /\ stack' = stack \o << f >> /\ scopes' = scopes
  /\ f \in Frame /\ f # Callback
  /\ IsNewest(f.child, At(Depth)) /\ f.left = Len(scopes[f.child].defers)
  /\ f.kind = "delete" <=> Depth = 0 /\ phase' # "running"
  /\ f.kind = "end" => /\ f.scope \in At(Depth)
                       /\ \A t \in Live : t >= f.scope => OnlyClients(t)
  /\ phase' \in {phase, "exiting"} /\ (Depth # 0 => phase' = phase)
  /\ phase' # "gone" /\ (phase' = "running" <=> phase = "running" /\ f.kind = "end")
  /\ phase' = "destroying" <=> phase = "destroying"
  /\ phase' = "exiting" => \A t \in Live : OnlyClients(t)
  /\ last' \in {last, NoScope} /\ (f.kind = "end" => last' = last)
  /\ phase' = "destroying" /\ Depth = 0 => last' = NoScope
  /\ passes' \in Nat /\ (passes' # 0 => phase' = "destroying")

(* A call that begins with the newest scope keeps the invariant.           *)
LEMMA CallKeeps ==
  ASSUME ScopeInv, NEW f, Calls(f)
  PROVE  ScopeInv'
  <1>1. PICK n : n = Depth
    OBVIOUS
  <1>2. /\ Typed /\ n \in Nat /\ scopes' = scopes /\ f \in Frame /\ f # Callback
        /\ IsNewest(f.child, At(n)) /\ f.left = Len(scopes[f.child].defers)
        /\ n # 0 => stack[n] = Callback
    BY <1>1, StackTypes DEF ScopeInv, Calls, ClientOnTop
  <1>21. /\ (f.kind = "delete") <=> (n = 0 /\ phase' # "running")
         /\ n # 0 => phase' = phase
    BY <1>1 DEF Calls
  <1>3. /\ stack' \in Seq(Frame \cup {Callback}) /\ Depth' = n + 1 /\ stack'[n + 1] = f
        /\ \A i \in 1 .. n : stack'[i] = stack[i]
    BY <1>1, <1>2, StackPushed DEF Calls
  <1>4. Live' = Live /\ \A d : At(d)' = At(d)
    BY <1>2 DEF Live, At
  <1>5. /\ Live \subseteq DOMAIN scopes
        /\ \A s \in DOMAIN scopes : s \in Nat /\ scopes[s].depth \in Nat
    BY <1>2, ScopeTypes
  <1>6. Typed'
    BY <1>2, <1>3 DEF Typed, Calls, NoScope
  <1>7. StackSound'
    <2>1. ASSUME NEW i \in 1 .. n
          PROVE  stack'[i + 1] = Callback <=> stack'[i] # Callback
      <3>1. CASE i = n
        BY <1>2, <1>3, <2>1, <3>1
      <3>2. CASE i # n
        <4>1. i \in 1 .. n - 1 /\ i + 1 \in 1 .. n
          BY <1>2, <3>2
        <4>2. stack[i + 1] = Callback <=> stack[i] # Callback
          BY <1>1, <4>1 DEF ScopeInv, StackSound
        <4> QED
          BY <1>3, <4>1, <4>2
      <3> QED
        BY <3>1, <3>2
    <2>2. ASSUME NEW i \in 1 .. n + 1, stack'[i] # Callback
          PROVE  stack'[i].kind = "delete" <=> i = 1 /\ phase' # "running"
      <3>1. CASE i = n + 1
        <4>1. stack'[i] = f /\ (i = 1 <=> n = 0)
          BY <1>2, <1>3, <3>1
        <4> QED
          BY <1>21, <4>1
      <3>2. CASE i # n + 1
        <4>1. i \in 1 .. n /\ n # 0 /\ phase' = phase /\ stack'[i] = stack[i]
          <5>1. i \in 1 .. n /\ n # 0
            BY <1>2, <3>2
          <5> QED
            BY <1>21, <1>3, <5>1
        <4> QED
          BY <1>1, <2>2, <4>1 DEF ScopeInv, StackSound
      <3> QED
        BY <3>1, <3>2
    <2>3. stack'[1] # Callback /\ phase' # "gone"
      <3>1. CASE n = 0
        BY <1>2, <1>3, <3>1 DEF Calls
      <3>2. CASE n # 0
        BY <1>1, <1>2, <1>3, <3>2 DEF ScopeInv, StackSound, Calls
      <3> QED
        BY <3>1, <3>2
    <2> QED
      BY <1>2, <1>3, <2>1, <2>2, <2>3 DEF StackSound
  <1>8. PlacedSound'
    <2>1. ASSUME NEW s \in Live', scopes'[s].depth # 0
          PROVE  scopes'[s].depth <= n + 1 /\ stack'[scopes'[s].depth] = Callback
      <3>1. /\ scopes[s].depth <= n /\ stack[scopes[s].depth] = Callback
            /\ scopes[s].depth \in 1 .. n
        BY <1>1, <1>2, <1>4, <1>5, <2>1 DEF ScopeInv, PlacedSound
      <3> QED
        BY <1>2, <1>3, <3>1
    <2> QED
      BY <1>2, <1>3, <1>4, <2>1 DEF ScopeInv, PlacedSound
  <1>9. FramesSound'
    <2>1. ASSUME NEW i \in 1 .. n, stack'[i] # Callback
          PROVE  FrameSound(i)'
      <3>1. FrameSound(i) /\ stack'[i] = stack[i] /\ phase' = phase
        <4>1. stack'[i] = stack[i] /\ phase' = phase
          BY <1>2, <1>21, <1>3, <2>1
        <4> QED
          BY <1>1, <2>1, <4>1 DEF ScopeInv, FramesSound
      <3> QED
        BY <1>2, <1>4, <3>1 DEF FrameSound, IsNewest, OnlyClients
    <2>2. FrameSound(n + 1)'
      <3>1. scopes[f.child].ran = << >> /\ Len(scopes[f.child].defers) \in Nat
        <4>1. f.child \in Live /\ scopes[f.child].depth = n /\ f.child \in DOMAIN scopes
          BY <1>2, <1>5 DEF IsNewest, At
        <4>2. ~ IsExecuting(f.child)
          <5>1. ASSUME NEW i \in 1 .. n, stack[i] # Callback, stack[i].child = f.child
                PROVE  FALSE
            <6>1. scopes[f.child].depth = i - 1
              BY <1>1, <5>1 DEF ScopeInv, FramesSound, FrameSound, IsNewest, At
            <6> QED
              BY <1>2, <4>1, <6>1
          <5> QED
            BY <1>1, <5>1 DEF IsExecuting
        <4> QED
          BY <1>2, <4>1, <4>2, ExecutingNow, ScopeTypes DEF ScopeInv, RansSound, RanSound
      <3>2. Len(scopes[f.child].ran) + f.left = Len(scopes[f.child].defers)
        <4>1. Len(scopes[f.child].ran) = 0
          BY <3>1
        <4> QED
          BY <1>2, <3>1, <4>1
      <3>3. \A t : OnlyClients(t)' = OnlyClients(t)
        BY <1>2 DEF OnlyClients
      <3>4. (n + 1) - 1 = n
        BY <1>2
      <3> QED
        BY <1>1, <1>2, <1>3, <1>4, <3>2, <3>3, <3>4 DEF FrameSound, IsNewest, Calls
    <2> QED
      BY <1>2, <1>3, <2>1, <2>2 DEF FramesSound
  <1>10. LastSound'
    <2>1. ~ ClientOnTop'
      BY <1>2, <1>3 DEF ClientOnTop
    <2>2. last \in At(n)
      BY <1>1, <1>2 DEF ScopeInv, LastSound, IsNewest, Calls
    <2>3. last' # NoScope => scopes[last'].depth < n + 1
      BY <1>2, <2>2 DEF Calls, At
    <2>4. n + 1 = 1 => n = 0
      BY <1>2
    <2> QED
      BY <1>1, <1>2, <1>3, <2>1, <2>3, <2>4 DEF LastSound, Calls
  <1>11. ParentsSound'
    <2>1. \A d : AtBottom(d)' = AtBottom(d)
      BY DEF AtBottom, Calls
    <2> QED
      BY <1>2, <1>4, <2>1 DEF ScopeInv, ParentsSound, ParentSound
  <1>12. RansSound'
    <2>1. ASSUME NEW s, IsExecuting(s)
          PROVE  IsExecuting(s)'
      BY <1>1, <1>2, <1>3, <2>1 DEF IsExecuting
    <2>2. ASSUME NEW s \in DOMAIN scopes
          PROVE  RanSound(s)'
      BY <1>2, <1>4, <1>6, <2>1, ExecutingNow, ExecutingNext DEF ScopeInv, RansSound, RanSound
    <2> QED
      BY <1>2, <2>2 DEF RansSound
  <1>13. EndSound'
    BY <1>2, <1>3 DEF EndSound, Calls
  <1> QED
    BY <1>6, <1>7, <1>8, <1>9, <1>10, <1>11, <1>12, <1>13 DEF ScopeInv

(* gp_end begins with the newest scope.                                    *)
LEMMA GpEndCalls ==
  ASSUME EndsAreCalled, ScopeInv, NEW s \in Live, GpEnd(s)
  PROVE  \E f : Calls(f) /\ f.child = last
  <1>1. PICK n, f : n = Depth
                    /\ f = [kind |-> "end", scope |-> s, child |-> last,
                            left |-> Len(scopes[last].defers)]
    OBVIOUS
  <1>2. /\ Typed /\ n \in Nat /\ (stack = << >> <=> n = 0) /\ Len(stack) = n
        /\ Live \subseteq DOMAIN scopes /\ DOMAIN scopes = 1 .. Len(scopes)
        /\ Len(scopes) \in Nat
        /\ \A t \in DOMAIN scopes : Len(scopes[t].defers) \in Nat
    BY <1>1, StackTypes, ScopeTypes DEF ScopeInv, Depth
  <1>22. \A t \in DOMAIN scopes : t \in Nat /\ t # 0 /\ t <= Len(scopes)
    BY <1>2, IndexTypes
  <1>3. ClientOnTop /\ (n = 0 => phase = "running") /\ s \in At(n)
    BY <1>1, <1>2 DEF GpEnd, ClientRuns, ClientOnTop, Top, At
  <1>4. last \in At(n) /\ IsNewest(last, At(n))
    BY <1>1, <1>3 DEF ScopeInv, LastSound, IsNewest
  <1>5. last \in Live /\ last \in DOMAIN scopes /\ last # NoScope
    BY <1>2, <1>22, <1>4 DEF At, NoScope
  <1>6. stack' = stack \o << f >> /\ scopes' = scopes /\ last' = last /\ phase' = phase
        /\ passes' = passes
    BY <1>1, <1>5 DEF GpEnd, EndCall, DefersOf
  <1>7. f \in Frame /\ f # Callback /\ f.kind = "end" /\ f.scope = s /\ f.child = last
        /\ f.left = Len(scopes[last].defers)
    <2>1. f \in Frame
      BY <1>1, <1>2, <1>22, <1>5 DEF Frame
    <2>2. f.kind # Callback.kind
      BY <1>1 DEF Callback
    <2> QED
      BY <1>1, <2>1, <2>2
  <1>9. \A t \in Live : t >= s => OnlyClients(t)
    <2>1. \A t \in Live : t >= s => t \in s .. Len(scopes)
      <3>1. s \in Nat /\ Len(scopes) \in Nat
        BY <1>2, <1>22
      <3>2. \A t \in Live : t \in Nat /\ t <= Len(scopes)
        BY <1>2, <1>22
      <3> QED
        BY <3>1, <3>2
    <2>2. LeftToDestructor \cap s .. Len(scopes) = {}
      BY DEF GpEnd
    <2> QED
      BY <2>1, <2>2 DEF EndsAreCalled, LeftToDestructor, OnlyClients
  <1>10. phase # "gone" /\ (phase = "exiting" => \A t \in Live : OnlyClients(t))
    <2>1. CASE n = 0
      BY <1>3, <2>1
    <2>2. CASE n # 0
      <3>1. stack[1] # Callback /\ phase # "gone"
        BY <1>1, <2>2 DEF ScopeInv, StackSound
      <3>11. 1 \in 1 .. Depth
        <4>1. n = Depth
          BY <1>1
        <4>2. n \in Nat
          BY <1>2
        <4>3. 1 \in 1 .. n
          BY <2>2, <4>2
        <4> QED
          BY <4>1, <4>3
      <3>2. FrameSound(1)
        BY <3>1, <3>11 DEF ScopeInv, FramesSound
      <3> QED
        BY <3>1, <3>2 DEF FrameSound
    <2> QED
      BY <2>1, <2>2
  <1>11. passes \in Nat /\ (passes # 0 => phase = "destroying")
    BY <1>2, <1>10 DEF ScopeInv, EndSound, Typed
  <1>12. Calls(f)
    BY <1>1, <1>3, <1>4, <1>6, <1>7, <1>9, <1>10, <1>11 DEF Calls
  <1> QED
    BY <1>7, <1>12

(* The thread's destructor begins with the newest scope.                   *)
LEMMA DestructorCalls ==
  ASSUME ScopeInv, Destructor
  PROVE  \E f : Calls(f) /\ f.child = last
  <1>1. PICK f : f = [kind |-> "delete", scope |-> NoScope, child |-> last,
                      left |-> Len(scopes[last].defers)]
    OBVIOUS
  <1>2. /\ Typed /\ Depth = 0 /\ stack = << >> /\ phase = "destroying" /\ last # NoScope
        /\ ClientOnTop
        /\ Live \subseteq DOMAIN scopes /\ DOMAIN scopes = 1 .. Len(scopes)
        /\ Len(scopes) \in Nat
        /\ \A t \in DOMAIN scopes : Len(scopes[t].defers) \in Nat
    BY StackTypes, ScopeTypes DEF ScopeInv, Destructor, ClientOnTop
  <1>22. \A t \in DOMAIN scopes : t \in Nat /\ t # 0 /\ t <= Len(scopes)
    BY <1>2, IndexTypes
  <1>3. last \in At(0) /\ IsNewest(last, At(0))
    BY <1>2 DEF ScopeInv, LastSound, IsNewest, AtBottom
  <1>4. last \in DOMAIN scopes
    BY <1>2, <1>3 DEF At
  <1>5. stack' = stack \o << f >>
    BY <1>1, <1>2, <1>4 DEF Destructor, DeleteCall, DefersOf
  <1>6. f \in Frame /\ f # Callback /\ f.kind = "delete" /\ f.child = last
        /\ f.left = Len(scopes[last].defers)
    BY <1>1, <1>2, <1>4 DEF Frame, Callback, NoScope
  <1>7. scopes' = scopes /\ phase' = phase /\ last' = NoScope /\ passes' \in Nat
    BY <1>2 DEF Destructor, Typed
  <1>8. Calls(f)
    BY <1>2, <1>3, <1>5, <1>6, <1>7 DEF Calls
  <1> QED
    BY <1>6, <1>8

(* So does exit(), if there is one.                                        *)
LEMMA ExitCalls ==
  ASSUME EndsAreCalled, ScopeInv, Exit, last # NoScope
  PROVE  \E f : Calls(f) /\ f.child = last
  <1>1. PICK f : f = [kind |-> "delete", scope |-> NoScope, child |-> last,
                      left |-> Len(scopes[last].defers)]
    OBVIOUS
  <1>2. /\ Typed /\ Depth = 0 /\ stack = << >> /\ phase = "running"
        /\ phase' = "exiting" /\ ClientOnTop
        /\ scopes' = scopes /\ last' = last /\ passes' = passes
        /\ Live \subseteq DOMAIN scopes /\ DOMAIN scopes = 1 .. Len(scopes)
        /\ Len(scopes) \in Nat
        /\ \A t \in DOMAIN scopes : Len(scopes[t].defers) \in Nat
    BY StackTypes, ScopeTypes DEF ScopeInv, Exit, ClientOnTop
  <1>22. \A t \in DOMAIN scopes : t \in Nat /\ t # 0 /\ t <= Len(scopes)
    BY <1>2, IndexTypes
  <1>3. passes = 0 /\ passes' \in Nat
    BY <1>2 DEF ScopeInv, EndSound, Typed
  <1>11. last \in At(0) /\ IsNewest(last, At(0))
    BY <1>2 DEF ScopeInv, LastSound, IsNewest, AtBottom
  <1>12. last \in DOMAIN scopes
    BY <1>2, <1>11 DEF At
  <1>13. stack' = stack \o << f >>
    <2>1. DeleteCall(last) = << f >>
      BY <1>1, <1>12 DEF DeleteCall, DefersOf
    <2>2. stack' = << f >>
      BY <2>1 DEF Exit
    <2>3. stack = << >>
      BY DEF Exit
    <2> QED
      BY <2>2, <2>3
  <1>14. f \in Frame /\ f # Callback /\ f.kind = "delete" /\ f.child = last
        /\ f.left = Len(scopes[last].defers)
    <2>1. f \in Frame
      BY <1>1, <1>2, <1>22, <1>12 DEF Frame, NoScope
    <2>2. f.kind # Callback.kind
      BY <1>1 DEF Callback
    <2> QED
      BY <1>1, <2>1, <2>2
  <1>15. \A t \in Live : OnlyClients(t)
    BY DEF Exit, EndsAreCalled, LeftToDestructor, OnlyClients
  <1>16. Calls(f)
    BY <1>2, <1>3, <1>11, <1>13, <1>14, <1>15 DEF Calls
  <1> QED
    BY <1>14, <1>16

(* exit() keeps the invariant, with scopes or without.                     *)
LEMMA ExitKeeps ==
  ASSUME EndsAreCalled, ScopeInv, Exit
  PROVE  ScopeInv'
  <1>1. CASE last = NoScope
    <2>1. /\ Typed /\ Depth = 0 /\ phase = "running" /\ phase' = "exiting" /\ ClientOnTop
          /\ scopes' = scopes /\ last' = last /\ passes' = passes
      BY StackTypes DEF ScopeInv, Exit, ClientOnTop
    <2>2. \A t \in At(0) : last \in At(0)
      BY <2>1 DEF ScopeInv, LastSound
    <2>3. Live = {}
      BY <1>1, <2>1, <2>2, OnlyOwnLeft, ScopeTypes, IndexTypes DEF NoScope, At
    <2>4. stack' = stack
      BY <1>1 DEF Exit, DeleteCall
    <2> QED
      BY <1>1, <2>1, <2>3, <2>4, PhaseChangeKeeps
  <1>2. CASE last # NoScope
    BY <1>2, ExitCalls, CallKeeps
  <1> QED
    BY <1>1, <1>2

(* A client begins a scope.                                                *)
LEMMA ScopeAppended ==
  ASSUME Typed, NEW r \in ScopeRecord, r.freed = FALSE, scopes' = Append(scopes, r)
  PROVE  /\ scopes' \in Seq(ScopeRecord) /\ Len(scopes') = Len(scopes) + 1
         /\ DOMAIN scopes' = DOMAIN scopes \cup {Len(scopes) + 1}
         /\ \A s \in DOMAIN scopes : scopes'[s] = scopes[s]
         /\ scopes'[Len(scopes) + 1] = r
         /\ Live' = Live \cup {Len(scopes) + 1}
  <1>1. scopes \in Seq(ScopeRecord) /\ Len(scopes) \in Nat /\ DOMAIN scopes = 1 .. Len(scopes)
    BY ScopeTypes DEF Typed
  <1>2. /\ scopes' \in Seq(ScopeRecord) /\ Len(scopes') = Len(scopes) + 1
        /\ \A s \in 1 .. Len(scopes) : scopes'[s] = scopes[s]
        /\ scopes'[Len(scopes) + 1] = r
    BY <1>1
  <1>3. DOMAIN scopes' = 1 .. Len(scopes) + 1
    BY <1>1, <1>2
  <1>4. DOMAIN scopes' = DOMAIN scopes \cup {Len(scopes) + 1}
    BY <1>1, <1>3
  <1>5. Live' = Live \cup {Len(scopes) + 1}
    BY <1>1, <1>2, <1>4 DEF Live
  <1> QED
    BY <1>1, <1>2, <1>4, <1>5

(* A scope that begins is the newest of its depth and of the list.         *)
LEMMA GpBeginKeeps == ScopeInv /\ GpBegin => ScopeInv'
  <1> SUFFICES ASSUME ScopeInv, GpBegin PROVE ScopeInv'
    OBVIOUS
  <1>1. PICK n, new, r : /\ n = Depth /\ new = Len(scopes) + 1
                         /\ r = [parent |-> last, defers |-> << >>, ran |-> << >>,
                                 freed |-> FALSE, depth |-> n]
    OBVIOUS
  <1>2. /\ Typed /\ n \in Nat /\ (stack = << >> <=> n = 0) /\ Len(stack) = n
        /\ Live \subseteq DOMAIN scopes /\ Len(scopes) \in Nat /\ last \in Nat
        /\ last <= Len(scopes)
    BY <1>1, StackTypes, ScopeTypes DEF ScopeInv, Depth, Typed
  <1>3. /\ \A s \in DOMAIN scopes : s \in Nat /\ s # 0 /\ s < new
        /\ \A s \in DOMAIN scopes : scopes[s].depth \in Nat /\ scopes[s].parent \in Nat
        /\ new \in Nat /\ new # 0 /\ last < new
    BY <1>1, <1>2, IndexTypes, ScopeTypes
  <1>4. /\ ClientOnTop /\ (n = 0 => phase = "running") /\ (n # 0 => stack[n] = Callback)
        /\ phase # "gone"
    <2>1. /\ n = 0 => phase = "running"
          /\ n # 0 => stack[n] = Callback
      BY <1>2 DEF GpBegin, ClientRuns, Top
    <2> QED
      BY <1>1, <2>1 DEF ClientOnTop, ScopeInv, StackSound
  <1>5. r \in ScopeRecord /\ r.freed = FALSE /\ r.parent = last /\ r.depth = n
        /\ r.defers = << >> /\ r.ran = << >>
    BY <1>1, <1>2 DEF ScopeRecord
  <1>6. scopes' = Append(scopes, r)
    BY <1>1, <1>2 DEF GpBegin
  <1>7. /\ scopes' \in Seq(ScopeRecord) /\ Len(scopes') = new
        /\ DOMAIN scopes' = DOMAIN scopes \cup {new}
        /\ \A s \in DOMAIN scopes : scopes'[s] = scopes[s]
        /\ scopes'[new] = r
        /\ Live' = Live \cup {new}
    BY <1>1, <1>2, <1>5, <1>6, ScopeAppended
  <1>8. last' = new /\ stack' = stack /\ phase' = phase /\ passes' = passes /\ Depth' = n
    BY <1>1, <1>7 DEF GpBegin, Depth
  <1>9. new \notin Live /\ \A s \in Live : scopes'[s] = scopes[s]
    BY <1>2, <1>3, <1>7
  <1>10. /\ At(n)' = At(n) \cup {new}
         /\ \A d : d # n => At(d)' = At(d)
    BY <1>5, <1>7, <1>9 DEF At
  <1>11. \A s \in Live : scopes[s].depth <= n
    <2>1. \A s \in Live : scopes[s].depth # 0 => scopes[s].depth <= n
      BY <1>1 DEF ScopeInv, PlacedSound
    <2> QED
      BY <1>2, <1>3, <2>1
  <1>12. \A s \in Live' : OnlyClients(s)' \/ (s \in Live /\ ~ OnlyClients(s))
    BY <1>5, <1>7, <1>9 DEF OnlyClients
  <1>13. Typed'
    BY <1>2, <1>3, <1>7, <1>8 DEF Typed
  <1>14. StackSound'
    BY <1>1, <1>8 DEF ScopeInv, StackSound
  <1>15. PlacedSound'
    <2>1. ASSUME NEW s \in Live', scopes'[s].depth # 0
          PROVE  scopes'[s].depth <= n /\ stack'[scopes'[s].depth] = Callback
      <3>1. CASE s = new
        BY <1>2, <1>4, <1>5, <1>7, <1>8, <2>1, <3>1
      <3>2. CASE s # new
        BY <1>1, <1>7, <1>8, <1>9, <2>1, <3>2 DEF ScopeInv, PlacedSound
      <3> QED
        BY <3>1, <3>2
    <2>2. ASSUME NEW s \in Live', NEW t \in Live', scopes'[s].depth < scopes'[t].depth
          PROVE  s < t
      <3>1. CASE s = new
        <4>1. t # new
          BY <1>2, <1>5, <1>7, <2>2, <3>1
        <4> QED
          BY <1>2, <1>3, <1>5, <1>7, <1>9, <1>11, <2>2, <3>1, <4>1
      <3>2. CASE s # new /\ t = new
        BY <1>2, <1>3, <1>7, <3>2
      <3>3. CASE s # new /\ t # new
        BY <1>7, <1>9, <2>2, <3>3 DEF ScopeInv, PlacedSound
      <3> QED
        BY <3>1, <3>2, <3>3
    <2> QED
      BY <1>8, <2>1, <2>2 DEF PlacedSound
  <1>16. FramesSound'
    <2>1. ASSUME NEW i \in 1 .. n, stack'[i] # Callback
          PROVE  FrameSound(i)'
      <3>1. FrameSound(i) /\ i # n
        BY <1>1, <1>4, <1>8, <2>1 DEF ScopeInv, FramesSound
      <3>2. At(i - 1)' = At(i - 1)
        BY <1>2, <1>10, <2>1
      <3>3. /\ stack[i].child \in At(i - 1) /\ stack[i].child \in DOMAIN scopes
            /\ stack[i].kind = "end" => stack[i].scope \in At(i - 1)
        BY <1>2, <3>1 DEF FrameSound, IsNewest, At
      <3> QED
        BY <1>7, <1>8, <1>12, <3>1, <3>2, <3>3, FrameKept
    <2> QED
      BY <1>8, <2>1 DEF FramesSound
  <1>17. LastSound'
    <2>1. ClientOnTop'
      BY <1>4, <1>8 DEF ClientOnTop
    <2>2. \A t \in At(n)' : new \in At(n)' /\ t <= new
      BY <1>2, <1>3, <1>10 DEF At
    <2>3. new \in At(n)'
      BY <1>10
    <2> QED
      BY <1>8, <2>1, <2>2, <2>3 DEF LastSound
  <1>18. /\ \A t \in At(n) : last \in At(n) /\ t <= last
         /\ last \notin At(n) /\ last # NoScope => ~ AtBottom(n) /\ scopes[last].depth < n - 1
    BY <1>1, <1>4 DEF ScopeInv, LastSound
  <1>19. ParentSound(new)'
    <2>1. last \in At(n)' \/ \A t \in At(n)' : new <= t
      BY <1>3, <1>10, <1>18
    <2>2. \A t \in At(n)' : t < new => t <= last
      BY <1>3, <1>10, <1>18
    <2>3. last # NoScope /\ last \notin At(n)' => ~ AtBottom(n) /\ scopes'[last].depth < n - 1
      <3>1. last # NoScope => last \in DOMAIN scopes
        BY <1>2, ScopeTypes DEF NoScope
      <3> QED
        BY <1>7, <1>10, <1>18, <3>1
    <2> QED
      BY <1>3, <1>5, <1>7, <1>8, <2>1, <2>2, <2>3 DEF ParentSound, AtBottom
  <1>20. ASSUME NEW s \in Live
         PROVE  ParentSound(s)'
    <2>1. PICK p, d : p = scopes[s].parent /\ d = scopes[s].depth
      OBVIOUS
    <2>2. ParentSound(s) /\ s \in DOMAIN scopes /\ s \in Nat /\ s < new /\ p \in Nat
          /\ p = scopes'[s].parent /\ d = scopes'[s].depth
      BY <1>2, <1>3, <1>9, <2>1 DEF ScopeInv, ParentsSound
    <2>3. p < s /\ (p # NoScope => p \in DOMAIN scopes)
      <3>1. p < s
        BY <2>1, <2>2 DEF ParentSound
      <3> QED
        BY <1>2, <1>3, <2>2, <3>1, ScopeTypes DEF NoScope
    <2>4. At(d) \subseteq At(d)' /\ \A t \in At(d)' : t \in At(d) \/ t = new
      BY <1>10
    <2>5. p \in At(d)' \/ \A t \in At(d)' : s <= t
      BY <1>3, <2>1, <2>2, <2>4 DEF ParentSound
    <2>6. \A t \in At(d)' : t < s => t <= p
      BY <1>3, <2>1, <2>2, <2>4 DEF ParentSound
    <2>7. p # NoScope /\ p \notin At(d)' => ~ AtBottom(d) /\ scopes'[p].depth < d - 1
      BY <1>7, <2>1, <2>2, <2>3, <2>4 DEF ParentSound
    <2> QED
      BY <1>8, <2>2, <2>3, <2>5, <2>6, <2>7 DEF ParentSound, AtBottom
  <1>21. ParentsSound'
    BY <1>7, <1>19, <1>20 DEF ParentsSound
  <1>22. RansSound'
    <2>1. \A s : s \in Executing' <=> s \in Executing
      BY <1>8 DEF Executing
    <2>2. ASSUME NEW s \in DOMAIN scopes
          PROVE  RanSound(s)'
      BY <1>3, <1>7, <2>1 DEF ScopeInv, RansSound, RanSound
    <2>3. RanSound(new)'
      BY <1>5, <1>7 DEF RanSound
    <2> QED
      BY <1>7, <2>2, <2>3 DEF RansSound
  <1>23. EndSound'
    BY <1>1, <1>4, <1>8 DEF ScopeInv, EndSound
  <1> QED
    BY <1>13, <1>14, <1>15, <1>16, <1>17, <1>21, <1>22, <1>23 DEF ScopeInv

(* One field of one scope's record changes.                                *)
LEMMA ScopeChanged ==
  ASSUME Typed, NEW s \in DOMAIN scopes, NEW r \in ScopeRecord,
         scopes' = [scopes EXCEPT ![s] = r],
         r.parent = scopes[s].parent, r.depth = scopes[s].depth, r.freed = scopes[s].freed
  PROVE  /\ scopes' \in Seq(ScopeRecord) /\ Len(scopes') = Len(scopes)
         /\ DOMAIN scopes' = DOMAIN scopes
         /\ scopes'[s] = r /\ \A t \in DOMAIN scopes : t # s => scopes'[t] = scopes[t]
         /\ \A t \in DOMAIN scopes : /\ scopes'[t].parent = scopes[t].parent
                                     /\ scopes'[t].depth = scopes[t].depth
         /\ Live' = Live /\ \A d : At(d)' = At(d)
  <1>1. scopes \in Seq(ScopeRecord)
    BY DEF Typed
  <1>2. /\ scopes' \in Seq(ScopeRecord) /\ Len(scopes') = Len(scopes)
        /\ DOMAIN scopes' = DOMAIN scopes
        /\ scopes'[s] = r /\ \A t \in DOMAIN scopes : t # s => scopes'[t] = scopes[t]
    BY <1>1
  <1>3. \A t \in DOMAIN scopes : /\ scopes'[t].parent = scopes[t].parent
                                 /\ scopes'[t].depth = scopes[t].depth
                                 /\ scopes'[t].freed = scopes[t].freed
    BY <1>2
  <1>4. Live' = Live
    BY <1>2, <1>3 DEF Live
  <1>5. \A d : At(d)' = At(d)
    BY <1>3, <1>4 DEF At, Live
  <1> QED
    BY <1>2, <1>3, <1>4, <1>5

(* What is left alone when the lists, the calls and the phase are.         *)
LEMMA ParentsKept ==
  ASSUME ScopeInv, DOMAIN scopes' = DOMAIN scopes,
         \A t \in DOMAIN scopes : /\ scopes'[t].parent = scopes[t].parent
                                  /\ scopes'[t].depth = scopes[t].depth,
         Live' = Live, \A d : At(d)' = At(d), phase' = phase
  PROVE  ParentsSound'
  <1>1. Live \subseteq DOMAIN scopes
    BY ScopeTypes DEF ScopeInv
  <1>2. ASSUME NEW s \in Live
        PROVE  ParentSound(s)'
    <2>1. PICK p, d : p = scopes[s].parent /\ d = scopes[s].depth
      OBVIOUS
    <2>2. ParentSound(s) /\ s \in DOMAIN scopes /\ p = scopes'[s].parent /\ d = scopes'[s].depth
      BY <1>1, <2>1 DEF ScopeInv, ParentsSound
    <2>3. p # NoScope => p \in DOMAIN scopes
      <3>1. p < s /\ p \in Nat
        BY <2>1, <2>2, ScopeTypes DEF ScopeInv, ParentSound
      <3> QED
        BY <2>2, <3>1, IndexTypes, ScopeTypes DEF ScopeInv, NoScope
    <2> QED
      BY <2>1, <2>2, <2>3, ParentKept
  <1> QED
    BY <1>2 DEF ParentsSound

(* What is deferred is run by the call that ends the scope.                *)
LEMMA GpDeferKeeps ==
  ASSUME EndsAreCalled, ScopeInv, NEW s \in Live, NEW f \in {Client} \cup Live, GpDefer(s, f)
  PROVE  ScopeInv'
  <1>1. PICK n, r : /\ n = Depth
                    /\ r = [scopes[s] EXCEPT !.defers = Append(scopes[s].defers, f)]
    OBVIOUS
  <1>2. /\ Typed /\ n \in Nat /\ (stack = << >> <=> n = 0)
        /\ Live \subseteq DOMAIN scopes /\ s \in DOMAIN scopes
        /\ scopes[s] \in ScopeRecord /\ scopes[s].defers \in Seq(Nat)
    BY <1>1, StackTypes, ScopeTypes DEF ScopeInv, Depth
  <1>3. f \in Nat
    BY <1>2, IndexTypes DEF Client
  <1>4. /\ r \in ScopeRecord /\ r.parent = scopes[s].parent /\ r.depth = scopes[s].depth
        /\ r.freed = scopes[s].freed /\ r.ran = scopes[s].ran
        /\ r.defers = Append(scopes[s].defers, f)
    <2>1. Append(scopes[s].defers, f) \in Seq(Nat)
      BY <1>2, <1>3
    <2> QED
      BY <1>1, <1>2, <2>1 DEF ScopeRecord
  <1>5. scopes' = [scopes EXCEPT ![s] = r]
    BY <1>1 DEF GpDefer
  <1>6. /\ scopes' \in Seq(ScopeRecord) /\ Len(scopes') = Len(scopes)
        /\ DOMAIN scopes' = DOMAIN scopes
        /\ scopes'[s] = r /\ \A t \in DOMAIN scopes : t # s => scopes'[t] = scopes[t]
        /\ \A t \in DOMAIN scopes : /\ scopes'[t].parent = scopes[t].parent
                                    /\ scopes'[t].depth = scopes[t].depth
        /\ Live' = Live /\ \A d : At(d)' = At(d)
    BY <1>2, <1>4, <1>5, ScopeChanged
  <1>7. last' = last /\ stack' = stack /\ phase' = phase /\ passes' = passes /\ Depth' = n
    BY <1>1 DEF GpDefer, Depth
  <1>8. s \notin Executing /\ ~ IsExecuting(s)
    BY <1>2, ExecutingNow DEF GpDefer
  <1>9. n # 0 => f = Client
    BY <1>2 DEF GpDefer, EndsAreCalled
  <1>10. n # 0 => \A t \in Live : OnlyClients(t) => OnlyClients(t)'
    <2>1. ASSUME n # 0, OnlyClients(s)
          PROVE  OnlyClients(s)'
      <3>1. PICK k : k = Len(scopes[s].defers)
        OBVIOUS
      <3>2. /\ k \in Nat /\ DOMAIN scopes[s].defers = 1 .. k /\ DOMAIN r.defers = 1 .. k + 1
            /\ \A i \in 1 .. k : r.defers[i] = scopes[s].defers[i]
            /\ r.defers[k + 1] = f
        BY <1>2, <1>3, <1>4, <3>1
      <3>3. \A i \in 1 .. k + 1 : i \in 1 .. k \/ i = k + 1
        BY <3>2
      <3> QED
        BY <1>6, <1>9, <2>1, <3>2, <3>3 DEF OnlyClients
    <2>2. ASSUME NEW t \in Live, t # s, OnlyClients(t)
          PROVE  OnlyClients(t)'
      BY <1>2, <1>6, <2>2 DEF OnlyClients
    <2> QED
      BY <2>1, <2>2
  <1>11. Typed' /\ StackSound' /\ PlacedSound'
    <2>1. Typed'
      BY <1>2, <1>6, <1>7 DEF Typed
    <2>2. StackSound'
      BY <1>1, <1>7 DEF ScopeInv, StackSound
    <2>3. PlacedSound'
      BY <1>1, <1>2, <1>6, <1>7 DEF ScopeInv, PlacedSound
    <2> QED
      BY <2>1, <2>2, <2>3
  <1>12. FramesSound'
    <2>1. ASSUME NEW i \in 1 .. n, stack'[i] # Callback
          PROVE  FrameSound(i)'
      <3>1. FrameSound(i) /\ stack[i] # Callback /\ n # 0
        BY <1>1, <1>2, <1>7, <2>1 DEF ScopeInv, FramesSound
      <3>2. stack[i].child # s /\ stack[i].child \in DOMAIN scopes
        BY <1>1, <1>2, <1>8, <3>1 DEF IsExecuting, FrameSound, IsNewest, At
      <3>3. scopes'[stack[i].child] = scopes[stack[i].child] /\ stack'[i] = stack[i]
        BY <1>6, <1>7, <3>2
      <3> QED
        BY <1>6, <1>7, <1>10, <3>1, <3>3 DEF FrameSound, IsNewest
    <2> QED
      BY <1>7, <2>1 DEF FramesSound
  <1>13. LastSound'
    <2>1. last # NoScope => last \in DOMAIN scopes
      BY <1>2, ScopeTypes DEF Typed, NoScope
    <2> QED
      BY <1>1, <1>6, <1>7, <2>1 DEF ScopeInv, LastSound, ClientOnTop, AtBottom
  <1>14. ParentsSound'
    BY <1>6, <1>7, ParentsKept
  <1>15. RansSound'
    <2>1. \A t : t \in Executing' <=> t \in Executing
      BY <1>7 DEF Executing
    <2>2. ASSUME NEW t \in DOMAIN scopes, t # s
          PROVE  RanSound(t)'
      BY <1>6, <2>1, <2>2 DEF ScopeInv, RansSound, RanSound
    <2>3. RanSound(s)'
      <3>1. scopes[s].ran = << >>
        BY <1>2, <1>8 DEF ScopeInv, RansSound, RanSound
      <3>2. scopes'[s].ran = << >>
        BY <1>4, <1>6, <3>1
      <3> QED
        BY <1>6, <3>2 DEF RanSound
    <2> QED
      BY <1>6, <2>2, <2>3 DEF RansSound
  <1>16. EndSound'
    BY <1>1, <1>6, <1>7 DEF ScopeInv, EndSound
  <1> QED
    BY <1>11, <1>12, <1>13, <1>14, <1>15, <1>16 DEF ScopeInv

(* The top call runs one of the functions deferred on its scope: client    *)
(* code, or an end that finds no scope when a thread destructor runs it.   *)
RunsDefer(c, r, f) ==
  /\ Depth # 0 /\ Top # Callback /\ c = Top.child /\ Top.left > 0
  /\ r = [scopes[c] EXCEPT !.ran = Append(scopes[c].ran, Top.left)]
  /\ f = [Top EXCEPT !.left = Top.left - 1]
  /\ scopes' = [scopes EXCEPT ![c] = r]
  /\ UNCHANGED << last, phase, passes >>
  /\ \/ stack' = WithTop(f) \o << Callback >>
     \/ stack' = WithTop(f) /\ last = NoScope

(* What a deferred function that runs changes, and what it leaves alone.   *)
LEMMA DeferRunMoves ==
  ASSUME ScopeInv, NEW c, NEW r, NEW f, RunsDefer(c, r, f), NEW n, n = Depth,
         NEW left, left = Top.left
  PROVE  /\ r \in ScopeRecord /\ r.parent = scopes[c].parent /\ r.depth = scopes[c].depth
         /\ r.freed = scopes[c].freed /\ r.defers = scopes[c].defers
         /\ r.ran = Append(scopes[c].ran, left)
         /\ scopes' \in Seq(ScopeRecord) /\ Len(scopes') = Len(scopes)
         /\ DOMAIN scopes' = DOMAIN scopes
         /\ scopes'[c] = r /\ \A t \in DOMAIN scopes : t # c => scopes'[t] = scopes[t]
         /\ \A t \in DOMAIN scopes : /\ scopes'[t].parent = scopes[t].parent
                                     /\ scopes'[t].depth = scopes[t].depth
         /\ Live' = Live /\ \A d : At(d)' = At(d)
         /\ f \in Frame /\ f.kind = Top.kind /\ f.scope = Top.scope /\ f.child = Top.child
         /\ f.left = left - 1 /\ f # Callback
         /\ stack' \in Seq(Frame \cup {Callback}) /\ stack'[n] = f
         /\ \A i \in 1 .. n : i # n => stack'[i] = stack[i]
         /\ \/ Depth' = n + 1 /\ stack'[n + 1] = Callback
            \/ Depth' = n /\ last = NoScope
  <1>1. /\ Typed /\ n \in Nat \ {0} /\ n \in 1 .. n /\ stack[n] = Top /\ Top \in Frame
        /\ Top # Callback /\ c = Top.child /\ left \in Nat /\ left > 0
        /\ last' = last /\ phase' = phase /\ passes' = passes
    BY StackTypes DEF ScopeInv, Top, Depth, RunsDefer
  <1>2. FrameSound(n)
    BY <1>1 DEF ScopeInv, FramesSound
  <1>3. c \in Live /\ scopes[c].depth = n - 1 /\ c \in At(n - 1) /\ c \in DOMAIN scopes
    BY <1>1, <1>2, ScopeTypes DEF FrameSound, IsNewest, At
  <1>4. /\ scopes[c] \in ScopeRecord /\ scopes[c].ran \in Seq(Nat)
        /\ Len(scopes[c].ran) \in Nat /\ Len(scopes[c].defers) \in Nat
        /\ Len(scopes[c].ran) + left = Len(scopes[c].defers)
    BY <1>1, <1>2, <1>3, ScopeTypes DEF FrameSound
  <1>5. /\ r \in ScopeRecord /\ r.parent = scopes[c].parent /\ r.depth = scopes[c].depth
        /\ r.freed = scopes[c].freed /\ r.defers = scopes[c].defers
        /\ r.ran = Append(scopes[c].ran, left)
    <2>1. Append(scopes[c].ran, left) \in Seq(Nat)
      BY <1>1, <1>4
    <2>2. r = [scopes[c] EXCEPT !.ran = Append(scopes[c].ran, left)]
      BY DEF RunsDefer
    <2> QED
      BY <1>4, <2>1, <2>2 DEF ScopeRecord
  <1>6. /\ scopes' \in Seq(ScopeRecord) /\ Len(scopes') = Len(scopes)
        /\ DOMAIN scopes' = DOMAIN scopes
        /\ scopes'[c] = r /\ \A t \in DOMAIN scopes : t # c => scopes'[t] = scopes[t]
        /\ \A t \in DOMAIN scopes : /\ scopes'[t].parent = scopes[t].parent
                                    /\ scopes'[t].depth = scopes[t].depth
        /\ Live' = Live /\ \A d : At(d)' = At(d)
    BY <1>1, <1>3, <1>5, ScopeChanged DEF RunsDefer
  <1>7. /\ f \in Frame /\ f.kind = Top.kind /\ f.scope = Top.scope /\ f.child = Top.child
        /\ f.left = left - 1 /\ f # Callback
    <2>1. f = [Top EXCEPT !.left = left - 1] /\ left - 1 \in Nat
      BY <1>1 DEF RunsDefer
    <2> QED
      BY <1>1, <2>1 DEF Frame, Callback
  <1>8. /\ stack' \in Seq(Frame \cup {Callback}) /\ stack'[n] = f
        /\ \A i \in 1 .. n : i # n => stack'[i] = stack[i]
        /\ \/ Depth' = n + 1 /\ stack'[n + 1] = Callback
           \/ Depth' = n /\ last = NoScope
    <2>1. WithTop(f) \in Seq(Frame \cup {Callback}) /\ Len(WithTop(f)) = n
          /\ WithTop(f)[n] = f
          /\ \A i \in 1 .. n : i # n => WithTop(f)[i] = stack[i]
      BY <1>1, <1>7 DEF WithTop, Depth, Typed
    <2>2. CASE stack' = WithTop(f) \o << Callback >>
      <3>1. ASSUME NEW w, w = WithTop(f)
            PROVE  /\ stack' \in Seq(Frame \cup {Callback}) /\ Len(stack') = n + 1
                   /\ stack'[n + 1] = Callback /\ \A i \in 1 .. n : stack'[i] = w[i]
        <4>1. w \in Seq(Frame \cup {Callback}) /\ Len(w) = n /\ stack' = w \o << Callback >>
          BY <2>1, <2>2, <3>1
        <4> QED
          BY <4>1
      <3> QED
        BY <1>1, <2>1, <3>1 DEF Depth
    <2>3. CASE stack' = WithTop(f) /\ last = NoScope
      BY <2>1, <2>3 DEF Depth
    <2> QED
      BY <2>2, <2>3 DEF RunsDefer
  <1> QED
    BY <1>5, <1>6, <1>7, <1>8

(* A deferred function that runs, the end of a scope or a client, keeps    *)
(* the invariant.                                                          *)
LEMMA DeferRunKeeps ==
  ASSUME ScopeInv, NEW c, NEW r, NEW f, RunsDefer(c, r, f)
  PROVE  ScopeInv'
  <1>1. PICK n, left : n = Depth /\ left = Top.left
    OBVIOUS
  <1>2. /\ Typed /\ n \in Nat \ {0} /\ n \in 1 .. n /\ stack[n] = Top /\ Top \in Frame
        /\ Top # Callback /\ c = Top.child /\ left \in Nat /\ left > 0
        /\ last' = last /\ phase' = phase /\ passes' = passes
    BY <1>1, StackTypes DEF ScopeInv, Top, Depth, RunsDefer
  <1>3. FrameSound(n)
    BY <1>1, <1>2 DEF ScopeInv, FramesSound
  <1>4. c \in Live /\ scopes[c].depth = n - 1 /\ c \in At(n - 1) /\ c \in DOMAIN scopes
    BY <1>2, <1>3, ScopeTypes DEF FrameSound, IsNewest, At
  <1>5. /\ scopes[c] \in ScopeRecord /\ scopes[c].ran \in Seq(Nat)
        /\ Len(scopes[c].ran) \in Nat /\ Len(scopes[c].defers) \in Nat
        /\ Len(scopes[c].ran) + left = Len(scopes[c].defers)
    BY <1>1, <1>2, <1>3, <1>4, ScopeTypes DEF FrameSound
  <1>6. /\ r \in ScopeRecord /\ r.parent = scopes[c].parent /\ r.depth = scopes[c].depth
        /\ r.freed = scopes[c].freed /\ r.defers = scopes[c].defers
        /\ r.ran = Append(scopes[c].ran, left)
    BY <1>1, DeferRunMoves
  <1>7. /\ DOMAIN scopes[c].ran = 1 .. Len(scopes[c].ran) /\ Len(r.ran) = Len(scopes[c].ran) + 1
        /\ DOMAIN r.ran = 1 .. Len(scopes[c].ran) + 1
        /\ \A i \in 1 .. Len(scopes[c].ran) : r.ran[i] = scopes[c].ran[i]
        /\ r.ran[Len(scopes[c].ran) + 1] = left
    BY <1>2, <1>5, <1>6
  <1>8. /\ scopes' \in Seq(ScopeRecord) /\ Len(scopes') = Len(scopes)
        /\ DOMAIN scopes' = DOMAIN scopes
        /\ scopes'[c] = r /\ \A t \in DOMAIN scopes : t # c => scopes'[t] = scopes[t]
        /\ \A t \in DOMAIN scopes : /\ scopes'[t].parent = scopes[t].parent
                                    /\ scopes'[t].depth = scopes[t].depth
        /\ Live' = Live /\ \A d : At(d)' = At(d)
    BY <1>1, DeferRunMoves
  <1>9. /\ f \in Frame /\ f.kind = Top.kind /\ f.scope = Top.scope /\ f.child = Top.child
        /\ f.left = left - 1 /\ f # Callback
    BY <1>1, DeferRunMoves
  <1>10. /\ stack' \in Seq(Frame \cup {Callback}) /\ stack'[n] = f
         /\ \A i \in 1 .. n : i # n => stack'[i] = stack[i]
         /\ \/ Depth' = n + 1 /\ stack'[n + 1] = Callback
            \/ Depth' = n /\ last = NoScope
    BY <1>1, DeferRunMoves
  <1>11. \A i \in 1 .. n : /\ stack'[i] = Callback <=> stack[i] = Callback
                           /\ stack'[i].kind = stack[i].kind
                           /\ stack'[i].child = stack[i].child
    BY <1>2, <1>9, <1>10
  <1>12. Depth' \in Nat \ {0} /\ (n # 1 \/ phase' # "gone")
    BY <1>1, <1>2, <1>10 DEF ScopeInv, StackSound
  <1>13. phase # "gone" /\ phase' # "gone"
    BY <1>1, <1>2 DEF ScopeInv, StackSound
  <1>14. Typed'
    BY <1>2, <1>8, <1>10 DEF Typed
  <1>15. StackSound'
    <2>1. stack[1] # Callback /\ stack'[1] # Callback
      BY <1>1, <1>2, <1>11 DEF ScopeInv, StackSound
    <2>2. ASSUME NEW i \in 1 .. Depth' - 1
          PROVE  stack'[i + 1] = Callback <=> stack'[i] # Callback
      <3>1. CASE i = n
        BY <1>2, <1>9, <1>10, <2>2, <3>1
      <3>2. CASE i # n
        <4>1. i \in 1 .. n - 1 /\ i \in 1 .. n /\ i + 1 \in 1 .. n
          BY <1>2, <1>10, <2>2, <3>2
        <4>2. stack[i + 1] = Callback <=> stack[i] # Callback
          BY <1>1, <4>1 DEF ScopeInv, StackSound
        <4> QED
          BY <1>11, <4>1, <4>2
      <3> QED
        BY <3>1, <3>2
    <2>3. ASSUME NEW i \in 1 .. Depth', stack'[i] # Callback
          PROVE  stack'[i].kind = "delete" <=> i = 1 /\ phase' # "running"
      <3>1. i \in 1 .. n
        <4>1. i # n + 1 \/ Depth' = n
          BY <1>10, <2>3
        <4> QED
          BY <1>2, <1>10, <2>3, <4>1
      <3>2. stack[i] # Callback /\ stack'[i].kind = stack[i].kind
        BY <1>11, <2>3, <3>1
      <3> QED
        BY <1>1, <1>2, <3>1, <3>2 DEF ScopeInv, StackSound
    <2> QED
      BY <1>13, <2>1, <2>2, <2>3 DEF StackSound
  <1>16. PlacedSound'
    <2>1. ASSUME NEW s \in Live', scopes'[s].depth # 0
          PROVE  scopes'[s].depth <= n /\ stack'[scopes'[s].depth] = Callback
      <3>1. PICK d : d = scopes'[s].depth
        OBVIOUS
      <3>2. d = scopes[s].depth /\ d \in Nat /\ d # 0
        BY <1>2, <1>8, <2>1, <3>1, ScopeTypes
      <3>3. d <= n /\ stack[d] = Callback
        BY <1>1, <1>8, <2>1, <3>2 DEF ScopeInv, PlacedSound
      <3> QED
        BY <1>2, <1>11, <3>1, <3>2, <3>3
    <2>2. \A s, t \in Live' : scopes'[s].depth < scopes'[t].depth => s < t
      BY <1>2, <1>8, ScopeTypes DEF ScopeInv, PlacedSound
    <2>3. \A s \in Live' : scopes'[s].depth <= n => scopes'[s].depth <= Depth'
      <3>1. \A s \in Live' : scopes'[s].depth \in Nat
        BY <1>2, <1>8, ScopeTypes
      <3> QED
        BY <1>2, <1>10, <3>1
    <2> QED
      BY <2>1, <2>2, <2>3 DEF PlacedSound
  <1>17. \A t \in Live' : OnlyClients(t)' \/ (t \in Live /\ ~ OnlyClients(t))
    <2>1. ASSUME NEW t \in Live'
          PROVE  scopes'[t].defers = scopes[t].defers
      BY <1>2, <1>6, <1>8, ScopeTypes
    <2> QED
      BY <1>8, <2>1 DEF OnlyClients
  <1>18. FramesSound'
    <2>1. FrameSound(n)'
      <3>1. Len(scopes'[c].ran) + f.left = Len(scopes'[c].defers)
        <4>1. PICK k : k = Len(scopes[c].ran)
          OBVIOUS
        <4>2. Len(scopes'[c].ran) = k + 1 /\ scopes'[c].defers = scopes[c].defers
          BY <1>6, <1>7, <1>8, <4>1
        <4>3. k + left = Len(scopes[c].defers) /\ k \in Nat /\ left \in Nat
          BY <1>2, <1>5, <4>1
        <4>4. (k + 1) + (left - 1) = k + left
          BY <4>3
        <4> QED
          BY <1>9, <4>2, <4>3, <4>4
      <3>2. /\ IsNewest(c, At(n - 1))
            /\ Top.kind = "end" =>
                 /\ Top.scope \in At(n - 1)
                 /\ \A t \in Live : t >= Top.scope => OnlyClients(t)
            /\ phase = "exiting" => \A t \in Live : OnlyClients(t)
        BY <1>2, <1>3 DEF FrameSound
      <3> QED
        BY <1>2, <1>8, <1>9, <1>10, <1>17, <3>1, <3>2 DEF FrameSound, IsNewest
    <2>2. ASSUME NEW i \in 1 .. n - 1, stack'[i] # Callback
          PROVE  FrameSound(i)'
      <3>1. i \in 1 .. n /\ i # n
        BY <1>2, <2>2
      <3>2. FrameSound(i) /\ stack'[i] = stack[i]
        BY <1>1, <1>10, <2>2, <3>1 DEF ScopeInv, FramesSound
      <3>3. /\ stack[i].child \in At(i - 1) /\ stack[i].child \in DOMAIN scopes
            /\ stack[i].child # c
            /\ stack[i].kind = "end" => stack[i].scope \in At(i - 1)
        BY <1>2, <1>4, <3>1, <3>2, ScopeTypes DEF FrameSound, IsNewest, At
      <3>4. /\ Len(scopes'[stack[i].child].ran) = Len(scopes[stack[i].child].ran)
            /\ Len(scopes'[stack[i].child].defers) = Len(scopes[stack[i].child].defers)
        BY <1>8, <3>3
      <3>5. At(i - 1)' = At(i - 1)
        BY <1>8
      <3> QED
        BY <1>2, <1>17, <3>2, <3>3, <3>4, <3>5, FrameKept
    <2>3. ASSUME NEW i \in 1 .. Depth', stack'[i] # Callback
          PROVE  i = n \/ i \in 1 .. n - 1
      BY <1>2, <1>10, <2>3
    <2> QED
      BY <2>1, <2>2, <2>3 DEF FramesSound
  <1>19. LastSound'
    <2>1. last # NoScope => scopes[last].depth < n /\ (n = 1 => phase # "destroying")
      BY <1>1, <1>2 DEF ScopeInv, LastSound, ClientOnTop
    <2>2. CASE Depth' = n /\ last = NoScope
      <3>1. ~ ClientOnTop'
        BY <1>2, <1>9, <1>10, <2>2 DEF ClientOnTop
      <3> QED
        BY <1>2, <2>2, <3>1 DEF LastSound
    <2>3. CASE Depth' = n + 1 /\ stack'[n + 1] = Callback
      <3>1. ClientOnTop'
        BY <1>2, <2>3 DEF ClientOnTop
      <3>2. At(n + 1)' = {}
        <4>1. \A s \in Live : scopes[s].depth \in Nat
                              /\ (scopes[s].depth # 0 => scopes[s].depth <= n)
          BY <1>1, <1>2, ScopeTypes DEF ScopeInv, PlacedSound
        <4>2. \A s \in Live : scopes[s].depth # n + 1
          BY <1>2, <4>1
        <4>3. At(n + 1) = {}
          BY <4>2 DEF At
        <4> QED
          BY <1>8, <4>3
      <3>3. last # NoScope => last \in DOMAIN scopes
        BY <1>2, ScopeTypes DEF Typed, NoScope
      <3>4. last # NoScope => ~ AtBottom(n + 1)' /\ scopes'[last].depth < (n + 1) - 1
        BY <1>2, <1>8, <2>1, <3>3 DEF AtBottom
      <3> QED
        BY <1>2, <2>3, <3>1, <3>2, <3>4 DEF LastSound
    <2> QED
      BY <1>10, <2>2, <2>3
  <1>20. ParentsSound'
    BY <1>2, <1>8, ParentsKept
  <1>21. RansSound'
    <2>1. ASSUME NEW s, IsExecuting(s)
          PROVE  IsExecuting(s)'
      <3>1. PICK i \in 1 .. n : stack[i] # Callback /\ s = stack[i].child
        BY <1>1, <2>1 DEF IsExecuting
      <3>2. i \in 1 .. Depth'
        BY <1>2, <1>10
      <3> QED
        BY <1>11, <3>1, <3>2 DEF IsExecuting
    <2>2. \A s \in Live' \ Executing' : s \in Live \ Executing
      BY <1>2, <1>8, <1>14, <2>1, ExecutingNow, ExecutingNext
    <2>3. ASSUME NEW s \in DOMAIN scopes, s # c
          PROVE  RanSound(s)'
      BY <1>8, <2>2, <2>3 DEF ScopeInv, RansSound, RanSound
    <2>4. RanSound(c)'
      <3>1. \A i \in DOMAIN scopes[c].ran : scopes[c].ran[i] = Len(scopes[c].defers) + 1 - i
        BY <1>4 DEF ScopeInv, RansSound, RanSound
      <3>2. ASSUME NEW i \in DOMAIN r.ran
            PROVE  r.ran[i] = Len(r.defers) + 1 - i
        <4>1. CASE i = Len(scopes[c].ran) + 1
          <5>1. PICK k, m : k = Len(scopes[c].ran) /\ m = Len(scopes[c].defers)
            OBVIOUS
          <5>2. k \in Nat /\ m \in Nat /\ k + left = m /\ left \in Nat
            BY <1>2, <1>5, <5>1
          <5>3. left = m + 1 - (k + 1)
            BY <5>2
          <5> QED
            BY <1>6, <1>7, <4>1, <5>1, <5>3
        <4>2. CASE i # Len(scopes[c].ran) + 1
          <5>1. i \in 1 .. Len(scopes[c].ran)
            BY <1>5, <1>7, <3>2, <4>2
          <5> QED
            BY <1>6, <1>7, <3>1, <5>1
        <4> QED
          BY <4>1, <4>2
      <3>3. IsExecuting(c)
        BY <1>1, <1>2 DEF IsExecuting
      <3>4. c \in Executing'
        BY <1>14, <2>1, <3>3, ExecutingNext
      <3> QED
        BY <1>4, <1>8, <3>2, <3>4 DEF RanSound
    <2> QED
      BY <1>8, <2>3, <2>4 DEF RansSound
  <1>22. EndSound'
    BY <1>1, <1>2, <1>12, <1>13 DEF ScopeInv, EndSound
  <1> QED
    BY <1>14, <1>15, <1>16, <1>18, <1>19, <1>20, <1>21, <1>22 DEF ScopeInv

(* A call that has functions left runs the last one.                       *)
LEMMA RunDeferRuns ==
  ASSUME ScopeInv, RunDefer
  PROVE  \E c, r, f : RunsDefer(c, r, f)
  <1>1. PICK n, c, left, r, f :
          /\ n = Depth /\ c = Top.child /\ left = Top.left
          /\ r = [scopes[c] EXCEPT !.ran = Append(scopes[c].ran, Top.left)]
          /\ f = [Top EXCEPT !.left = Top.left - 1]
    OBVIOUS
  <1>2. /\ Typed /\ n \in Nat \ {0} /\ n \in 1 .. n /\ stack[n] = Top /\ Top \in Frame
        /\ Top # Callback /\ left \in Nat /\ left > 0 /\ Top.kind \in {"end", "delete"}
    <2>1. Typed /\ stack # << >> /\ Top # Callback /\ Top.left > 0
      BY DEF ScopeInv, RunDefer
    <2>2. n \in Nat \ {0} /\ n \in 1 .. n /\ stack[n] = Top
      BY <1>1, <2>1, StackTypes DEF Top, Depth
    <2>3. Top \in Frame /\ Top.kind \in {"end", "delete"} /\ Top.left \in Nat
      BY <1>1, <2>1, <2>2, StackTypes
    <2> QED
      BY <1>1, <2>1, <2>2, <2>3
  <1>3. FrameSound(n) /\ (Top.kind = "delete" <=> n = 1 /\ phase # "running") /\ phase # "gone"
    BY <1>1, <1>2 DEF ScopeInv, FramesSound, StackSound
  <1>4. /\ c \in Live /\ c \in DOMAIN scopes /\ Len(scopes[c].ran) \in Nat
        /\ Len(scopes[c].defers) \in Nat /\ scopes[c].defers \in Seq(Nat)
        /\ Len(scopes[c].ran) + left = Len(scopes[c].defers)
    BY <1>1, <1>2, <1>3, ScopeTypes DEF FrameSound, IsNewest, At
  <1>5. left \in DOMAIN scopes[c].defers
    BY <1>2, <1>4
  <1>6. scopes' = [scopes EXCEPT ![c] = r]
    BY <1>1 DEF RunDefer, NextDefer
  <1>7. /\ stack' = WithTop(f) \o (IF scopes[c].defers[left] = Client THEN << Callback >>
                                   ELSE EndCall(scopes[c].defers[left]))
        /\ UNCHANGED << last, phase, passes >>
    BY <1>1 DEF RunDefer, NextDefer
  <1>8. OnlyClients(c) \/ last = NoScope
    <2>1. CASE Top.kind = "end"
      <3>1. c >= Top.scope
        <4>1. Top.scope \in At(n - 1) /\ \A t \in At(n - 1) : t <= c
          BY <1>1, <1>2, <1>3, <2>1 DEF FrameSound, IsNewest
        <4>2. Top.scope <= c /\ Top.scope \in Nat /\ c \in Nat
          BY <1>2, <1>4, <4>1, IndexTypes DEF At, Frame
        <4> QED
          BY <4>2
      <3> QED
        BY <1>2, <1>3, <1>4, <2>1, <3>1 DEF FrameSound
    <2>2. CASE Top.kind = "delete" /\ phase = "exiting"
      BY <1>3, <1>4, <2>2 DEF FrameSound
    <2>3. CASE Top.kind = "delete" /\ phase = "destroying"
      <3>1. n = 1 /\ ~ ClientOnTop
        BY <1>1, <1>2, <1>3, <2>3 DEF ClientOnTop
      <3> QED
        BY <1>1, <2>3, <3>1 DEF ScopeInv, LastSound
    <2> QED
      BY <1>2, <1>3, <2>1, <2>2, <2>3 DEF Typed
  <1>9. \/ stack' = WithTop(f) \o << Callback >>
        \/ stack' = WithTop(f) /\ last = NoScope
    <2>1. CASE scopes[c].defers[left] = Client
      BY <1>7, <2>1
    <2>2. CASE scopes[c].defers[left] # Client
      <3>1. last = NoScope
        BY <1>5, <1>8, <2>2 DEF OnlyClients
      <3>2. stack' = WithTop(f) \o << >>
        BY <1>7, <2>2, <3>1 DEF EndCall
      <3>3. f \in Frame
        <4>1. left - 1 \in Nat
          BY <1>2
        <4> QED
          BY <1>1, <1>2, <4>1 DEF Frame
      <3>4. WithTop(f) \in Seq(Frame \cup {Callback})
        BY <1>1, <1>2, <3>3 DEF WithTop, Typed, Depth
      <3>5. WithTop(f) \o << >> = WithTop(f)
        BY <3>4
      <3> QED
        BY <3>1, <3>2, <3>5
    <2> QED
      BY <2>1, <2>2
  <1>10. RunsDefer(c, r, f)
    BY <1>1, <1>2, <1>6, <1>7, <1>9 DEF RunsDefer
  <1> QED
    BY <1>10

(* Steps that change nothing keep the invariant.                           *)
LEMMA ScopeStutters == ScopeInv /\ UNCHANGED scopeVars => ScopeInv'
  <1> SUFFICES ASSUME ScopeInv, UNCHANGED scopeVars PROVE ScopeInv'
    OBVIOUS
  <1>1. scopes' = scopes /\ last' = last /\ stack' = stack /\ phase' = phase /\ passes' = passes
    BY DEF scopeVars
  <1>2. Live' = Live /\ Depth' = Depth /\ Executing' = Executing
    BY <1>1 DEF Live, Depth, Executing
  <1>3. \A d : At(d)' = At(d) /\ AtBottom(d)' = AtBottom(d)
    BY <1>1, <1>2 DEF At, AtBottom
  <1>4. \A s : OnlyClients(s)' = OnlyClients(s)
    BY <1>1 DEF OnlyClients
  <1>5. Typed' /\ StackSound' /\ PlacedSound'
    BY <1>1, <1>2 DEF ScopeInv, Typed, StackSound, PlacedSound
  <1>6. FramesSound'
    BY <1>1, <1>2, <1>3, <1>4 DEF ScopeInv, FramesSound, FrameSound, IsNewest
  <1>7. LastSound'
    BY <1>1, <1>2, <1>3 DEF ScopeInv, LastSound, ClientOnTop
  <1>8. ParentsSound'
    BY <1>1, <1>2, <1>3 DEF ScopeInv, ParentsSound, ParentSound
  <1>9. RansSound'
    BY <1>1, <1>2 DEF ScopeInv, RansSound, RanSound
  <1>10. EndSound'
    BY <1>1, <1>2, <1>3 DEF ScopeInv, EndSound
  <1> QED
    BY <1>5, <1>6, <1>7, <1>8, <1>9, <1>10 DEF ScopeInv

(* Every step keeps the invariant.                                         *)
LEMMA ScopeStepSound == EndsAreCalled /\ ScopeInv /\ [ScopeNext]_scopeVars => ScopeInv'
  <1> SUFFICES ASSUME EndsAreCalled, ScopeInv, [ScopeNext]_scopeVars PROVE ScopeInv'
    OBVIOUS
  <1>1. CASE GpBegin
    BY <1>1, GpBeginKeeps
  <1>2. ASSUME NEW s \in Live, NEW f \in {Client} \cup Live, GpDefer(s, f)
        PROVE  ScopeInv'
    BY <1>2, GpDeferKeeps
  <1>3. ASSUME NEW s \in Live, GpEnd(s)
        PROVE  ScopeInv'
    BY <1>3, GpEndCalls, CallKeeps
  <1>4. CASE CallbackReturns
    BY <1>4, CallbackReturnsKeeps
  <1>5. CASE Exit
    BY <1>5, ExitKeeps
  <1>6. CASE ThreadExit \/ ThreadGone \/ ExitDone
    BY <1>6, PhaseStepsKeep
  <1>7. CASE RunDefer
    BY <1>7, RunDeferRuns, DeferRunKeeps
  <1>8. CASE FreeInner
    BY <1>8, FreeInnerGoesOn, FreedAndOn
  <1>9. CASE FinishEnd
    BY <1>9, FinishEndReturns, FreedAndBack
  <1>10. CASE DeleteNext
    BY <1>10, DeleteNextFrees, FreedAndOn, FreedAndBack
  <1>11. CASE Destructor
    BY <1>11, DestructorCalls, CallKeeps
  <1>12. CASE UNCHANGED scopeVars
    BY <1>12, ScopeStutters
  <1> QED
    BY <1>1, <1>2, <1>3, <1>4, <1>5, <1>6, <1>7, <1>8, <1>9, <1>10, <1>11, <1>12
    DEF ScopeNext, Library

------------------------------------------------------------------------------

(***************************************************************************)
(* What is to be known of the scopes of a thread and of the calls that are *)
(* in progress, for gp_end, the deletion of scopes at exit and client code *)
(* to work together (gp_s_scope_list_key in src/src/memory.c).             *)
(***************************************************************************)
THEOREM ScopeInvariant ==
  ASSUME EndsAreCalled
  PROVE  ScopeSpec => []ScopeInv
  <1>1. ScopeInv /\ [ScopeNext]_scopeVars => ScopeInv'
    BY ScopeStepSound
  <1> QED
    BY <1>1, ScopeInitSound, PTL DEF ScopeSpec

(***************************************************************************)
(* gp_s_scope_execute_defers calls what was deferred on a scope from the   *)
(* last function to the first, each of them once.                          *)
(***************************************************************************)
THEOREM DefersInOrder ==
  ASSUME EndsAreCalled
  PROVE  ScopeSpec => []DefersRunInOrder
  <1>1. ScopeInv => DefersRunInOrder
    <2> SUFFICES ASSUME ScopeInv, NEW s \in DOMAIN scopes,
                        NEW i \in DOMAIN scopes[s].ran, NEW j \in DOMAIN scopes[s].ran, i < j
                 PROVE  scopes[s].ran[i] > scopes[s].ran[j]
      BY DEF DefersRunInOrder
    <2>1. /\ scopes[s].ran[i] = Len(scopes[s].defers) + 1 - i
          /\ scopes[s].ran[j] = Len(scopes[s].defers) + 1 - j
      BY DEF ScopeInv, RansSound, RanSound
    <2>2. /\ Len(scopes[s].defers) \in Nat
          /\ scopes[s].ran \in Seq(Nat)
      BY ScopeTypes DEF ScopeInv
    <2>3. i \in Nat /\ j \in Nat
      BY <2>2
    <2> QED
      BY <2>1, <2>2, <2>3
  <1> QED
    BY <1>1, ScopeInvariant, PTL

(***************************************************************************)
(* Nothing that was deferred is forgotten when gp_end frees a scope or the *)
(* thread is gone.                                                         *)
(***************************************************************************)
THEOREM NothingIsLost ==
  ASSUME EndsAreCalled
  PROVE  ScopeSpec => []NothingLost
  <1>1. ScopeInv => NothingLost
    <2> SUFFICES ASSUME ScopeInv PROVE NothingLost
      OBVIOUS
    <2>1. FreedAfterDefers
      BY DEF FreedAfterDefers, ScopeInv, RansSound, RanSound, Live
    <2>2. NothingLeft
      BY DEF NothingLeft, ScopeInv, StackSound, EndSound
    <2> QED
      BY <2>1, <2>2 DEF NothingLost
  <1> QED
    BY <1>1, ScopeInvariant, PTL

(***************************************************************************)
(* A scope that is being ended is the newest of its function: what was     *)
(* begun inside it is freed by then.                                       *)
(***************************************************************************)
THEOREM InnerGoesFirst ==
  ASSUME EndsAreCalled
  PROVE  ScopeSpec => []InnerFreedFirst
  <1>1. ScopeInv => InnerFreedFirst
    <2> SUFFICES ASSUME ScopeInv, NEW inner \in Live, NEW s \in DOMAIN scopes,
                        Inside(inner, s)
                 PROVE  ~ scopes[s].freed /\ scopes[s].ran = << >>
      BY DEF InnerFreedFirst
    <2>1. PICK d : d = scopes[s].depth
      OBVIOUS
    <2>2. /\ inner \in DOMAIN scopes /\ inner \in Nat /\ s \in Nat /\ s # NoScope /\ d \in Nat
          /\ scopes[inner].parent = s /\ scopes[inner].depth = d
      BY <2>1, ScopeTypes, IndexTypes DEF ScopeInv, Inside, NoScope
    <2>3. ParentSound(inner) /\ s < inner
      BY <2>2 DEF ScopeInv, ParentsSound, ParentSound
    <2>4. s \in Live /\ s \in At(d) /\ inner \in At(d)
      BY <2>1, <2>2, <2>3 DEF ParentSound, At
    <2>5. ~ IsExecuting(s)
      <3> SUFFICES ASSUME NEW i \in 1 .. Depth, stack[i] # Callback, s = stack[i].child
                   PROVE  FALSE
        BY DEF IsExecuting
      <3>1. IsNewest(s, At(i - 1))
        BY DEF ScopeInv, FramesSound, FrameSound
      <3>2. d = i - 1
        BY <2>1, <3>1 DEF IsNewest, At
      <3> QED
        BY <2>2, <2>3, <2>4, <3>1, <3>2 DEF IsNewest
    <2> QED
      BY <2>4, <2>5, ExecutingNow DEF ScopeInv, RansSound, RanSound, Live
  <1> QED
    BY <1>1, ScopeInvariant, PTL

------------------------------------------------------------------------------

(* What a list that function of depth d sees holds, after it left the      *)
(* function's own scopes at s: where the call that runs the function was   *)
(* and is still, or scopes that this call has freed and were newer.        *)
Led(d, s) ==
  d # 0 /\ s # NoScope =>
    /\ stack[d - 1].child <= s
    /\ s \in Live <=> s = stack[d - 1].child

LastLed ==
  IF ClientOnTop
  THEN last \in At(Depth) \/ Led(Depth, last)
  ELSE Led(Depth + 1, last)

ParentLed(s) ==
  LET p == scopes[s].parent
      d == scopes[s].depth
  IN  p \in At(d) \/ Led(d, p)

FollowSound(s) ==
  LET own == At(scopes[s].depth)
  IN  IsNewest(s, own) \/ \E t \in own : scopes[t].parent = s

(* Of the list: where it begins, how it goes on, and that it has all.      *)
ListInv == LastLed /\ \A s \in Live : ParentLed(s) /\ FollowSound(s)

(* Under a callback there is the call that made it, with its scope.        *)
LEMMA CallUnder ==
  ASSUME ScopeInv, NEW d \in 1 .. Depth, stack[d] = Callback
  PROVE  /\ d - 1 \in 1 .. Depth - 1 /\ stack[d - 1] # Callback
         /\ stack[d - 1].child \in At(d - 2) /\ stack[d - 1].child \in Live
         /\ stack[d - 1].child \in Nat
  <1>1. Typed /\ Depth \in Nat /\ d \in Nat /\ d # 1
    BY StackTypes DEF ScopeInv, StackSound
  <1>2. PICK i : i = d - 1
    OBVIOUS
  <1>3. i \in 1 .. Depth - 1 /\ i \in 1 .. Depth /\ i + 1 = d /\ i - 1 = d - 2
    BY <1>1, <1>2
  <1>4. stack[i] # Callback
    BY <1>3 DEF ScopeInv, StackSound
  <1>5. stack[i].child \in At(i - 1)
    BY <1>3, <1>4 DEF ScopeInv, FramesSound, FrameSound, IsNewest
  <1>6. stack[i].child \in Nat
    BY <1>1, <1>3, <1>4, StackTypes
  <1> QED
    BY <1>2, <1>3, <1>4, <1>5, <1>6 DEF At

(* Scopes are the scopes of a function that has not returned.              *)
LEMMA LiveDepth ==
  ASSUME ScopeInv, NEW s \in Live, NEW d, d = scopes[s].depth
  PROVE  /\ d \in Nat /\ d <= Depth /\ s \in At(d) /\ s \in Nat
         /\ scopes[s].parent \in Nat
         /\ d # 0 => d \in 1 .. Depth /\ stack[d] = Callback
  BY ScopeTypes, IndexTypes, StackTypes DEF ScopeInv, PlacedSound, At

(* Steps that leave alone the scopes, and where calls are, leave the list. *)
LEMMA ListKept ==
  ASSUME ScopeInv, ListInv, Live' = Live, \A d : At(d)' = At(d),
         \A s \in Live : /\ scopes'[s].parent = scopes[s].parent
                         /\ scopes'[s].depth = scopes[s].depth,
         \A i \in 1 .. Depth - 1 : stack'[i].child = stack[i].child
  PROVE  \A s \in Live' : ParentLed(s)' /\ FollowSound(s)'
  <1> SUFFICES ASSUME NEW s \in Live PROVE ParentLed(s)' /\ FollowSound(s)'
    OBVIOUS
  <1>1. PICK p, d : p = scopes[s].parent /\ d = scopes[s].depth
    OBVIOUS
  <1>2. p = scopes'[s].parent /\ d = scopes'[s].depth
    BY <1>1
  <1>3. ParentLed(s)'
    <2>1. p \in At(d) \/ Led(d, p)
      BY <1>1 DEF ListInv, ParentLed
    <2>2. d # 0 => stack'[d - 1].child = stack[d - 1].child
      BY <1>1, LiveDepth, CallUnder
    <2>3. p \in At(d)' \/ Led(d, p)'
      BY <2>1, <2>2 DEF Led
    <2> QED
      BY <1>2, <2>3 DEF ParentLed
  <1>4. FollowSound(s)'
    <2>1. IsNewest(s, At(d)) \/ \E t \in At(d) : scopes[t].parent = s
      BY <1>1 DEF ListInv, FollowSound
    <2>2. At(d) \subseteq Live
      BY DEF At
    <2>3. IsNewest(s, At(d)') \/ \E t \in At(d)' : scopes'[t].parent = s
      BY <2>1, <2>2
    <2> QED
      BY <1>2, <2>3 DEF FollowSound, IsNewest
  <1> QED
    BY <1>3, <1>4

(* The top call frees its scope: functions under it do not see that one.   *)
LEMMA LedFreed ==
  ASSUME ScopeInv, NEW c, FreesChild(c), NEW d \in 0 .. Depth - 1,
         d # 0 => stack[d] = Callback, NEW s, Led(d, s)
  PROVE  Led(d, s)'
  <1>1. PICK n : n = Depth
    OBVIOUS
  <1>2. /\ n \in Nat \ {0} /\ c \in Live /\ scopes[c].depth = n - 1 /\ Live' = Live \ {c}
        /\ \A i \in 1 .. n - 1 : stack'[i] = stack[i]
    BY <1>1, ChildFreed DEF FreesChild
  <1>3. CASE d # 0 /\ s # NoScope
    <2>1. d \in 1 .. n - 1 /\ d \in 1 .. Depth /\ stack[d] = Callback
      BY <1>1, <1>2, <1>3
    <2>2. stack[d - 1].child \in At(d - 2) /\ d - 1 \in 1 .. Depth - 1
      BY <2>1, CallUnder
    <2>3. stack'[d - 1] = stack[d - 1]
      BY <1>1, <1>2, <2>2
    <2>4. stack[d - 1].child # c
      <3>1. scopes[stack[d - 1].child].depth = d - 2
        BY <2>2 DEF At
      <3>2. d - 2 # n - 1
        BY <1>2, <2>1
      <3> QED
        BY <1>2, <3>1, <3>2
    <2>5. stack[d - 1].child <= s /\ (s \in Live <=> s = stack[d - 1].child)
      BY <1>3 DEF Led
    <2>6. s # c
      BY <1>2, <2>4, <2>5
    <2> QED
      BY <1>2, <2>3, <2>5, <2>6 DEF Led
  <1> QED
    BY <1>3 DEF Led

(* From the scopes that are left the list goes on as before when one is    *)
(* freed.                                                                  *)
LEMMA ListFreed ==
  ASSUME ScopeInv, ListInv, NEW c, FreesChild(c)
  PROVE  \A s \in Live' : ParentLed(s)' /\ FollowSound(s)'
  <1>1. PICK n : n = Depth
    OBVIOUS
  <1>2. /\ n \in Nat \ {0} /\ n \in 1 .. n /\ stack[n] = Top /\ Top # Callback
        /\ c \in Live /\ c \in Nat /\ IsNewest(c, At(n - 1)) /\ scopes[c].depth = n - 1
        /\ Live' = Live \ {c} /\ \A d : At(d)' = At(d) \ {c}
        /\ \A s \in Live : /\ scopes'[s].parent = scopes[s].parent
                           /\ scopes'[s].depth = scopes[s].depth
    <2>1. Live \subseteq DOMAIN scopes
      BY ScopeTypes DEF ScopeInv
    <2>2. Top # Callback
      BY DEF FreesChild
    <2> QED
      BY <1>1, <2>1, <2>2, ChildFreed
  <1>3. SUFFICES ASSUME NEW s \in Live, s # c PROVE ParentLed(s)' /\ FollowSound(s)'
    BY <1>2
  <1>4. PICK p, d : p = scopes[s].parent /\ d = scopes[s].depth
    OBVIOUS
  <1>5. p = scopes'[s].parent /\ d = scopes'[s].depth
    BY <1>2, <1>4
  <1>6. /\ d \in Nat /\ d <= n /\ s \in At(d) /\ s \in Nat /\ p \in Nat
        /\ d # 0 => stack[d] = Callback
    BY <1>1, <1>4, LiveDepth
  <1>7. d # n /\ d \in 0 .. Depth - 1
    BY <1>1, <1>2, <1>6
  <1>8. p < s /\ ParentSound(c)
    BY <1>2, <1>4 DEF ScopeInv, ParentsSound, ParentSound
  <1>9. ParentLed(s)'
    <2>1. p \in At(d) \/ Led(d, p)
      BY <1>4 DEF ListInv, ParentLed
    <2>2. p \in At(d) => p # c
      <3>1. c \in At(d) => d = n - 1
        BY <1>2 DEF At
      <3> QED
        BY <1>2, <1>6, <1>8, <3>1 DEF IsNewest
    <2>3. p \in At(d)' \/ Led(d, p)'
      BY <1>2, <1>6, <1>7, <2>1, <2>2, LedFreed
    <2> QED
      BY <1>5, <2>3 DEF ParentLed
  <1>10. FollowSound(s)'
    <2>1. s \in At(d)' /\ At(d)' \subseteq At(d) /\ At(d) \subseteq Live
      BY <1>2, <1>3, <1>6 DEF At
    <2>2. CASE IsNewest(s, At(d))
      BY <1>5, <2>1, <2>2 DEF FollowSound, IsNewest
    <2>3. CASE \E t \in At(d) : t # c /\ scopes[t].parent = s
      <3>1. PICK t \in At(d) : t # c /\ scopes[t].parent = s
        BY <2>3
      <3>2. t \in At(d)' /\ scopes'[t].parent = s
        BY <1>2, <2>1, <3>1
      <3> QED
        BY <1>5, <3>2 DEF FollowSound
    <2>4. CASE c \in At(d) /\ scopes[c].parent = s
      <3>1. d = n - 1
        BY <1>2, <2>4 DEF At
      <3>2. \A t \in At(d)' : t < c
        <4>1. \A t \in At(d)' : t \in At(d) /\ t # c /\ t <= c /\ t \in Nat
          BY <1>2, <3>1, ScopeTypes, IndexTypes DEF IsNewest, At, ScopeInv
        <4> QED
          BY <1>2, <4>1
      <3>3. \A t \in At(d)' : t <= s
        BY <1>2, <1>8, <2>1, <2>4, <3>1, <3>2 DEF ParentSound
      <3> QED
        BY <1>5, <2>1, <3>3 DEF FollowSound, IsNewest
    <2> QED
      BY <1>4, <2>2, <2>3, <2>4 DEF ListInv, FollowSound
  <1> QED
    BY <1>9, <1>10

(* There is no scope at first.                                             *)
LEMMA ListInitSound == ScopeInit => ListInv
  <1> SUFFICES ASSUME ScopeInit PROVE ListInv
    OBVIOUS
  <1>1. scopes = << >> /\ stack = << >> /\ Len(stack) = 0
    BY DEF ScopeInit
  <1>2. Live = {} /\ Depth = 0
    BY <1>1 DEF Live, Depth
  <1> QED
    BY <1>2 DEF ListInv, LastLed, ClientOnTop, Led

(* Where no call moves, the list begins where it began.                    *)
LEMMA ListStays ==
  ASSUME ScopeInv, ListInv, stack' = stack, last' = last, Live' = Live,
         \A d : At(d)' = At(d),
         \A s \in Live : /\ scopes'[s].parent = scopes[s].parent
                         /\ scopes'[s].depth = scopes[s].depth
  PROVE  ListInv'
  <1>1. \A s \in Live' : ParentLed(s)' /\ FollowSound(s)'
    BY ListKept
  <1>2. LastLed'
    <2>1. Depth' = Depth /\ (ClientOnTop' <=> ClientOnTop)
      BY DEF Depth, ClientOnTop
    <2>2. \A d : Led(d, last)' <=> Led(d, last)
      BY DEF Led
    <2> QED
      BY <2>1, <2>2 DEF ListInv, LastLed
  <1> QED
    BY <1>1, <1>2 DEF ListInv

(* Deferring leaves the list as it is.                                     *)
LEMMA GpDeferLists ==
  ASSUME ScopeInv, ListInv, NEW s \in Live, NEW f \in {Client} \cup Live, GpDefer(s, f)
  PROVE  ListInv'
  <1>1. PICK r : r = [scopes[s] EXCEPT !.defers = Append(scopes[s].defers, f)]
    OBVIOUS
  <1>2. /\ Typed /\ s \in DOMAIN scopes /\ Live \subseteq DOMAIN scopes
        /\ scopes[s] \in ScopeRecord /\ scopes[s].defers \in Seq(Nat) /\ f \in Nat
    BY ScopeTypes, IndexTypes DEF ScopeInv, Client
  <1>3. /\ r \in ScopeRecord /\ r.parent = scopes[s].parent /\ r.depth = scopes[s].depth
        /\ r.freed = scopes[s].freed
    <2>1. Append(scopes[s].defers, f) \in Seq(Nat)
      BY <1>2
    <2> QED
      BY <1>1, <1>2, <2>1 DEF ScopeRecord
  <1>4. scopes' = [scopes EXCEPT ![s] = r] /\ stack' = stack /\ last' = last
    BY <1>1 DEF GpDefer
  <1> QED
    BY <1>2, <1>3, <1>4, ScopeChanged, ListStays

(* A client begins a scope: it goes before those in the list.              *)
LEMMA GpBeginLists ==
  ASSUME ScopeInv, ListInv, GpBegin
  PROVE  ListInv'
  <1>1. PICK n, new, r : /\ n = Depth /\ new = Len(scopes) + 1
                         /\ r = [parent |-> last, defers |-> << >>, ran |-> << >>,
                                 freed |-> FALSE, depth |-> n]
    OBVIOUS
  <1>2. /\ Typed /\ n \in Nat /\ (stack = << >> <=> n = 0) /\ Len(stack) = n
        /\ Live \subseteq DOMAIN scopes /\ Len(scopes) \in Nat /\ last \in Nat
        /\ last < new
    BY <1>1, StackTypes, ScopeTypes DEF ScopeInv, Depth, Typed
  <1>3. ClientOnTop
    BY <1>2 DEF GpBegin, ClientRuns, Top, ClientOnTop, Depth
  <1>4. r \in ScopeRecord /\ r.freed = FALSE /\ r.parent = last /\ r.depth = n
    BY <1>1, <1>2 DEF ScopeRecord
  <1>5. scopes' = Append(scopes, r) /\ stack' = stack
    BY <1>1, <1>2 DEF GpBegin
  <1>6. /\ Live' = Live \cup {new} /\ scopes'[new] = r /\ Len(scopes') = new
        /\ \A s \in DOMAIN scopes : scopes'[s] = scopes[s]
    BY <1>1, <1>2, <1>4, <1>5, ScopeAppended
  <1>7. /\ \A s \in Live : scopes'[s] = scopes[s] /\ s \in Nat /\ s < new
        /\ new \notin Live
    BY <1>1, <1>2, <1>6, IndexTypes
  <1>8. At(n)' = At(n) \cup {new} /\ \A d : d # n => At(d)' = At(d)
    BY <1>4, <1>6, <1>7 DEF At
  <1>9. last' = new /\ Depth' = n /\ ClientOnTop'
    BY <1>1, <1>3, <1>5, <1>6 DEF GpBegin, Depth, ClientOnTop
  <1>10. \A d, p : p # new /\ Led(d, p) => Led(d, p)'
    BY <1>5, <1>6 DEF Led
  <1>11. LastLed'
    BY <1>8, <1>9 DEF LastLed
  <1>12. ASSUME NEW s \in Live
         PROVE  ParentLed(s)' /\ FollowSound(s)'
    <2>1. PICK p, d : p = scopes[s].parent /\ d = scopes[s].depth
      OBVIOUS
    <2>2. p = scopes'[s].parent /\ d = scopes'[s].depth
      BY <1>7, <2>1
    <2>3. p # new /\ s \in At(d)
      <3>1. p < s
        BY <2>1 DEF ScopeInv, ParentsSound, ParentSound
      <3>2. p \in Nat
        BY <2>1, LiveDepth
      <3> QED
        BY <1>1, <1>2, <1>7, <2>1, <3>1, <3>2 DEF At
    <2>4. ParentLed(s)'
      <3>1. p \in At(d) \/ Led(d, p)
        BY <2>1 DEF ListInv, ParentLed
      <3> QED
        BY <1>8, <1>10, <2>2, <2>3, <3>1 DEF ParentLed
    <2>5. FollowSound(s)'
      <3>1. IsNewest(s, At(d)) \/ \E t \in At(d) : scopes[t].parent = s
        BY <2>1 DEF ListInv, FollowSound
      <3>2. \A t \in At(d) : t \in At(d)' /\ scopes'[t].parent = scopes[t].parent
        BY <1>7, <1>8 DEF At
      <3>3. CASE d # n /\ IsNewest(s, At(d))
        BY <1>8, <2>2, <3>3 DEF FollowSound, IsNewest
      <3>4. CASE d = n /\ IsNewest(s, At(d))
        <4>1. last \in At(n) /\ s <= last /\ last <= s
          BY <1>1, <1>3, <2>3, <3>4 DEF ScopeInv, LastSound, IsNewest
        <4>2. scopes'[new].parent = s
          BY <1>2, <1>4, <1>6, <1>7, <4>1
        <4> QED
          BY <1>8, <2>2, <3>4, <4>2 DEF FollowSound
      <3>5. CASE \E t \in At(d) : scopes[t].parent = s
        BY <2>2, <3>2, <3>5 DEF FollowSound
      <3> QED
        BY <3>1, <3>3, <3>4, <3>5
    <2> QED
      BY <2>4, <2>5
  <1>13. ParentLed(new)'
    <2>1. last \in At(n) \/ Led(n, last)
      BY <1>1, <1>3 DEF ListInv, LastLed
    <2>2. last # new
      BY <1>1, <1>2
    <2>3. scopes'[new].parent = last /\ scopes'[new].depth = n
      BY <1>4, <1>6
    <2> QED
      BY <1>8, <1>10, <2>1, <2>2, <2>3 DEF ParentLed
  <1>14. FollowSound(new)'
    <2>1. \A t \in At(n)' : t <= new
      BY <1>1, <1>2, <1>7, <1>8 DEF At
    <2> QED
      BY <1>4, <1>6, <1>8, <2>1 DEF FollowSound, IsNewest
  <1> QED
    BY <1>6, <1>11, <1>12, <1>13, <1>14 DEF ListInv

(* A call of the library begins where the list does.                       *)
LEMMA CallLists ==
  ASSUME ScopeInv, ListInv, NEW f, Calls(f), f.child = last
  PROVE  ListInv'
  <1>1. PICK n : n = Depth
    OBVIOUS
  <1>2. /\ Typed /\ scopes' = scopes /\ stack' = stack \o << f >> /\ f \in Frame
        /\ f # Callback /\ last \in Live /\ last' \in {last, NoScope} /\ last \in Nat
    BY DEF ScopeInv, Calls, IsNewest, At, Typed
  <1>3. /\ n \in Nat /\ Depth' = n + 1 /\ stack'[n + 1] = f
        /\ \A i \in 1 .. n : stack'[i] = stack[i]
    BY <1>1, <1>2, StackPushed, StackTypes
  <1>4. Live' = Live /\ \A d : At(d)' = At(d)
    BY <1>2 DEF Live, At
  <1>5. \A i \in 1 .. n - 1 : stack'[i].child = stack[i].child
    BY <1>3
  <1>6. \A s \in Live' : ParentLed(s)' /\ FollowSound(s)'
    BY <1>1, <1>2, <1>4, <1>5, ListKept
  <1>7. ~ ClientOnTop'
    <2>1. n + 1 # 0
      BY <1>3
    <2>2. stack'[n + 1] # Callback
      BY <1>2, <1>3
    <2> QED
      BY <1>3, <2>1, <2>2 DEF ClientOnTop
  <1>8. Led(n + 2, last)'
    <2>1. (n + 2) - 1 = n + 1 /\ last <= last
      BY <1>2, <1>3
    <2>2. stack'[(n + 2) - 1].child = last
      BY <1>3, <2>1
    <2>3. last' = NoScope \/ (stack'[(n + 2) - 1].child <= last' /\ last' \in Live'
                              /\ last' = stack'[(n + 2) - 1].child)
      BY <1>2, <1>4, <2>1, <2>2
    <2> QED
      BY <2>3 DEF Led
  <1>9. LastLed'
    <2>1. n + 2 = Depth' + 1
      BY <1>3
    <2> QED
      BY <1>7, <1>8, <2>1 DEF LastLed
  <1> QED
    BY <1>6, <1>9 DEF ListInv

(* The top call runs a deferred function.                                  *)
LEMMA RunDeferLists ==
  ASSUME ScopeInv, ListInv, NEW c, NEW r, NEW f, RunsDefer(c, r, f)
  PROVE  ListInv'
  <1>1. PICK n, left : n = Depth /\ left = Top.left
    OBVIOUS
  <1>2. /\ Typed /\ n \in Nat \ {0} /\ n \in 1 .. n /\ stack[n] = Top /\ Top # Callback
        /\ last' = last /\ Live \subseteq DOMAIN scopes
    BY <1>1, StackTypes, ScopeTypes DEF ScopeInv, Top, Depth, RunsDefer
  <1>3. /\ \A t \in DOMAIN scopes : /\ scopes'[t].parent = scopes[t].parent
                                    /\ scopes'[t].depth = scopes[t].depth
        /\ Live' = Live /\ \A d : At(d)' = At(d)
        /\ f.child = Top.child /\ f # Callback /\ stack'[n] = f
        /\ \A i \in 1 .. n : i # n => stack'[i] = stack[i]
        /\ \/ Depth' = n + 1 /\ stack'[n + 1] = Callback
           \/ Depth' = n /\ last = NoScope
    BY <1>1, DeferRunMoves
  <1>4. \A i \in 1 .. n - 1 : stack'[i].child = stack[i].child
    BY <1>2, <1>3
  <1>5. \A s \in Live' : ParentLed(s)' /\ FollowSound(s)'
    BY <1>1, <1>2, <1>3, <1>4, ListKept
  <1>6. CASE last = NoScope
    <2>1. \A d : Led(d, last)'
      BY <1>2, <1>6 DEF Led
    <2> QED
      BY <1>5, <2>1 DEF ListInv, LastLed
  <1>7. CASE Depth' = n + 1 /\ stack'[n + 1] = Callback
    <2>1. Led(n + 1, last)
      BY <1>1, <1>2 DEF ListInv, LastLed, ClientOnTop
    <2>2. (n + 1) - 1 = n /\ stack'[n].child = stack[n].child
      BY <1>2, <1>3
    <2>3. Led(n + 1, last)'
      BY <1>2, <1>3, <2>1, <2>2 DEF Led
    <2>4. ClientOnTop'
      BY <1>7 DEF ClientOnTop
    <2> QED
      BY <1>5, <1>7, <2>3, <2>4 DEF ListInv, LastLed
  <1> QED
    BY <1>3, <1>6, <1>7

(* A deferred function returns, its scopes ended: the list is its call's.  *)
LEMMA CallbackLists ==
  ASSUME ScopeInv, ListInv, CallbackReturns
  PROVE  ListInv'
  <1>1. PICK n : n = Depth
    OBVIOUS
  <1>2. /\ Typed /\ n \in Nat \ {0} /\ stack[n] = Callback /\ At(n) = {}
        /\ stack' = Front(stack) /\ scopes' = scopes /\ last' = last
    BY <1>1, StackTypes DEF ScopeInv, CallbackReturns, Top, At, Depth
  <1>3. Depth' = n - 1 /\ \A i \in 1 .. n - 1 : stack'[i] = stack[i]
    BY <1>1, <1>2, StackPopped
  <1>4. Live' = Live /\ \A d : At(d)' = At(d)
    BY <1>2 DEF Live, At
  <1>5. \A s \in Live' : ParentLed(s)' /\ FollowSound(s)'
    BY <1>1, <1>2, <1>3, <1>4, ListKept
  <1>6. n \in 1 .. Depth /\ n - 1 \in 1 .. n - 1 /\ stack[n - 1] # Callback
    BY <1>1, <1>2, CallUnder
  <1>7. Led(n, last)
    BY <1>1, <1>2 DEF ListInv, LastLed, ClientOnTop
  <1>8. Led(n, last)'
    BY <1>2, <1>3, <1>4, <1>6, <1>7 DEF Led
  <1>9. ~ ClientOnTop' /\ Depth' + 1 = n
    BY <1>2, <1>3, <1>6 DEF ClientOnTop
  <1> QED
    BY <1>5, <1>8, <1>9 DEF ListInv, LastLed

(* The top call goes on to the parent of the scope it has freed ...        *)
LEMMA GoesOnLists ==
  ASSUME ScopeInv, ListInv, NEW c, FreesAndGoesOn(c)
  PROVE  ListInv'
  <1>1. PICK n, p, f : n = Depth /\ p = scopes[c].parent /\ f = OnToParent(Top)
    OBVIOUS
  <1>2. /\ Typed /\ n \in Nat \ {0} /\ stack[n] = Top /\ Top \in Frame /\ Top # Callback
        /\ c = Top.child /\ last' = last /\ last \in Nat
    BY <1>1, StackTypes DEF ScopeInv, Typed, Top, Depth, FreesAndGoesOn
  <1>3. p \in At(n - 1) /\ p \in DOMAIN scopes /\ p \in Nat /\ Len(scopes[p].defers) \in Nat
    BY <1>1, <1>2, ScopeTypes, IndexTypes DEF At, FreesAndGoesOn
  <1>4. f \in Frame /\ f # Callback /\ f.child = p
    <2>1. f = [Top EXCEPT !.child = p, !.left = Len(scopes[p].defers)]
      BY <1>1, <1>2, <1>3 DEF OnToParent, DefersOf
    <2> QED
      BY <1>2, <1>3, <2>1 DEF Frame, Callback
  <1>5. /\ Depth' = n /\ stack'[n] = f
        /\ \A i \in 1 .. n : i # n => stack'[i] = stack[i]
    BY <1>1, <1>2, <1>4, StackChanged DEF FreesAndGoesOn
  <1>6. FreesChild(c)
    <2>1. \A i \in 1 .. n - 1 : i \in 1 .. n /\ i # n
      BY <1>2
    <2> QED
      BY <1>1, <1>5, <2>1 DEF FreesAndGoesOn, FreesChild
  <1>7. \A s \in Live' : ParentLed(s)' /\ FollowSound(s)'
    BY <1>6, ListFreed
  <1>8. c \in Live /\ c \in Nat /\ Live' = Live \ {c} /\ ParentSound(c)
    BY <1>1, <1>6, ChildFreed DEF ScopeInv, ParentsSound
  <1>9. Led(n + 1, last)
    BY <1>1, <1>2 DEF ListInv, LastLed, ClientOnTop
  <1>10. (n + 1) - 1 = n /\ p < c
    BY <1>1, <1>2, <1>8 DEF ParentSound
  <1>11. Led(n + 1, last)'
    <2>1. last # NoScope => c <= last /\ (last \in Live <=> last = c)
      BY <1>2, <1>9, <1>10 DEF Led
    <2>2. last # NoScope => p <= last /\ last # p /\ last \notin Live'
      BY <1>2, <1>3, <1>8, <1>10, <2>1
    <2> QED
      BY <1>2, <1>4, <1>5, <1>10, <2>2 DEF Led
  <1>12. ~ ClientOnTop'
    BY <1>2, <1>4, <1>5 DEF ClientOnTop
  <1> QED
    BY <1>5, <1>7, <1>11, <1>12 DEF ListInv, LastLed

(* ... or returns, and an end begins the list where the parent is.         *)
LEMMA ReturnLists ==
  ASSUME ScopeInv, ListInv, NEW c, FreesAndReturns(c)
  PROVE  ListInv'
  <1>1. PICK n, p : n = Depth /\ p = scopes[c].parent
    OBVIOUS
  <1>2. /\ Typed /\ n \in Nat \ {0} /\ n - 1 \in Nat /\ n \in 1 .. n /\ stack[n] = Top
        /\ Top # Callback
        /\ \/ Top.kind = "end" /\ last' = p
           \/ Top.kind = "delete"
    BY <1>1, StackTypes DEF ScopeInv, Top, Depth, FreesAndReturns
  <1>3. Depth' = n - 1 /\ \A i \in 1 .. n - 1 : stack'[i] = stack[i]
    BY <1>1, <1>2, StackPopped DEF FreesAndReturns
  <1>4. FreesChild(c)
    <2>1. Depth' \in {Depth, Depth - 1} /\ \A i \in 1 .. Depth - 1 : stack'[i] = stack[i]
      BY <1>1, <1>3
    <2> QED
      BY <2>1 DEF FreesAndReturns, FreesChild
  <1>5. \A s \in Live' : ParentLed(s)' /\ FollowSound(s)'
    BY <1>4, ListFreed
  <1>6. CASE Top.kind = "delete"
    <2>1. n = 1
      BY <1>1, <1>2, <1>6 DEF ScopeInv, StackSound
    <2>2. Depth' = 0
      BY <1>3, <2>1
    <2> QED
      BY <1>5, <2>2 DEF ListInv, LastLed, ClientOnTop, Led
  <1>7. CASE last' = p
    <2>1. /\ c \in Live /\ c \in Nat /\ scopes[c].depth = n - 1
          /\ \A d : At(d)' = At(d) \ {c}
      BY <1>1, <1>4, ChildFreed
    <2>2. p \in Nat /\ p < c
      BY <1>1, <2>1, LiveDepth DEF ScopeInv, ParentsSound, ParentSound
    <2>3. n - 1 # 0 => n - 1 \in 1 .. n - 1 /\ stack[n - 1] = Callback
      <3>1. n - 1 # 0 => stack[n - 1] = Callback
        BY <2>1, LiveDepth
      <3> QED
        BY <1>2, <3>1
    <2>4. p \in At(n - 1) \/ Led(n - 1, p)
      BY <1>1, <2>1 DEF ListInv, ParentLed
    <2>5. n - 1 \in 0 .. Depth - 1
      BY <1>1, <1>2
    <2>6. p \in At(n - 1)' \/ Led(n - 1, p)'
      BY <1>4, <2>1, <2>2, <2>3, <2>4, <2>5, LedFreed
    <2>7. ClientOnTop'
      BY <1>3, <2>3 DEF ClientOnTop
    <2> QED
      BY <1>3, <1>5, <1>7, <2>6, <2>7 DEF ListInv, LastLed
  <1> QED
    BY <1>2, <1>6, <1>7

(* Every step keeps the list.                                              *)
LEMMA ListStepSound ==
  EndsAreCalled /\ ScopeInv /\ ListInv /\ [ScopeNext]_scopeVars => ListInv'
  <1> SUFFICES ASSUME EndsAreCalled, ScopeInv, ListInv, [ScopeNext]_scopeVars PROVE ListInv'
    OBVIOUS
  <1>1. CASE GpBegin
    BY <1>1, GpBeginLists
  <1>2. ASSUME NEW s \in Live, NEW f \in {Client} \cup Live, GpDefer(s, f)
        PROVE  ListInv'
    BY <1>2, GpDeferLists
  <1>3. ASSUME NEW s \in Live, GpEnd(s)
        PROVE  ListInv'
    BY <1>3, GpEndCalls, CallLists
  <1>4. CASE CallbackReturns
    BY <1>4, CallbackLists
  <1>5. ASSUME UNCHANGED << scopes, last, stack >>
        PROVE  ListInv'
    <2>1. Live' = Live /\ \A d : At(d)' = At(d)
      BY <1>5 DEF Live, At
    <2> QED
      BY <1>5, <2>1, ListStays
  <1>6. CASE Exit
    <2>1. CASE last = NoScope
      BY <1>5, <1>6, <2>1 DEF Exit, DeleteCall
    <2>2. CASE last # NoScope
      BY <1>6, <2>2, ExitCalls, CallLists
    <2> QED
      BY <2>1, <2>2
  <1>7. CASE ThreadExit \/ ThreadGone \/ ExitDone \/ UNCHANGED scopeVars
    BY <1>5, <1>7 DEF ThreadExit, ThreadGone, ExitDone, scopeVars
  <1>8. CASE RunDefer
    BY <1>8, RunDeferRuns, RunDeferLists
  <1>9. CASE FreeInner
    BY <1>9, FreeInnerGoesOn, GoesOnLists
  <1>10. CASE FinishEnd
    BY <1>10, FinishEndReturns, ReturnLists
  <1>11. CASE DeleteNext
    BY <1>11, DeleteNextFrees, GoesOnLists, ReturnLists
  <1>12. CASE Destructor
    BY <1>12, DestructorCalls, CallLists
  <1> QED
    BY <1>1, <1>2, <1>3, <1>4, <1>6, <1>7, <1>8, <1>9, <1>10, <1>11, <1>12
    DEF ScopeNext, Library

(***************************************************************************)
(* What is to be known of the list through the parents, from its beginning *)
(* in thread local storage on, while calls free scopes that it still has.  *)
(***************************************************************************)
THEOREM ListInvariant ==
  ASSUME EndsAreCalled
  PROVE  ScopeSpec => []ListInv
  <1>1. ScopeInit => ListInv
    BY ListInitSound
  <1>2. ScopeInv /\ ListInv /\ [ScopeNext]_scopeVars => ListInv'
    BY ListStepSound
  <1> QED
    BY <1>1, <1>2, ScopeInvariant, PTL DEF ScopeSpec

(***************************************************************************)
(* No call in progress holds a pointer to a freed scope, though client     *)
(* code runs in the middle of calls. At every time, and though ends are    *)
(* skipped, every live scope is in the list or is the one that a call is   *)
(* at, and the parent of a live scope is live, but for one case, a scope   *)
(* that a deferred function began: its parent may have been freed by the   *)
(* call that runs the function. That call is then at an older scope.       *)
(***************************************************************************)
THEOREM ListAndCallsAreLive ==
  ASSUME EndsAreCalled
  PROVE  ScopeSpec => []ScopesAreLive
  <1>1. ScopeInv /\ ListInv => ScopesAreLive
    <2> SUFFICES ASSUME ScopeInv, ListInv PROVE ScopesAreLive
      OBVIOUS
    <2>1. CallsHoldLiveScopes
      <3> SUFFICES ASSUME NEW i \in DOMAIN stack, stack[i] # Callback
                   PROVE  /\ stack[i].child \in Live
                          /\ stack[i].kind = "end" => stack[i].scope \in Live
        BY DEF CallsHoldLiveScopes
      <3>1. FrameSound(i)
        BY StackTypes DEF ScopeInv, FramesSound
      <3> QED
        BY <3>1 DEF FrameSound, IsNewest, At
    <2>2. ListHasLiveScopes
      <3> SUFFICES ASSUME NEW s \in Live
                   PROVE  /\ LedTo(scopes[s].parent, scopes[s].depth)
                          /\ s = last \/ s \in Executing \/ \E t \in Live : scopes[t].parent = s
        BY DEF ListHasLiveScopes
      <3>1. PICK p, d, n : p = scopes[s].parent /\ d = scopes[s].depth /\ n = Depth
        OBVIOUS
      <3>2. /\ d \in Nat /\ d <= n /\ n \in Nat /\ s \in At(d) /\ s \in Nat /\ p \in Nat
            /\ d # 0 => d \in 1 .. Depth /\ stack[d] = Callback
        BY <3>1, LiveDepth, StackTypes DEF ScopeInv
      <3>3. LedTo(p, d)
        <4>1. p \in At(d) \/ Led(d, p)
          BY <3>1 DEF ListInv, ParentLed
        <4>2. CASE p \in At(d) \/ p = NoScope
          BY <4>2 DEF At, LedTo
        <4>3. CASE p \notin At(d) /\ p # NoScope
          <5>1. d # 0
            BY <3>1, <4>3 DEF ScopeInv, ParentsSound, ParentSound, AtBottom
          <5>2. stack[d - 1].child <= p /\ (p \in Live <=> p = stack[d - 1].child)
            BY <4>1, <4>3, <5>1 DEF Led
          <5>3. stack[d - 1].child \in Nat
            BY <3>2, <5>1, CallUnder
          <5>4. p \in Live \/ p > stack[d - 1].child
            BY <3>2, <5>2, <5>3
          <5> QED
            BY <5>1, <5>4 DEF LedTo
        <4> QED
          BY <4>2, <4>3
      <3>4. s = last \/ s \in Executing \/ \E t \in Live : scopes[t].parent = s
        <4>1. IsNewest(s, At(d)) \/ \E t \in At(d) : scopes[t].parent = s
          BY <3>1 DEF ListInv, FollowSound
        <4>2. CASE \E t \in At(d) : scopes[t].parent = s
          BY <4>2 DEF At
        <4>3. CASE IsNewest(s, At(d)) /\ d = n
          <5>1. ClientOnTop
            BY <3>1, <3>2, <4>3 DEF ClientOnTop
          <5>2. last \in At(d) /\ s <= last /\ last <= s
            BY <3>1, <3>2, <4>3, <5>1 DEF ScopeInv, LastSound, IsNewest
          <5>3. last \in Nat
            BY DEF ScopeInv, Typed
          <5> QED
            BY <3>2, <5>2, <5>3
        <4>4. CASE IsNewest(s, At(d)) /\ d # n
          <5>1. PICK i : i = d + 1
            OBVIOUS
          <5>2. i \in 1 .. Depth /\ i - 1 = d
            <6>1. d + 1 \in 1 .. n /\ (d + 1) - 1 = d
              BY <3>2, <4>4
            <6> QED
              BY <3>1, <5>1, <6>1
          <5>3. stack[i] # Callback
            <6>1. CASE d = 0
              BY <5>1, <5>2, <6>1 DEF ScopeInv, StackSound
            <6>2. CASE d # 0
              <7>1. d \in 1 .. Depth - 1
                BY <3>1, <3>2, <4>4, <6>2
              <7> QED
                BY <3>2, <5>1, <6>2, <7>1 DEF ScopeInv, StackSound
            <6> QED
              BY <6>1, <6>2
          <5>4. IsNewest(stack[i].child, At(d)) /\ stack[i].child \in Nat
            BY <5>2, <5>3, StackTypes DEF ScopeInv, FramesSound, FrameSound
          <5>5. s = stack[i].child
            BY <3>2, <4>4, <5>4 DEF IsNewest
          <5> QED
            BY <5>2, <5>3, <5>5, ExecutingNow DEF IsExecuting, ScopeInv
        <4> QED
          BY <4>1, <4>2, <4>3, <4>4
      <3> QED
        BY <3>1, <3>3, <3>4
    <2> QED
      BY <2>1, <2>2 DEF ScopesAreLive
  <1> QED
    BY <1>1, ScopeInvariant, ListInvariant, PTL

(***************************************************************************)
(* What gp_last_scope() returns to client code is a live scope if the same *)
(* function began it, or if the call that runs the function has not gone   *)
(* on from it: always, but for deferred functions that are run after the   *)
(* call has freed the newest scope. To those it returns a freed one.       *)
(***************************************************************************)
THEOREM LastScopeKnown ==
  ASSUME EndsAreCalled
  PROVE  ScopeSpec => []LastScopeIsLive
  <1>1. ScopeInv /\ ListInv => LastScopeIsLive
    <2> SUFFICES ASSUME ScopeInv, ListInv, ClientRuns, last # NoScope
                 PROVE  last \in Live <=> \/ scopes[last].depth = Len(stack)
                                          \/ last <= stack[Len(stack) - 1].child
      BY DEF LastScopeIsLive
    <2>1. PICK n : n = Depth
      OBVIOUS
    <2>2. /\ Typed /\ n \in Nat /\ Len(stack) = n /\ last \in Nat
          /\ n = 0 => phase = "running"
          /\ n # 0 => n \in 1 .. Depth /\ stack[n] = Callback
      BY <2>1, StackTypes DEF ScopeInv, Typed, ClientRuns, Top, Depth
    <2>3. ClientOnTop
      BY <2>1, <2>2 DEF ClientOnTop
    <2>4. CASE last \in At(n)
      BY <2>2, <2>4 DEF At
    <2>5. CASE last \notin At(n)
      <3>1. n # 0 /\ scopes[last].depth < n - 1
        BY <2>1, <2>2, <2>3, <2>5 DEF ScopeInv, LastSound, AtBottom
      <3>2. last \in DOMAIN scopes
        BY <2>2, ScopeTypes DEF Typed, NoScope
      <3>3. scopes[last].depth # n
        BY <2>2, <3>1, <3>2, ScopeTypes
      <3>4. stack[n - 1].child <= last /\ (last \in Live <=> last = stack[n - 1].child)
        BY <2>1, <2>3, <2>5, <3>1 DEF ListInv, LastLed, Led
      <3>5. stack[n - 1].child \in Nat
        BY <2>2, <3>1, CallUnder
      <3>6. last <= stack[n - 1].child <=> last = stack[n - 1].child
        BY <2>2, <3>4, <3>5
      <3> QED
        BY <2>2, <3>3, <3>4, <3>6
    <2> QED
      BY <2>4, <2>5
  <1> QED
    BY <1>1, ScopeInvariant, ListInvariant, PTL

=================================================================================
