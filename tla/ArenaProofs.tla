----------------------------- MODULE ArenaProofs -----------------------------
(***************************************************************************)
(* Proofs about the arena of module Arena, and about the mutex allocator   *)
(* of module MutexAllocator in front of it, for every layout of memory     *)
(* that AlignedLayout describes: any header size, capacities, growth       *)
(* factor, poison boundary, sizes and power-of-two-like alignments, any    *)
(* number of nodes and blocks.                                             *)
(*                                                                         *)
(* The argument. A sequence of blocks is Placed in a list of nodes when    *)
(* they are inside its memory, in order, and below the newest position.    *)
(* Each operation is a composition of four changes, each shown to keep     *)
(* blocks placed: appending a block at the position (AllocSound), taking   *)
(* blocks out (PartPlaced), giving the last object back (GivenBackPlaced)  *)
(* and dropping nodes (RewoundPlaced). The first lemmas are arithmetic:    *)
(* rounding up to an alignment wastes less than the node allocates for it. *)
(***************************************************************************)
EXTENDS MutexAllocator, CommonLemmas

(* The sum of multiples is a multiple.                                     *)
LEMMA MultipleSum ==
  ASSUME NEW a \in Nat \ {0}, NEW x \in Int, NEW y \in Int, x % a = 0, y % a = 0
  PROVE  (x + y) % a = 0
  <1> DEFINE m == x \div a
             n == y \div a
  <1>1. x = a * m /\ y = a * n /\ m \in Int /\ n \in Int
    OBVIOUS
  <1> HIDE DEF m, n
  <1>2. x + y = a * (m + n)
    BY <1>1
  <1>3. (a * (m + n)) % a = 0
    BY <1>1
  <1> QED
    BY <1>2, <1>3

(* Aligning moves an offset up by less than the alignment.                 *)
LEMMA AlignedOffsetBounds ==
  ASSUME NEW base \in Nat, NEW off \in Nat, NEW align \in Nat \ {0}
  PROVE  /\ AlignedOffset(base, off, align) \in off .. off + align - 1
         /\ (base + AlignedOffset(base, off, align)) % align = 0
  <1> DEFINE y == RoundToAligned(base + off, align)
  <1>1. y \in base + off .. base + off + align - 1 /\ y % align = 0
    BY Rounding
  <1>2. AlignedOffset(base, off, align) = y - base
    BY DEF AlignedOffset
  <1> HIDE DEF y
  <1>3. base + (y - base) = y
    BY <1>1
  <1> QED
    BY <1>1, <1>2, <1>3

(* Rounding a multiple of a up to a multiple of a adds a multiple of a.    *)
LEMMA RoundingMultiple ==
  ASSUME NEW a \in Nat \ {0}, NEW b \in Nat \ {0}, NEW x \in Int,
         b % a = 0, x % a = 0
  PROVE  RoundToAligned(x, b) <= x + b - a
  <1> DEFINE q == (x - 1) \div b
             m == b \div a
             n == x \div a
             t == m * (q + 1) - n
             y == RoundToAligned(x, b)
  <1>1. /\ y = b * (q + 1) /\ q \in Int
        /\ y \in Int /\ y - x < b
    <2>1. y = b * (q + 1) /\ q \in Int /\ y \in x .. x + b - 1
      BY RoundingQuotient
    <2> HIDE DEF y, q
    <2> QED
      BY <2>1
  <1>2. b = a * m /\ m \in Int
    OBVIOUS
  <1>3. x = a * n /\ n \in Int
    OBVIOUS
  <1> HIDE DEF q, m, n, y
  <1>4. t \in Int
    BY <1>1, <1>2, <1>3
  <1>5. y - x = a * t
    <2>1. (a * m) * (q + 1) = a * (m * (q + 1))
      BY <1>1, <1>2
    <2>2. m * (q + 1) \in Int
      BY <1>1, <1>2
    <2>3. a * (m * (q + 1) - n) = a * (m * (q + 1)) - a * n
      <3> DEFINE u == m * (q + 1)
      <3>1. u \in Int
        BY <2>2
      <3> HIDE DEF u
      <3>2. a * (u - n) = a * u - a * n
        BY <1>3, <3>1, Distributes
      <3> QED
        BY <3>2 DEF u
    <2> QED
      BY <1>1, <1>2, <1>3, <2>1, <2>3
  <1> HIDE DEF t
  <1>6. a * t < a * m
    BY <1>1, <1>2, <1>5
  <1>7. t <= m - 1
    BY <1>2, <1>4, <1>6
  <1>8. a * t <= a * (m - 1)
    BY <1>2, <1>4, <1>7
  <1>9. a * (m - 1) = a * m - a
    BY <1>2
  <1>10. y - x <= b - a
    BY <1>2, <1>5, <1>8, <1>9
  <1>11. y <= x + b - a
    BY <1>1, <1>10
  <1> QED
    BY <1>11 DEF y

------------------------------------------------------------------------------

(* BlocksInMemory, BlocksInOrder and BlocksBelowPosition of any blocks bs  *)
(* and nodes ns.                                                           *)
InMemory(bs, ns) ==
  \A i \in DOMAIN bs :
    /\ bs[i].node \in DOMAIN ns
    /\ NodeSize <= bs[i].off
    /\ bs[i].off + bs[i].size + PoisonBoundary <= ns[bs[i].node].alloc

InOrder(bs) ==
  \A i, j \in DOMAIN bs :
    i < j =>
      \/ bs[i].node < bs[j].node
      \/ /\ bs[i].node = bs[j].node
         /\ bs[i].off + bs[i].size + PoisonBoundary <= bs[j].off

BelowPosition(bs, ns) ==
  \A i \in DOMAIN bs :
    bs[i].node = Len(ns) =>
      bs[i].off + bs[i].size + PoisonBoundary <= ns[bs[i].node].pos

NodesSound(ns) ==
  \A k \in DOMAIN ns :
    /\ NodeSize <= ns[k].pos
    /\ NodeSize + ns[k].cap <= ns[k].alloc

Placed(bs, ns) ==
  /\ NodesSound(ns)
  /\ InMemory(bs, ns)
  /\ InOrder(bs)
  /\ BelowPosition(bs, ns)

(* Moving the position of one node changes nothing else of the list.       *)
LEMMA SetPosition ==
  ASSUME NEW ns \in Seq(Node), NEW k \in 1 .. Len(ns), NEW p \in Nat
  PROVE  /\ WithPosition(ns, k, p) \in Seq(Node)
         /\ Len(WithPosition(ns, k, p)) = Len(ns)
         /\ \A m \in 1 .. Len(ns) :
              LET n == WithPosition(ns, k, p)[m] IN
              /\ n.base = ns[m].base
              /\ n.alloc = ns[m].alloc
              /\ n.cap = ns[m].cap
              /\ n.pos = IF m = k THEN p ELSE ns[m].pos
  <1> DEFINE n == [ns[k] EXCEPT !.pos = p]
             t == [ns EXCEPT ![k] = n]
  <1>1. ns[k] \in Node
    OBVIOUS
  <1>2. /\ n \in Node
        /\ n.base = ns[k].base
        /\ n.alloc = ns[k].alloc
        /\ n.cap = ns[k].cap
        /\ n.pos = p
    BY <1>1 DEF Node
  <1> HIDE DEF n
  <1>3. /\ t \in Seq(Node)
        /\ Len(t) = Len(ns)
        /\ \A m \in 1 .. Len(ns) : t[m] = IF m = k THEN n ELSE ns[m]
    BY <1>2, ExceptSeq
  <1>4. WithPosition(ns, k, p) = t
    BY DEF n, WithPosition
  <1> HIDE DEF t
  <1> QED
    BY <1>2, <1>3, <1>4

(* Every alignment is a multiple of GP_ALLOC_ALIGNMENT, and so are the     *)
(* addresses the backing allocator returns and the size of a node's header.*)
AlignedLayout ==
  /\ NodeSize % AllocAlignment = 0
  /\ \A base \in Bases : base % AllocAlignment = 0
  /\ \A align \in Alignments : align % AllocAlignment = 0

(* A block at the start of a new node ends inside that node's memory.      *)
LEMMA NodeForSound ==
  ASSUME AlignedLayout, NEW h \in Node, NEW base \in Bases,
         NEW size \in Sizes, NEW align \in Alignments
  PROVE  LET n   == NodeFor(h, base, size, align)
             off == AlignedOffset(base, NodeSize, align)
         IN  /\ n \in Node
             /\ off \in Nat
             /\ NodeSize <= off
             /\ n.pos = off + size + PoisonBoundary
             /\ n.pos <= n.alloc
             /\ NodeSize + n.cap <= n.alloc
  <1> USE ArenaAssumption
  <1> DEFINE n   == NodeFor(h, base, size, align)
             off == AlignedOffset(base, NodeSize, align)
             head == RoundToAligned(NodeSize, align)
             cap == GrownCapacity(h.cap)
  <1>1. cap \in Nat
    <2>1. h.cap * GrowNum \in Nat
      BY DEF Node
    <2> QED
      BY <2>1 DEF GrownCapacity
  <1>2. head \in Nat /\ NodeSize <= head
    <2>1. align \in Nat \ {0} /\ NodeSize \in Int
      OBVIOUS
    <2>2. head \in NodeSize .. NodeSize + align - 1
      BY <2>1, Rounding
    <2> HIDE DEF head
    <2> QED
      BY <2>1, <2>2
  <1>3. align \in Nat \ {0} /\ AllocAlignment <= align
    BY DEF AlignedLayout
  <1>4. (base + NodeSize) % AllocAlignment = 0
    BY MultipleSum DEF AlignedLayout
  <1>5. off \in Nat /\ NodeSize <= off /\ off <= NodeSize + align - AllocAlignment
    <2>1. base + NodeSize \in Int /\ align % AllocAlignment = 0
      BY DEF AlignedLayout
    <2>2. RoundToAligned(base + NodeSize, align) <= base + NodeSize + align - AllocAlignment
      BY <1>3, <1>4, <2>1, RoundingMultiple
    <2>3. RoundToAligned(base + NodeSize, align)
            \in base + NodeSize .. base + NodeSize + align - 1
      BY <1>3, <2>1, Rounding
    <2> HIDE DEF off
    <2>4. off = RoundToAligned(base + NodeSize, align) - base
      BY DEF off, AlignedOffset
    <2> QED
      BY <2>2, <2>3, <2>4
  <1> HIDE DEF off, head, cap
  <1>6. n = [base |-> base,
             alloc |-> head + Max2(cap, size + PoisonBoundary) + align - AllocAlignment,
             cap |-> cap,
             pos |-> off + size + PoisonBoundary]
    BY DEF NodeFor, NodeAllocation, off, head, cap
  <1>7. /\ Max2(cap, size + PoisonBoundary) \in Nat
        /\ cap <= Max2(cap, size + PoisonBoundary)
        /\ size + PoisonBoundary <= Max2(cap, size + PoisonBoundary)
    BY <1>1 DEF Max2
  <1> HIDE DEF n
  <1> QED
    BY <1>1, <1>2, <1>3, <1>5, <1>6, <1>7 DEF Node, n, off

(* A block has a positive size, so it ends after it starts.                *)
LEMMA BlockEnds ==
  ASSUME NEW b \in Block
  PROVE  /\ b.off \in Nat /\ b.size \in Nat \ {0} /\ b.node \in Nat \ {0}
         /\ b.off + b.size + PoisonBoundary \in Nat
         /\ b.off < b.off + b.size + PoisonBoundary
  <1>1. b.off \in Nat /\ b.size \in Nat \ {0} /\ b.node \in Nat \ {0}
    BY DEF Block
  <1>2. PoisonBoundary \in Nat
    BY ArenaAssumption
  <1> QED
    BY <1>1, <1>2

(* Moving a position, not below the header, keeps every block in memory.   *)
LEMMA MovedSound ==
  ASSUME NEW ns \in Seq(Node), NEW bs \in Seq(Block), NEW k \in 1 .. Len(ns),
         NEW p \in Nat, NodeSize <= p, NodesSound(ns), InMemory(bs, ns)
  PROVE  /\ NodesSound(WithPosition(ns, k, p))
         /\ InMemory(bs, WithPosition(ns, k, p))
  <1> DEFINE ms == WithPosition(ns, k, p)
  <1>1. /\ ms \in Seq(Node) /\ Len(ms) = Len(ns)
        /\ \A m \in 1 .. Len(ns) :
             /\ ms[m].alloc = ns[m].alloc
             /\ ms[m].cap = ns[m].cap
             /\ ms[m].pos = IF m = k THEN p ELSE ns[m].pos
    BY SetPosition
  <1> HIDE DEF ms
  <1>2. DOMAIN ms = 1 .. Len(ns) /\ DOMAIN ns = 1 .. Len(ns)
    BY <1>1
  <1>3. NodesSound(ms)
    BY <1>1, <1>2 DEF NodesSound
  <1>4. InMemory(bs, ms)
    BY <1>1, <1>2 DEF InMemory
  <1> QED
    BY <1>3, <1>4 DEF ms

(* A block that ends at the head's position, after all the others, is      *)
(* placed with them.                                                       *)
LEMMA PlacedAppend ==
  ASSUME NEW ns \in Seq(Node), NEW bs \in Seq(Block), NEW b \in Block, ns # << >>,
         NodesSound(ns), InMemory(bs, ns), InOrder(bs),
         b.node = Len(ns), NodeSize <= b.off,
         b.off + b.size + PoisonBoundary = ns[Len(ns)].pos,
         ns[Len(ns)].pos <= ns[Len(ns)].alloc,
         \A i \in 1 .. Len(bs) :
           \/ bs[i].node < b.node
           \/ /\ bs[i].node = b.node
              /\ bs[i].off + bs[i].size + PoisonBoundary <= b.off
  PROVE  Placed(Append(bs, b), ns)
  <1> USE ArenaAssumption
  <1> DEFINE cs == Append(bs, b)
  <1>1. /\ cs \in Seq(Block) /\ Len(cs) = Len(bs) + 1 /\ cs[Len(bs) + 1] = b
        /\ \A i \in 1 .. Len(bs) : cs[i] = bs[i]
    BY AppendProperties
  <1> HIDE DEF cs
  <1>2. DOMAIN cs = 1 .. Len(bs) + 1 /\ DOMAIN bs = 1 .. Len(bs) /\ Len(bs) \in Nat
    BY <1>1
  <1>3. /\ Len(ns) \in DOMAIN ns /\ Len(ns) \in Nat
        /\ \A m \in DOMAIN ns : m <= Len(ns)
    OBVIOUS
  <1>4. \A c \in Block : c.node \in Nat /\ c.off \in Nat /\ c.size \in Nat
    BY DEF Block
  <1>5. InMemory(cs, ns)
    <2>1. SUFFICES ASSUME NEW i \in 1 .. Len(bs) + 1
                   PROVE  /\ cs[i].node \in DOMAIN ns
                          /\ NodeSize <= cs[i].off
                          /\ cs[i].off + cs[i].size + PoisonBoundary
                               <= ns[cs[i].node].alloc
      BY <1>2 DEF InMemory
    <2>2. CASE i = Len(bs) + 1
      BY <1>1, <1>3, <2>2
    <2>3. CASE i \in 1 .. Len(bs)
      BY <1>1, <1>2, <2>3 DEF InMemory
    <2> QED
      BY <1>2, <2>2, <2>3
  <1>6. InOrder(cs)
    <2>1. SUFFICES ASSUME NEW i \in 1 .. Len(bs) + 1, NEW j \in 1 .. Len(bs) + 1, i < j
                   PROVE  \/ cs[i].node < cs[j].node
                          \/ /\ cs[i].node = cs[j].node
                             /\ cs[i].off + cs[i].size + PoisonBoundary <= cs[j].off
      BY <1>2 DEF InOrder
    <2>2. i \in 1 .. Len(bs) /\ cs[i] = bs[i]
      BY <1>1, <1>2, <2>1
    <2>3. CASE j = Len(bs) + 1
      BY <1>1, <2>2, <2>3
    <2>4. CASE j \in 1 .. Len(bs)
      <3>1. cs[j] = bs[j]
        BY <1>1, <2>4
      <3>2. \/ bs[i].node < bs[j].node
            \/ /\ bs[i].node = bs[j].node
               /\ bs[i].off + bs[i].size + PoisonBoundary <= bs[j].off
        BY <1>2, <2>1, <2>2, <2>4 DEF InOrder
      <3> QED
        BY <2>2, <3>1, <3>2
    <2> QED
      BY <1>2, <2>3, <2>4
  <1>7. BelowPosition(cs, ns)
    <2>1. SUFFICES ASSUME NEW i \in 1 .. Len(bs) + 1, cs[i].node = Len(ns)
                   PROVE  cs[i].off + cs[i].size + PoisonBoundary <= ns[cs[i].node].pos
      BY <1>2 DEF BelowPosition
    <2>2. CASE i = Len(bs) + 1
      BY <1>1, <1>3, <1>4, <2>1, <2>2
    <2>3. CASE i \in 1 .. Len(bs)
      <3>1. cs[i] = bs[i] /\ bs[i] \in Block
        BY <1>1, <2>3
      <3>2. bs[i].off + bs[i].size + PoisonBoundary <= b.off
        BY <1>3, <2>1, <2>3, <3>1
      <3>3. ns[Len(ns)].pos = b.off + b.size + PoisonBoundary
        OBVIOUS
      <3>4. /\ b.off < b.off + b.size + PoisonBoundary
            /\ b.off \in Nat /\ b.off + b.size + PoisonBoundary \in Nat
            /\ bs[i].off + bs[i].size + PoisonBoundary \in Nat
        BY <3>1, BlockEnds
      <3>5. bs[i].off + bs[i].size + PoisonBoundary <= ns[Len(ns)].pos
        BY <3>2, <3>3, <3>4
      <3> QED
        BY <2>1, <3>1, <3>5
    <2> QED
      BY <1>2, <2>2, <2>3
  <1> QED
    BY <1>5, <1>6, <1>7 DEF Placed, cs

(* gp_arena_alloc keeps blocks placed and places the new one after them.   *)
LEMMA AllocSound ==
  ASSUME AlignedLayout, NEW ns \in Seq(Node), ns # << >>, NEW bs \in Seq(Block),
         Placed(bs, ns), NEW base \in Bases, NEW size \in Sizes, NEW align \in Alignments
  PROVE  LET r == ArenaAlloc(ns, base, size, align) IN
         /\ r.nodes \in Seq(Node)
         /\ r.nodes # << >>
         /\ r.block \in Block
         /\ r.block.size = size
         /\ Placed(Append(bs, r.block), r.nodes)
  <1> USE ArenaAssumption
  <1> DEFINE r   == ArenaAlloc(ns, base, size, align)
             k   == Len(ns)
             off == AlignedOffset(ns[k].base, ns[k].pos, align)
  <1>1. k \in 1 .. Len(ns) /\ k = Len(ns) /\ k \in Nat \ {0} /\ ns[k] \in Node
        /\ DOMAIN ns = 1 .. k /\ DOMAIN bs = 1 .. Len(bs)
    OBVIOUS
  <1> HIDE DEF k
  <1>2. /\ ns[k].base \in Nat /\ ns[k].alloc \in Nat
        /\ ns[k].cap \in Nat /\ ns[k].pos \in Nat
    BY <1>1 DEF Node
  <1>3. off \in Nat /\ ns[k].pos <= off
    <2>1. off \in ns[k].pos .. ns[k].pos + align - 1
      BY <1>2, AlignedOffsetBounds
    <2> HIDE DEF off
    <2> QED
      BY <1>2, <2>1
  <1> HIDE DEF off
  <1>4. NodeSize <= ns[k].pos /\ NodeSize + ns[k].cap <= ns[k].alloc
    BY <1>1 DEF Placed, NodesSound
  <1>5. size \in Nat \ {0} /\ align \in Nat \ {0} /\ PoisonBoundary \in Nat /\ NodeSize \in Nat
    OBVIOUS
  <1>6. \A i \in 1 .. Len(bs) :
          /\ bs[i] \in Block
          /\ bs[i].node \in 1 .. k
          /\ bs[i].node = k => bs[i].off + bs[i].size + PoisonBoundary <= off
    <2>1. TAKE i \in 1 .. Len(bs)
    <2>2. bs[i] \in Block /\ bs[i].node \in 1 .. k
      BY <1>1 DEF Placed, InMemory
    <2>4. bs[i].node = k => bs[i].off + bs[i].size + PoisonBoundary <= ns[k].pos
      BY <1>1 DEF Placed, BelowPosition
    <2>5. bs[i].off + bs[i].size + PoisonBoundary \in Nat
      BY <2>2, BlockEnds
    <2>6. bs[i].node = k => bs[i].off + bs[i].size + PoisonBoundary <= off
      BY <1>2, <1>3, <2>4, <2>5
    <2> QED
      BY <2>2, <2>6
  <1>7. CASE Fits(ns[k], off, size)
    <2> DEFINE p == off + size + PoisonBoundary
               b == [node |-> k, off |-> off, size |-> size, align |-> align]
               ms == WithPosition(ns, k, p)
    <2>1. r = [nodes |-> ms, block |-> b]
      BY <1>1, <1>7 DEF ArenaAlloc, off, k
    <2>2. p = off + size + PoisonBoundary /\ p \in Nat /\ NodeSize <= p
      BY <1>1, <1>2, <1>3, <1>4, <1>5
    <2>3. p <= ns[k].alloc
      <3>1. p <= NodeSize + ns[k].cap
        BY <1>7 DEF Fits
      <3> HIDE DEF p
      <3>2. p \in Int
        BY <2>2
      <3>3. NodeSize + ns[k].cap \in Int /\ ns[k].alloc \in Int
        BY <1>2
      <3> QED
        BY <1>4, <3>1, <3>2, <3>3
    <2> HIDE DEF p
    <2>4. /\ ms \in Seq(Node) /\ Len(ms) = k
          /\ ms[k].pos = p /\ ms[k].alloc = ns[k].alloc
      BY <1>1, <2>2, SetPosition
    <2>5. NodesSound(ms) /\ InMemory(bs, ms) /\ InOrder(bs)
      BY <1>1, <2>2, MovedSound DEF Placed
    <2>6. b \in Block /\ b.node = k /\ b.off = off /\ b.size = size
      BY <1>1, <1>3, <1>5 DEF Block
    <2> HIDE DEF ms, b
    <2>7. \A i \in 1 .. Len(bs) :
            \/ bs[i].node < b.node
            \/ /\ bs[i].node = b.node
               /\ bs[i].off + bs[i].size + PoisonBoundary <= b.off
      BY <1>1, <1>6, <2>6
    <2>8. ms # << >>
      BY <1>1, <2>4
    <2>9. NodeSize <= b.off
      BY <1>2, <1>3, <1>4, <1>5, <2>6
    <2>10. Placed(Append(bs, b), ms)
      BY <2>2, <2>3, <2>4, <2>5, <2>6, <2>7, <2>8, <2>9, PlacedAppend
    <2> QED
      BY <2>1, <2>4, <2>6, <2>8, <2>10
  <1>8. CASE ~ Fits(ns[k], off, size)
    <2> DEFINE n  == NodeFor(ns[k], base, size, align)
               o  == AlignedOffset(base, NodeSize, align)
               b  == [node |-> k + 1, off |-> o, size |-> size, align |-> align]
               ms == WithPosition(ns, k, off)
               ts == Append(ms, n)
    <2>1. r = [nodes |-> ts, block |-> b]
      BY <1>1, <1>8 DEF ArenaAlloc, off, k
    <2>2. /\ n \in Node
          /\ o \in Nat
          /\ NodeSize <= o
          /\ n.pos = o + size + PoisonBoundary
          /\ n.pos <= n.alloc
          /\ NodeSize + n.cap <= n.alloc
      BY <1>1, NodeForSound
    <2>3. b \in Block /\ b.node = k + 1 /\ b.off = o /\ b.size = size
      BY <1>1, <1>5, <2>2 DEF Block
    <2>4. NodeSize <= off
      BY <1>2, <1>3, <1>4, <1>5
    <2>5. ms \in Seq(Node) /\ Len(ms) = k
      BY <1>1, <1>3, SetPosition
    <2>6. NodesSound(ms) /\ InMemory(bs, ms) /\ InOrder(bs)
      BY <1>1, <1>3, <2>4, MovedSound DEF Placed
    <2> HIDE DEF n, o, b, ms
    <2>7. /\ ts \in Seq(Node) /\ Len(ts) = k + 1 /\ ts[k + 1] = n
          /\ \A m \in 1 .. k : ts[m] = ms[m]
      BY <2>2, <2>5, AppendProperties
    <2> HIDE DEF ts
    <2>8. DOMAIN ts = 1 .. k + 1 /\ DOMAIN ms = 1 .. k
      BY <2>5, <2>7
    <2>9. NodesSound(ts)
      <3>1. \A m \in 1 .. k + 1 : m \in 1 .. k \/ m = k + 1
        BY <1>1
      <3>2. NodeSize <= n.pos
        BY <1>5, <2>2
      <3> QED
        BY <1>1, <2>2, <2>6, <2>7, <2>8, <3>1, <3>2 DEF NodesSound
    <2>10. InMemory(bs, ts)
      <3>1. SUFFICES ASSUME NEW i \in DOMAIN bs
                     PROVE  /\ bs[i].node \in DOMAIN ts
                            /\ NodeSize <= bs[i].off
                            /\ bs[i].off + bs[i].size + PoisonBoundary
                                 <= ts[bs[i].node].alloc
        BY DEF InMemory
      <3>2. /\ bs[i].node \in 1 .. k
            /\ NodeSize <= bs[i].off
            /\ bs[i].off + bs[i].size + PoisonBoundary <= ms[bs[i].node].alloc
        BY <2>6, <2>8 DEF InMemory
      <3>3. ts[bs[i].node] = ms[bs[i].node] /\ bs[i].node \in DOMAIN ts
        BY <1>1, <2>7, <2>8, <3>2
      <3> QED
        BY <3>2, <3>3
    <2>11. \A i \in 1 .. Len(bs) : bs[i].node < b.node
      BY <1>1, <1>6, <2>3
    <2>12. ts # << >>
      BY <1>1, <2>7
    <2>13. Placed(Append(bs, b), ts)
      BY <2>2, <2>3, <2>6, <2>7, <2>9, <2>10, <2>11, <2>12, PlacedAppend
    <2> QED
      BY <2>1, <2>3, <2>7, <2>12, <2>13
  <1> QED
    BY <1>7, <1>8

------------------------------------------------------------------------------

(* A part of a placed sequence of blocks, in the same order, is placed.    *)
LEMMA PartPlaced ==
  ASSUME NEW ns \in Seq(Node), NEW bs \in Seq(Block), NEW cs \in Seq(Block),
         NEW f, Placed(bs, ns),
         \A i \in 1 .. Len(cs) : f[i] \in 1 .. Len(bs) /\ cs[i] = bs[f[i]],
         \A i, j \in 1 .. Len(cs) : i < j => f[i] < f[j]
  PROVE  Placed(cs, ns)
  <1>1. DOMAIN cs = 1 .. Len(cs) /\ DOMAIN bs = 1 .. Len(bs)
    OBVIOUS
  <1>2. NodesSound(ns)
    BY DEF Placed
  <1>3. InMemory(cs, ns)
    BY <1>1 DEF Placed, InMemory
  <1>4. InOrder(cs)
    <2>1. SUFFICES ASSUME NEW i \in 1 .. Len(cs), NEW j \in 1 .. Len(cs), i < j
                   PROVE  \/ cs[i].node < cs[j].node
                          \/ /\ cs[i].node = cs[j].node
                             /\ cs[i].off + cs[i].size + PoisonBoundary <= cs[j].off
      BY <1>1 DEF InOrder
    <2>2. /\ f[i] \in 1 .. Len(bs) /\ f[j] \in 1 .. Len(bs) /\ f[i] < f[j]
          /\ cs[i] = bs[f[i]] /\ cs[j] = bs[f[j]]
      BY <2>1
    <2>3. \A a, c \in 1 .. Len(bs) :
            a < c => \/ bs[a].node < bs[c].node
                     \/ /\ bs[a].node = bs[c].node
                        /\ bs[a].off + bs[a].size + PoisonBoundary <= bs[c].off
      BY <1>1 DEF Placed, InOrder
    <2>4. \/ bs[f[i]].node < bs[f[j]].node
          \/ /\ bs[f[i]].node = bs[f[j]].node
             /\ bs[f[i]].off + bs[f[i]].size + PoisonBoundary <= bs[f[j]].off
      BY <2>2, <2>3
    <2> QED
      BY <2>2, <2>4
  <1>5. BelowPosition(cs, ns)
    BY <1>1 DEF Placed, BelowPosition
  <1> QED
    BY <1>2, <1>3, <1>4, <1>5 DEF Placed

(* Blocks stay placed when one of them is given up (MemDealloc).           *)
LEMMA RemovedPlaced ==
  ASSUME NEW ns \in Seq(Node), NEW bs \in Seq(Block), Placed(bs, ns),
         NEW i \in 1 .. Len(bs)
  PROVE  RemoveAt(bs, i) \in Seq(Block) /\ Placed(RemoveAt(bs, i), ns)
  <1> DEFINE cs == RemoveAt(bs, i)
             f  == [j \in 1 .. Len(bs) - 1 |-> IF j < i THEN j ELSE j + 1]
  <1>1. /\ cs \in Seq(Block) /\ Len(cs) = Len(bs) - 1
        /\ \A j \in 1 .. Len(bs) - 1 : cs[j] = IF j < i THEN bs[j] ELSE bs[j + 1]
    BY RemoveAtElements
  <1>2. /\ \A j \in 1 .. Len(bs) - 1 : f[j] = IF j < i THEN j ELSE j + 1
        /\ Len(bs) \in Nat
    OBVIOUS
  <1> HIDE DEF cs, f
  <1>3. \A j \in 1 .. Len(cs) : f[j] \in 1 .. Len(bs) /\ cs[j] = bs[f[j]]
    BY <1>1, <1>2
  <1>4. \A j, l \in 1 .. Len(cs) : j < l => f[j] < f[l]
    <2>1. SUFFICES ASSUME NEW j \in 1 .. Len(cs), NEW l \in 1 .. Len(cs), j < l
                   PROVE  f[j] < f[l]
      OBVIOUS
    <2>2. /\ f[j] = IF j < i THEN j ELSE j + 1
          /\ f[l] = IF l < i THEN l ELSE l + 1
      BY <1>1, <1>2
    <2>3. j \in Int /\ l \in Int /\ i \in Int
      BY <1>1, <1>2
    <2> QED
      BY <2>1, <2>2, <2>3
  <1>5. Placed(cs, ns)
    BY <1>1, <1>3, <1>4, PartPlaced
  <1> QED
    BY <1>1, <1>5 DEF cs

(* Blocks stay placed when all from one on are given up.                   *)
LEMMA PrefixPlaced ==
  ASSUME NEW ns \in Seq(Node), NEW bs \in Seq(Block), Placed(bs, ns),
         NEW i \in 1 .. Len(bs)
  PROVE  /\ SubSeq(bs, 1, i - 1) \in Seq(Block)
         /\ Len(SubSeq(bs, 1, i - 1)) = i - 1
         /\ \A j \in 1 .. i - 1 : SubSeq(bs, 1, i - 1)[j] = bs[j]
         /\ Placed(SubSeq(bs, 1, i - 1), ns)
  <1> DEFINE cs == SubSeq(bs, 1, i - 1)
             f  == [j \in 1 .. Len(bs) |-> j]
  <1>1. /\ cs \in Seq(Block) /\ Len(cs) = i - 1
        /\ \A j \in 1 .. i - 1 : cs[j] = bs[j]
    OBVIOUS
  <1>2. /\ \A j \in 1 .. Len(bs) : f[j] = j
        /\ Len(bs) \in Nat
    OBVIOUS
  <1> HIDE DEF cs, f
  <1>3. \A j \in 1 .. Len(cs) : f[j] \in 1 .. Len(bs) /\ cs[j] = bs[f[j]]
    BY <1>1, <1>2
  <1>4. \A j, l \in 1 .. Len(cs) : j < l => f[j] < f[l]
    <2>1. \A j \in 1 .. Len(cs) : f[j] = j
      BY <1>1, <1>2
    <2> QED
      BY <2>1
  <1>5. Placed(cs, ns)
    BY <1>1, <1>3, <1>4, PartPlaced
  <1> QED
    BY <1>1, <1>5 DEF cs

(* Giving the last object back leaves the other blocks placed: all of them *)
(* end where it begins or before, in its node.                             *)
LEMMA GivenBackPlaced ==
  ASSUME NEW ns \in Seq(Node), NEW bs \in Seq(Block), Placed(bs, ns),
         NEW i \in 1 .. Len(bs), nodes = ns
  PROVE  /\ GivenBack(ns, bs[i]) \in Seq(Node)
         /\ Len(GivenBack(ns, bs[i])) = Len(ns)
         /\ ns # << >>
         /\ Placed(RemoveAt(bs, i), GivenBack(ns, bs[i]))
  <1> USE ArenaAssumption
  <1> DEFINE old == bs[i]
             k   == Len(ns)
             cs  == RemoveAt(bs, i)
             ms  == WithPosition(ns, k, old.off)
  <1>1. old \in Block /\ old.node \in 1 .. k /\ NodeSize <= old.off
    BY DEF Placed, InMemory
  <1>2. k \in Nat \ {0} /\ DOMAIN ns = 1 .. k /\ DOMAIN bs = 1 .. Len(bs)
        /\ k = Len(ns) /\ ns # << >>
    BY <1>1
  <1>3. cs \in Seq(Block) /\ Placed(cs, ns)
    BY RemovedPlaced
  <1>4. CASE ~ EndsAtPosition(old)
    BY <1>2, <1>3, <1>4 DEF GivenBack
  <1>5. CASE EndsAtPosition(old)
    <2>1. /\ old.node = k /\ old.off + old.size + PoisonBoundary = ns[k].pos
          /\ GivenBack(ns, old) = ms
      BY <1>5 DEF EndsAtPosition, GivenBack
    <2>2. /\ old.off \in Nat /\ old.size \in Nat \ {0}
          /\ old.off + old.size + PoisonBoundary \in Nat
      BY <1>1, BlockEnds
    <2>3. /\ ms \in Seq(Node) /\ Len(ms) = k
          /\ ms[k].pos = old.off
      <3>1. k \in 1 .. Len(ns) /\ k = Len(ns) /\ old.off \in Nat
        BY <1>2, <2>2
      <3> HIDE DEF old, k
      <3> QED
        BY <3>1, SetPosition
    <2>4. NodesSound(ms) /\ InMemory(cs, ms) /\ InOrder(cs)
      <3>1. NodesSound(ns) /\ InMemory(cs, ns) /\ InOrder(cs)
        BY <1>3 DEF Placed
      <3>2. k \in 1 .. Len(ns) /\ old.off \in Nat /\ NodeSize <= old.off
        BY <1>1, <1>2, <2>2
      <3> HIDE DEF old, k, cs
      <3>3. NodesSound(ms) /\ InMemory(cs, ms)
        BY <1>3, <3>1, <3>2, MovedSound DEF ms
      <3> QED
        BY <3>1, <3>3
    <2>5. \A j \in 1 .. Len(bs) :
            j # i /\ bs[j].node = k =>
              bs[j].off + bs[j].size + PoisonBoundary <= old.off
      <3>1. SUFFICES ASSUME NEW j \in 1 .. Len(bs), j # i, bs[j].node = k
                     PROVE  bs[j].off + bs[j].size + PoisonBoundary <= old.off
        OBVIOUS
      <3>2. bs[j] \in Block
        OBVIOUS
      <3>3. CASE j < i
        BY <1>2, <2>1, <3>1, <3>3 DEF Placed, InOrder
      <3>4. CASE i < j
        <4>1. old.off + old.size + PoisonBoundary <= bs[j].off
          BY <1>2, <2>1, <3>1, <3>4 DEF Placed, InOrder
        <4>2. bs[j].off + bs[j].size + PoisonBoundary <= ns[k].pos
          BY <1>2, <3>1 DEF Placed, BelowPosition
        <4>3. /\ bs[j].off \in Nat
              /\ bs[j].off + bs[j].size + PoisonBoundary \in Nat
              /\ bs[j].off < bs[j].off + bs[j].size + PoisonBoundary
          BY <3>2, BlockEnds
        <4> QED
          BY <2>1, <2>2, <4>1, <4>2, <4>3
      <3> QED
        BY <3>1, <3>3, <3>4
    <2>6. \A l \in 1 .. Len(cs) : \E j \in 1 .. Len(bs) : j # i /\ cs[l] = bs[j]
      <3>1. /\ Len(cs) = Len(bs) - 1
            /\ \A l \in 1 .. Len(bs) - 1 : cs[l] = IF l < i THEN bs[l] ELSE bs[l + 1]
        BY RemoveAtElements
      <3> HIDE DEF cs
      <3>2. SUFFICES ASSUME NEW l \in 1 .. Len(bs) - 1
                     PROVE  \E j \in 1 .. Len(bs) : j # i /\ cs[l] = bs[j]
        BY <3>1
      <3>3. CASE l < i
        BY <3>1, <3>3
      <3>4. CASE ~ (l < i)
        <4>1. l + 1 \in 1 .. Len(bs) /\ l + 1 # i /\ cs[l] = bs[l + 1]
          BY <3>1, <3>4
        <4> QED
          BY <4>1
      <3> QED
        BY <3>3, <3>4
    <2> HIDE DEF ms, cs, old
    <2>7. BelowPosition(cs, ms)
      <3>1. SUFFICES ASSUME NEW l \in 1 .. Len(cs), cs[l].node = Len(ms)
                     PROVE  cs[l].off + cs[l].size + PoisonBoundary <= ms[cs[l].node].pos
        BY <1>3 DEF BelowPosition
      <3>2. PICK j \in 1 .. Len(bs) : j # i /\ cs[l] = bs[j]
        BY <2>6
      <3> QED
        BY <2>3, <2>5, <3>1, <3>2
    <2> QED
      BY <1>2, <2>1, <2>3, <2>4, <2>7 DEF Placed, cs, old
  <1> QED
    BY <1>4, <1>5

(* Dropping nodes after the k-th and moving the position of the k-th one   *)
(* keeps a sequence of blocks placed that are all below that position.     *)
LEMMA RewoundPlaced ==
  ASSUME NEW ns \in Seq(Node), NEW bs \in Seq(Block), Placed(bs, ns),
         NEW k \in 1 .. Len(ns), NEW p \in Nat, NodeSize <= p,
         \A j \in 1 .. Len(bs) :
           \/ bs[j].node < k
           \/ bs[j].node = k /\ bs[j].off + bs[j].size + PoisonBoundary <= p
  PROVE  /\ Rewound(ns, k, p) \in Seq(Node)
         /\ Rewound(ns, k, p) # << >>
         /\ Placed(bs, Rewound(ns, k, p))
  <1> DEFINE ss == SubSeq(ns, 1, k)
             ms == WithPosition(ss, k, p)
  <1>1. /\ ss \in Seq(Node) /\ Len(ss) = k /\ DOMAIN ss = 1 .. k
        /\ \A m \in 1 .. k : ss[m] = ns[m]
    OBVIOUS
  <1>2. DOMAIN ns = 1 .. Len(ns) /\ DOMAIN bs = 1 .. Len(bs)
        /\ k \in Nat \ {0} /\ 1 .. k \subseteq 1 .. Len(ns)
    OBVIOUS
  <1> HIDE DEF ss
  <1>3. NodesSound(ss)
    BY <1>1, <1>2 DEF Placed, NodesSound
  <1>4. \A j \in 1 .. Len(bs) : bs[j] \in Block /\ bs[j].node \in 1 .. k
    <2>1. TAKE j \in 1 .. Len(bs)
    <2>2. bs[j] \in Block
      OBVIOUS
    <2>3. bs[j].node \in Nat \ {0}
      BY <2>2, BlockEnds
    <2> QED
      BY <1>2, <2>2, <2>3
  <1>5. InMemory(bs, ss)
    BY <1>1, <1>2, <1>4 DEF Placed, InMemory
  <1>6. NodesSound(ms) /\ InMemory(bs, ms)
    BY <1>1, <1>2, <1>3, <1>5, MovedSound
  <1>7. ms \in Seq(Node) /\ Len(ms) = k /\ ms[k].pos = p
    BY <1>1, <1>2, SetPosition
  <1> HIDE DEF ms
  <1>8. BelowPosition(bs, ms)
    BY <1>2, <1>4, <1>7 DEF BelowPosition
  <1>9. ms # << >>
    BY <1>2, <1>7
  <1> QED
    BY <1>6, <1>7, <1>8, <1>9 DEF Placed, Rewound, ms, ss

------------------------------------------------------------------------------

(* The inductive invariant. Beside the two properties of the blocks it     *)
(* says where the positions are: no block of the newest node reaches past  *)
(* its position, and no node claims more capacity than its memory has.     *)
ArenaInv == TypeOK /\ Placed(live, nodes)

(* Before there is an arena the invariant holds.                           *)
LEMMA InitSound == Init => ArenaInv
  BY DEF Init, ArenaInv, TypeOK, Placed, NodesSound, InMemory, InOrder, BelowPosition

(* No blocks at all are placed in any sound list of nodes.                 *)
LEMMA EmptyPlaced ==
  ASSUME NEW ns \in Seq(Node), NodesSound(ns)
  PROVE  << >> \in Seq(Block) /\ Placed(<< >>, ns)
  BY DEF Placed, InMemory, InOrder, BelowPosition

(* gp_arena_new starts with a sound list of one node.                      *)
LEMMA NewSound ==
  ASSUME ArenaInv, NEW capacity \in Capacities, NEW base \in FirstBases,
         NEW buffered \in BOOLEAN, ArenaNew(capacity, base, buffered)
  PROVE  ArenaInv'
  <1> USE ArenaAssumption
  <1>1. live = << >>
    <2>1. nodes = << >> /\ live \in Seq(Block) /\ InMemory(live, nodes)
      BY DEF ArenaNew, ArenaInv, TypeOK, Placed
    <2>2. \A i \in DOMAIN live : live[i].node \in DOMAIN nodes
      BY <2>1 DEF InMemory
    <2>3. DOMAIN nodes = {}
      BY <2>1
    <2>4. DOMAIN live = 1 .. Len(live) /\ Len(live) \in Nat
      BY <2>1
    <2>5. 1 \notin DOMAIN live
      BY <2>2, <2>3
    <2>6. Len(live) = 0
      BY <2>4, <2>5
    <2> QED
      BY <2>1, <2>6, EmptySeq
  <1>2. ASSUME NEW cap \in Nat, NEW spare \in Nat,
               nodes' = << FirstNode(base, cap, spare) >>
        PROVE  nodes' \in Seq(Node) /\ NodesSound(nodes')
    <2> DEFINE n == FirstNode(base, cap, spare)
    <2>1. n \in Node
      BY DEF FirstNode, Node
    <2>2. n.pos = NodeSize /\ n.cap = cap /\ n.alloc = NodeSize + cap + spare
      BY DEF FirstNode
    <2> HIDE DEF n
    <2>3. nodes' = << n >>
      BY <1>2 DEF n
    <2> QED
      BY <2>1, <2>2, <2>3 DEF NodesSound
  <1>3. nodes' \in Seq(Node) /\ NodesSound(nodes')
    <2>1. CASE buffered /\ FitsBuffer(capacity)
      <3>1. capacity - MetaSize - NodeSize - PoisonBoundary \in Nat
        BY <2>1 DEF FitsBuffer
      <3> QED
        BY <1>2, <2>1, <3>1 DEF ArenaNew
    <2>2. CASE ~ (buffered /\ FitsBuffer(capacity))
      <3>1. HeapCapacity(capacity) \in Nat
        <4>1. CASE capacity # 0
          <5>1. capacity \in Int
            OBVIOUS
          <5>2. RoundToAligned(capacity, AllocAlignment)
                  \in capacity .. capacity + AllocAlignment - 1
            BY <5>1, Rounding
          <5> QED
            BY <4>1, <5>2 DEF HeapCapacity
        <4>2. CASE capacity = 0
          BY <4>2 DEF HeapCapacity
        <4> QED
          BY <4>1, <4>2
      <3> QED
        BY <1>2, <2>2, <3>1 DEF ArenaNew
    <2> QED
      BY <2>1, <2>2
  <1>4. live' = << >> /\ copied' = NoCopy
    BY <1>1 DEF ArenaNew
  <1> QED
    BY <1>3, <1>4, EmptyPlaced DEF ArenaInv, TypeOK

(* gp_mem_alloc_aligned keeps the invariant.                               *)
LEMMA MemAllocSound ==
  ASSUME AlignedLayout, ArenaInv, NEW size \in Sizes, NEW align \in Alignments,
         NEW base \in Bases, MemAlloc(size, align, base)
  PROVE  ArenaInv'
  <1> DEFINE r == ArenaAlloc(nodes, base, size, align)
  <1>1. nodes \in Seq(Node) /\ nodes # << >> /\ live \in Seq(Block) /\ Placed(live, nodes)
    BY DEF ArenaInv, TypeOK, MemAlloc
  <1>2. nodes' = r.nodes /\ live' = Append(live, r.block) /\ copied' = NoCopy
    BY DEF MemAlloc
  <1>3. /\ r.nodes \in Seq(Node) /\ r.block \in Block
        /\ Placed(Append(live, r.block), r.nodes)
    BY <1>1, AllocSound
  <1> HIDE DEF r
  <1>4. live' \in Seq(Block)
    BY <1>1, <1>2, <1>3, AppendProperties
  <1> QED
    BY <1>2, <1>3, <1>4 DEF ArenaInv, TypeOK

(* gp_mem_realloc_aligned keeps it: the block given back, cut off anew.    *)
LEMMA MemReallocSound ==
  ASSUME AlignedLayout, ArenaInv, NEW i \in DOMAIN live, NEW size \in Sizes,
         NEW align \in Alignments, NEW base \in Bases, MemRealloc(i, size, align, base)
  PROVE  /\ ArenaInv'
         /\ \E b \in Block : live' = Append(RemoveAt(live, i), b)
  <1> DEFINE old    == live[i]
             others == RemoveAt(live, i)
             ns     == GivenBack(nodes, old)
             r      == ArenaAlloc(ns, base, size, align)
  <1>1. /\ nodes \in Seq(Node) /\ live \in Seq(Block) /\ Placed(live, nodes)
        /\ i \in 1 .. Len(live) /\ old \in Block
    BY DEF ArenaInv, TypeOK
  <1>2. /\ nodes' = r.nodes /\ live' = Append(others, r.block)
        /\ \/ copied' = NoCopy
           \/ copied' = [from |-> old, to |-> r.block, len |-> old.size]
    BY DEF MemRealloc
  <1>3. others \in Seq(Block)
    BY <1>1, RemovedPlaced
  <1>4. ns \in Seq(Node) /\ Len(ns) = Len(nodes) /\ nodes # << >> /\ Placed(others, ns)
    BY <1>1, GivenBackPlaced
  <1> HIDE DEF others, ns
  <1>5. ns # << >>
    BY <1>1, <1>4
  <1>6. /\ r.nodes \in Seq(Node) /\ r.block \in Block
        /\ Placed(Append(others, r.block), r.nodes)
    BY <1>3, <1>4, <1>5, AllocSound
  <1> HIDE DEF r, old
  <1>7. live' \in Seq(Block)
    BY <1>2, <1>3, <1>6, AppendProperties
  <1>8. copied' = NoCopy \/ copied' \in Copy
    <2>1. old.size \in Nat
      BY <1>1, BlockEnds
    <2> QED
      BY <1>1, <1>2, <1>6, <2>1 DEF Copy
  <1> QED
    BY <1>2, <1>6, <1>7, <1>8 DEF ArenaInv, TypeOK, others

(* gp_arena_rewind keeps it: the blocks kept are below the new position.   *)
LEMMA RewindSound ==
  ASSUME ArenaInv, NEW i \in DOMAIN live, ArenaRewind(i)
  PROVE  ArenaInv'
  <1> USE ArenaAssumption
  <1> DEFINE b     == live[i]
             stops == RewindStops(b)
             k     == CHOOSE m \in stops : \A n \in stops : n <= m
             cs    == SubSeq(live, 1, i - 1)
  <1>1. /\ nodes \in Seq(Node) /\ live \in Seq(Block) /\ Placed(live, nodes)
        /\ i \in 1 .. Len(live) /\ b \in Block
        /\ DOMAIN nodes = 1 .. Len(nodes) /\ DOMAIN live = 1 .. Len(live)
    BY DEF ArenaInv, TypeOK
  <1>2. /\ stops # {} /\ nodes' = Rewound(nodes, k, b.off)
        /\ live' = cs /\ copied' = NoCopy
    BY DEF ArenaRewind
  <1>3. stops \subseteq {b.node}
    BY DEF RewindStops, InThisNode
  <1>4. b.node \in 1 .. Len(nodes) /\ NodeSize <= b.off /\ b.off \in Nat /\ b.node \in Nat
    <2>1. b.node \in 1 .. Len(nodes) /\ NodeSize <= b.off
      BY <1>1 DEF Placed, InMemory
    <2> QED
      BY <1>1, <2>1, BlockEnds
  <1>5. k = b.node
    <2>1. stops = {b.node}
      BY <1>2, <1>3
    <2> HIDE DEF stops
    <2> QED
      BY <1>4, <2>1
  <1> HIDE DEF k
  <1>6. /\ cs \in Seq(Block) /\ Len(cs) = i - 1 /\ Placed(cs, nodes)
        /\ \A j \in 1 .. i - 1 : cs[j] = live[j]
    BY <1>1, PrefixPlaced
  <1> HIDE DEF cs
  <1>7. \A j \in 1 .. Len(cs) :
          \/ cs[j].node < b.node
          \/ cs[j].node = b.node /\ cs[j].off + cs[j].size + PoisonBoundary <= b.off
    <2>1. TAKE j \in 1 .. Len(cs)
    <2>2. j \in 1 .. Len(live) /\ j < i /\ cs[j] = live[j]
      BY <1>1, <1>6
    <2> QED
      BY <1>1, <2>2 DEF Placed, InOrder
  <1>8. /\ Rewound(nodes, b.node, b.off) \in Seq(Node)
        /\ Placed(cs, Rewound(nodes, b.node, b.off))
    BY <1>1, <1>4, <1>6, <1>7, RewoundPlaced
  <1> QED
    BY <1>2, <1>5, <1>6, <1>8 DEF ArenaInv, TypeOK

(* gp_arena_reset keeps it: one node left and no blocks.                   *)
LEMMA ResetSound ==
  ASSUME ArenaInv, ArenaReset
  PROVE  ArenaInv'
  <1> USE ArenaAssumption
  <1>1. /\ nodes \in Seq(Node) /\ nodes # << >> /\ NodesSound(nodes)
        /\ nodes' = Rewound(nodes, 1, NodeSize) /\ live' = << >> /\ copied' = NoCopy
    BY DEF ArenaInv, TypeOK, ArenaReset, Placed
  <1>2. 1 \in 1 .. Len(nodes)
    BY <1>1
  <1>3. << >> \in Seq(Block) /\ Placed(<< >>, nodes) /\ Len(<< >>) = 0
    BY <1>1, EmptyPlaced
  <1>4. ASSUME NEW bs \in Seq(Block), Placed(bs, nodes), Len(bs) = 0
        PROVE  nodes' \in Seq(Node) /\ Placed(bs, nodes')
    <2>1. \A j \in 1 .. Len(bs) : FALSE
      BY <1>4
    <2>2. NodeSize \in Nat /\ NodeSize <= NodeSize
      OBVIOUS
    <2> QED
      BY <1>1, <1>2, <1>4, <2>1, <2>2, RewoundPlaced
  <1> QED
    BY <1>1, <1>3, <1>4 DEF ArenaInv, TypeOK

(* Every step of the arena, or none, keeps the invariant.                  *)
LEMMA StepSound ==
  ASSUME AlignedLayout, ArenaInv, [Next]_vars
  PROVE  ArenaInv'
  <1>1. ASSUME NEW capacity \in Capacities, NEW base \in FirstBases,
               NEW buffered \in BOOLEAN, ArenaNew(capacity, base, buffered)
        PROVE  ArenaInv'
    BY <1>1, NewSound
  <1>2. ASSUME NEW size \in Sizes, NEW align \in Alignments, NEW base \in Bases,
               MemAlloc(size, align, base)
        PROVE  ArenaInv'
    BY <1>2, MemAllocSound
  <1>3. ASSUME NEW i \in DOMAIN live, MemDealloc(i)
        PROVE  ArenaInv'
    <2>1. /\ nodes \in Seq(Node) /\ live \in Seq(Block) /\ Placed(live, nodes)
          /\ i \in 1 .. Len(live)
      BY <1>3 DEF ArenaInv, TypeOK
    <2>2. RemoveAt(live, i) \in Seq(Block) /\ Placed(RemoveAt(live, i), nodes)
      BY <2>1, RemovedPlaced
    <2> QED
      BY <1>3, <2>1, <2>2 DEF MemDealloc, ArenaInv, TypeOK
  <1>4. ASSUME NEW i \in DOMAIN live, NEW size \in Sizes, NEW align \in Alignments,
               NEW base \in Bases, MemRealloc(i, size, align, base)
        PROVE  ArenaInv'
    BY <1>4, MemReallocSound
  <1>5. ASSUME NEW i \in DOMAIN live, ArenaRewind(i)
        PROVE  ArenaInv'
    BY <1>5, RewindSound
  <1>6. CASE ArenaReset
    BY <1>6, ResetSound
  <1>7. CASE ArenaDelete
    <2>1. << >> \in Seq(Node) /\ NodesSound(<< >>)
      BY DEF NodesSound
    <2>2. << >> \in Seq(Block) /\ Placed(<< >>, << >>)
      BY <2>1, EmptyPlaced
    <2> QED
      BY <1>7, <2>1, <2>2 DEF ArenaDelete, ArenaInv, TypeOK
  <1>8. CASE UNCHANGED vars
    BY <1>8 DEF vars, ArenaInv, TypeOK, Placed, NodesSound, InMemory, InOrder,
                BelowPosition
  <1> QED
    BY <1>1, <1>2, <1>3, <1>4, <1>5, <1>6, <1>7, <1>8 DEF Next

(* Every reachable state satisfies the inductive invariant.                *)
THEOREM ArenaInvariant == ASSUME AlignedLayout PROVE Spec => []ArenaInv
  <1>1. Init => ArenaInv
    BY InitSound
  <1>2. ArenaInv /\ [Next]_vars => ArenaInv'
    BY StepSound
  <1> QED
    BY <1>1, <1>2, PTL DEF Spec

(* The list and the client's blocks always have their types.               *)
THEOREM TypeCorrect == ASSUME AlignedLayout PROVE Spec => []TypeOK
  <1>1. ArenaInv => TypeOK
    BY DEF ArenaInv
  <1> QED
    BY <1>1, ArenaInvariant, PTL

(* Whatever sequence of allocations, reallocations, rewinds and resets a   *)
(* client makes, no block it holds is outside its node's memory ...        *)
THEOREM BlocksStayInMemory == ASSUME AlignedLayout PROVE Spec => []BlocksInMemory
  <1>1. ArenaInv => BlocksInMemory
    BY DEF ArenaInv, Placed, InMemory, BlocksInMemory
  <1> QED
    BY <1>1, ArenaInvariant, PTL

(* ... and none overlaps another.                                          *)
THEOREM BlocksStayInOrder == ASSUME AlignedLayout PROVE Spec => []BlocksInOrder
  <1>1. ArenaInv => BlocksInOrder
    BY DEF ArenaInv, Placed, InOrder, BlocksInOrder
  <1> QED
    BY <1>1, ArenaInvariant, PTL

(* The position never falls below the end of a block of the newest node.   *)
THEOREM BlocksStayBelowPosition ==
  ASSUME AlignedLayout PROVE Spec => []BlocksBelowPosition
  <1>1. ArenaInv => BlocksBelowPosition
    BY DEF ArenaInv, Placed, BelowPosition, BlocksBelowPosition
  <1> QED
    BY <1>1, ArenaInvariant, PTL

------------------------------------------------------------------------------

(* A block after all the others in order shares no byte with any of them.  *)
LEMMA LaterIsFresh ==
  ASSUME NEW bs \in Seq(Block), NEW b \in Block, InOrder(Append(bs, b))
  PROVE  /\ Len(Append(bs, b)) = Len(bs) + 1
         /\ Append(bs, b)[Len(Append(bs, b))] = b
         /\ \A i \in DOMAIN bs : Append(bs, b)[i] = bs[i]
         /\ Allocator!Fresh(b, bs)
  <1> DEFINE cs == Append(bs, b)
  <1>1. /\ Len(cs) = Len(bs) + 1 /\ cs[Len(bs) + 1] = b /\ cs \in Seq(Block)
        /\ \A i \in 1 .. Len(bs) : cs[i] = bs[i]
    BY AppendProperties
  <1>2. InOrder(cs) /\ DOMAIN bs = 1 .. Len(bs) /\ Len(bs) \in Nat
    OBVIOUS
  <1> HIDE DEF cs
  <1>3. DOMAIN cs = 1 .. Len(bs) + 1
    BY <1>1
  <1>4. ASSUME NEW i \in 1 .. Len(bs)
        PROVE  ~ Allocator!Overlap(b, bs[i])
    <2>1. \/ bs[i].node < b.node
          \/ bs[i].off + bs[i].size + PoisonBoundary <= b.off
      BY <1>1, <1>2, <1>3 DEF InOrder
    <2>2. /\ bs[i].node \in Nat /\ bs[i].off \in Nat /\ bs[i].size \in Nat
          /\ b.node \in Nat /\ b.off \in Nat /\ b.size \in Nat /\ PoisonBoundary \in Nat
      <3>1. bs[i] \in Block
        OBVIOUS
      <3> QED
        BY <3>1, BlockEnds, ArenaAssumption
    <2>3. CASE bs[i].node < b.node
      BY <2>2, <2>3 DEF Allocator!Overlap
    <2>4. CASE bs[i].off + bs[i].size + PoisonBoundary <= b.off
      BY <2>2, <2>4 DEF Allocator!Overlap
    <2> QED
      BY <2>1, <2>3, <2>4
  <1> QED
    BY <1>1, <1>2, <1>4 DEF Allocator!Fresh, cs

(* Every step of the arena is a step of an allocator or changes no block.  *)
LEMMA StepRefines ==
  ASSUME AlignedLayout, ArenaInv, [Next]_vars
  PROVE  [Allocator!Next]_live
  <1>1. live \in Seq(Block) /\ ArenaInv'
    BY StepSound DEF ArenaInv, TypeOK
  <1>2. InOrder(live') /\ live' \in Seq(Block)
    BY <1>1 DEF ArenaInv, Placed, TypeOK, InOrder
  <1>3. ASSUME NEW capacity \in Capacities, NEW base \in FirstBases,
               NEW buffered \in BOOLEAN, ArenaNew(capacity, base, buffered)
        PROVE  UNCHANGED live
    BY <1>3 DEF ArenaNew
  <1>4. ASSUME NEW size \in Sizes, NEW align \in Alignments, NEW base \in Bases,
               MemAlloc(size, align, base)
        PROVE  Allocator!Acquire
    <2> DEFINE r == ArenaAlloc(nodes, base, size, align)
    <2>1. live' = Append(live, r.block) /\ r.block \in Block
      <3>1. /\ nodes \in Seq(Node) /\ nodes # << >> /\ Placed(live, nodes)
            /\ live' = Append(live, r.block)
        BY <1>4 DEF ArenaInv, TypeOK, MemAlloc
      <3> QED
        BY <1>1, <3>1, AllocSound
    <2> HIDE DEF r
    <2> QED
      BY <1>1, <1>2, <2>1, LaterIsFresh DEF Allocator!Acquire
  <1>5. ASSUME NEW i \in DOMAIN live, MemDealloc(i)
        PROVE  Allocator!Release
    BY <1>5 DEF MemDealloc, RemoveAt, Allocator!Release, Allocator!RemoveAt
  <1>6. ASSUME NEW i \in DOMAIN live, NEW size \in Sizes, NEW align \in Alignments,
               NEW base \in Bases, MemRealloc(i, size, align, base)
        PROVE  Allocator!Exchange
    <2>1. PICK b \in Block : live' = Append(RemoveAt(live, i), b)
      BY <1>6, MemReallocSound
    <2>2. /\ RemoveAt(live, i) \in Seq(Block)
          /\ Len(RemoveAt(live, i)) = Len(live) - 1 /\ Len(live) \in Nat
      BY <1>1, RemoveAtElements
    <2>3. /\ Len(live') = Len(RemoveAt(live, i)) + 1
          /\ live'[Len(live')] = b
          /\ \A j \in DOMAIN RemoveAt(live, i) : live'[j] = RemoveAt(live, i)[j]
          /\ Allocator!Fresh(b, RemoveAt(live, i))
      BY <1>2, <2>1, <2>2, LaterIsFresh
    <2>4. Allocator!RemoveAt(live, i) = RemoveAt(live, i)
      BY DEF RemoveAt, Allocator!RemoveAt
    <2> QED
      BY <2>2, <2>3, <2>4 DEF Allocator!Exchange
  <1>7. ASSUME NEW i \in DOMAIN live, ArenaRewind(i)
        PROVE  Allocator!ReleaseFrom
    BY <1>7 DEF ArenaRewind, Allocator!ReleaseFrom
  <1>8. ASSUME live' = << >>
        PROVE  Allocator!ReleaseFrom \/ UNCHANGED live
    <2>1. CASE live = << >>
      BY <1>8, <2>1
    <2>2. CASE live # << >>
      <3>1. 1 \in DOMAIN live /\ SubSeq(live, 1, 1 - 1) = << >>
        BY <1>1, <2>2
      <3> QED
        BY <1>8, <3>1 DEF Allocator!ReleaseFrom
    <2> QED
      BY <2>1, <2>2
  <1>9. CASE ArenaReset \/ ArenaDelete
    BY <1>8, <1>9 DEF ArenaReset, ArenaDelete, Allocator!Next
  <1>10. CASE UNCHANGED vars
    BY <1>10 DEF vars
  <1> QED
    BY <1>3, <1>4, <1>5, <1>6, <1>7, <1>9, <1>10 DEF Next, Allocator!Next

(* An arena keeps the promise of every GPAllocator: a block it hands out   *)
(* is disjoint from the blocks in use, and those stay where they are.      *)
THEOREM ArenaImplementsAllocator ==
  ASSUME AlignedLayout PROVE Spec => ImplementsAllocator
  <1>1. Init => Allocator!Init
    BY DEF Init, Allocator!Init
  <1>2. ArenaInv /\ [Next]_vars => [Allocator!Next]_live
    BY StepRefines
  <1> QED
    BY <1>1, <1>2, ArenaInvariant, PTL DEF Spec, ImplementsAllocator, Allocator!Spec

(***************************************************************************)
(* What clients of an arena rely on besides their blocks staying apart:    *)
(* that blocks are aligned, that the copy of a reallocation reads what it  *)
(* should, and that a rewind finds the node of its block.                  *)
(*                                                                         *)
(* The argument. Operations keep the place and the capacity of the nodes   *)
(* they leave (SameNodes), so what an arena promised of a block when it    *)
(* was cut off it promises for good; what is left is to see that it is so  *)
(* for each new block (NewBlockAligned, NewBlockFound). A reallocation in  *)
(* place copies nothing because the block was aligned already.             *)
(***************************************************************************)

AlignedIn(b, ns) == (ns[b.node].base + b.off) % b.align = 0

FoundIn(b, ns) == b.off <= NodeSize + ns[b.node].cap

(* The nodes that both lists have are in the same place and equally large. *)
SameNodes(ns, ms) ==
  \A k \in DOMAIN ns \cap DOMAIN ms :
    ms[k].base = ns[k].base /\ ms[k].cap = ns[k].cap

(* Any node takes an aligned block of no size: the capacities that clients *)
(* ask for leave room for the padding, and nodes do not get smaller.       *)
RoomForAlignments ==
  /\ GrowNum >= GrowDen
  /\ \A align \in Alignments, capacity \in Capacities :
       /\ align <= HeapCapacity(capacity) + AllocAlignment
       /\ FitsBuffer(capacity) =>
            align <= capacity - MetaSize - NodeSize - PoisonBoundary + AllocAlignment

HasRoom(node) == \A align \in Alignments : align <= node.cap + AllocAlignment

(* Two multiples of the same number are equal or at least as far apart.    *)
LEMMA MultiplesApart ==
  ASSUME NEW b \in Nat \ {0}, NEW x \in Int, NEW y \in Int,
         x % b = 0, y % b = 0, y \in x .. x + b - 1
  PROVE  y = x
  <1> DEFINE m == x \div b
             n == y \div b
  <1>1. x = b * m /\ y = b * n /\ m \in Int /\ n \in Int
    OBVIOUS
  <1> HIDE DEF m, n
  <1>2. b * (n - m) = b * n - b * m
    BY <1>1, Distributes
  <1>3. ASSUME n - m >= 1 PROVE FALSE
    <2>1. b * 1 <= b * (n - m)
      BY <1>1, <1>3, ProductOrder
    <2> QED
      BY <1>1, <1>2, <2>1
  <1>4. ASSUME n - m <= -1 PROVE FALSE
    <2>1. b * (n - m) <= b * (-1)
      BY <1>1, <1>4, ProductOrder
    <2> QED
      BY <1>1, <1>2, <2>1
  <1>5. n = m
    BY <1>1, <1>3, <1>4
  <1> QED
    BY <1>1, <1>5

(* An offset that is aligned stays where it is.                            *)
LEMMA AlignedStays ==
  ASSUME NEW base \in Nat, NEW off \in Nat, NEW align \in Nat \ {0},
         (base + off) % align = 0
  PROVE  AlignedOffset(base, off, align) = off
  <1> DEFINE x == base + off
             y == RoundToAligned(x, align)
  <1>1. x \in Int /\ x % align = 0 /\ x - base = off
    OBVIOUS
  <1> HIDE DEF x
  <1>2. y \in x .. x + align - 1 /\ y % align = 0
    BY <1>1, Rounding
  <1> HIDE DEF y
  <1>3. y \in Int
    BY <1>1, <1>2
  <1>4. y = x
    BY <1>1, <1>2, <1>3, MultiplesApart
  <1> QED
    BY <1>1, <1>4 DEF AlignedOffset, x, y

(* A new node is at least as large as the one before.                      *)
LEMMA GrowsEnough ==
  ASSUME RoomForAlignments, NEW cap \in Nat
  PROVE  GrownCapacity(cap) \in Nat /\ cap <= GrownCapacity(cap)
  <1> DEFINE x == cap * GrowNum
             q == x \div GrowDen
  <1>1. /\ GrowNum \in Nat \ {0} /\ GrowDen \in Nat \ {0} /\ GrowDen <= GrowNum
    BY ArenaAssumption DEF RoomForAlignments
  <1>2. x \in Nat /\ GrowDen * cap <= x
    <2>1. cap * GrowDen <= cap * GrowNum
      BY <1>1, ProductOrder
    <2> QED
      BY <1>1, <2>1
  <1> HIDE DEF x
  <1>3. q \in Nat /\ x = GrowDen * q + (x % GrowDen) /\ x % GrowDen \in 0 .. GrowDen - 1
    BY <1>1, <1>2
  <1> HIDE DEF q
  <1>4. ASSUME q + 1 <= cap PROVE FALSE
    <2>1. GrowDen * (q + 1) <= GrowDen * cap
      BY <1>1, <1>3, <1>4, ProductOrder
    <2>2. GrowDen * (q + 1) = GrowDen * q + GrowDen
      BY <1>1, <1>3
    <2>3. GrowDen * q \in Int /\ GrowDen * cap \in Int /\ x % GrowDen \in Int
      BY <1>1, <1>3
    <2> QED
      BY <1>1, <1>2, <1>3, <2>1, <2>2, <2>3
  <1>5. q \in Nat /\ cap <= q
    BY <1>3, <1>4
  <1> QED
    BY <1>5 DEF GrownCapacity, q, x

------------------------------------------------------------------------------

(* Moving a position, and adding nodes or dropping them, leaves the others. *)
LEMMA SamePosition ==
  ASSUME NEW ns \in Seq(Node), NEW k \in 1 .. Len(ns), NEW p \in Nat
  PROVE  SameNodes(ns, WithPosition(ns, k, p))
  BY SetPosition DEF SameNodes

(* What gp_arena_alloc returns is aligned, and the nodes are where they     *)
(* were.                                                                   *)
LEMMA NewBlockAligned ==
  ASSUME NEW ns \in Seq(Node), ns # << >>, NEW base \in Bases,
         NEW size \in Sizes, NEW align \in Alignments
  PROVE  LET r == ArenaAlloc(ns, base, size, align) IN
         /\ SameNodes(ns, r.nodes)
         /\ AlignedIn(r.block, r.nodes)
         /\ Fits(ns[Len(ns)], AlignedOffset(ns[Len(ns)].base, ns[Len(ns)].pos, align), size)
              => /\ r.block.node = Len(ns)
                 /\ r.block.off = AlignedOffset(ns[Len(ns)].base, ns[Len(ns)].pos, align)
         /\ ~ Fits(ns[Len(ns)], AlignedOffset(ns[Len(ns)].base, ns[Len(ns)].pos, align), size)
              => r.block.node = Len(ns) + 1
  <1> USE ArenaAssumption
  <1> DEFINE r   == ArenaAlloc(ns, base, size, align)
             k   == Len(ns)
             off == AlignedOffset(ns[k].base, ns[k].pos, align)
             new == AlignedOffset(base, NodeSize, align)
             n   == NodeFor(ns[k], base, size, align)
  <1>1. /\ k \in 1 .. Len(ns) /\ k = Len(ns) /\ k \in Nat \ {0} /\ ns[k] \in Node
        /\ DOMAIN ns = 1 .. k
    OBVIOUS
  <1> HIDE DEF k
  <1>2. /\ ns[k].base \in Nat /\ ns[k].pos \in Nat
        /\ base \in Nat /\ NodeSize \in Nat /\ size \in Nat /\ PoisonBoundary \in Nat
        /\ align \in Nat \ {0}
    BY <1>1 DEF Node
  <1>3. off \in ns[k].pos .. ns[k].pos + align - 1 /\ (ns[k].base + off) % align = 0
    BY <1>2, AlignedOffsetBounds
  <1>4. (base + new) % align = 0
    BY <1>2, AlignedOffsetBounds
  <1>5. n.base = base
    BY DEF NodeFor
  <1> HIDE DEF off, new, n
  <1>6. off \in Nat
    BY <1>2, <1>3
  <1>7. CASE Fits(ns[k], off, size)
    <2> DEFINE p  == off + size + PoisonBoundary
               ms == WithPosition(ns, k, p)
               b  == [node |-> k, off |-> off, size |-> size, align |-> align]
    <2>1. r.nodes = ms /\ r.block = b
      BY <1>1, <1>7 DEF ArenaAlloc, off, k
    <2>2. p \in Nat
      BY <1>2, <1>6
    <2> HIDE DEF p
    <2>3. SameNodes(ns, ms) /\ ms[k].base = ns[k].base
      <3>1. Len(ms) = k /\ ms \in Seq(Node) /\ SameNodes(ns, ms)
        BY <1>1, <2>2, SamePosition, SetPosition
      <3> HIDE DEF ms
      <3>2. k \in DOMAIN ms
        BY <1>1, <3>1
      <3> QED
        BY <1>1, <3>1, <3>2 DEF SameNodes
    <2>4. b.node = k /\ b.off = off /\ b.align = align
      OBVIOUS
    <2> HIDE DEF ms, b
    <2>5. AlignedIn(b, ms)
      BY <1>3, <2>3, <2>4 DEF AlignedIn
    <2> HIDE DEF r
    <2> QED
      BY <1>7, <2>1, <2>3, <2>4, <2>5 DEF r, off, k
  <1>8. CASE ~ Fits(ns[k], off, size)
    <2> DEFINE ms == WithPosition(ns, k, off)
               ls == Append(ms, n)
               b  == [node |-> k + 1, off |-> new, size |-> size, align |-> align]
    <2>1. r.nodes = ls /\ r.block = b
      BY <1>1, <1>8 DEF ArenaAlloc, off, k, new, n
    <2>2. ms \in Seq(Node) /\ Len(ms) = k /\ SameNodes(ns, ms)
      BY <1>1, <1>6, SamePosition, SetPosition
    <2> HIDE DEF ms
    <2>3. /\ Len(ls) = k + 1 /\ ls[k + 1] = n
          /\ \A m \in 1 .. k : ls[m] = ms[m]
      BY <2>2
    <2>4. SameNodes(ns, ls)
      <3>1. DOMAIN ms = 1 .. k
        BY <2>2
      <3> HIDE DEF ls
      <3> QED
        BY <1>1, <2>2, <2>3, <3>1 DEF SameNodes
    <2>5. b.node = k + 1 /\ b.off = new /\ b.align = align
      OBVIOUS
    <2> HIDE DEF ls, b
    <2>6. AlignedIn(b, ls)
      BY <1>4, <1>5, <2>3, <2>5 DEF AlignedIn
    <2> HIDE DEF r
    <2> QED
      BY <1>8, <2>1, <2>4, <2>5, <2>6 DEF r, off, k
  <1> QED
    BY <1>7, <1>8

(* Where alignments have room, gp_arena_alloc puts a block within the       *)
(* capacity of its node, and any node it makes has room in turn.           *)
LEMMA NewBlockFound ==
  ASSUME AlignedLayout, RoomForAlignments, NEW ns \in Seq(Node), ns # << >>,
         \A k \in DOMAIN ns : HasRoom(ns[k]),
         NEW base \in Bases, NEW size \in Sizes, NEW align \in Alignments
  PROVE  LET r == ArenaAlloc(ns, base, size, align) IN
         /\ \A k \in DOMAIN r.nodes : HasRoom(r.nodes[k])
         /\ FoundIn(r.block, r.nodes)
  <1> USE ArenaAssumption
  <1> DEFINE r   == ArenaAlloc(ns, base, size, align)
             k   == Len(ns)
             off == AlignedOffset(ns[k].base, ns[k].pos, align)
             new == AlignedOffset(base, NodeSize, align)
             n   == NodeFor(ns[k], base, size, align)
  <1>1. /\ k \in 1 .. Len(ns) /\ k = Len(ns) /\ k \in Nat \ {0} /\ ns[k] \in Node
        /\ DOMAIN ns = 1 .. k
    OBVIOUS
  <1>2. n \in Node /\ n.cap = GrownCapacity(ns[k].cap)
    BY <1>1, NodeForSound DEF NodeFor
  <1> HIDE DEF k
  <1>3. /\ ns[k].base \in Nat /\ ns[k].pos \in Nat /\ ns[k].cap \in Nat
        /\ base \in Nat /\ NodeSize \in Nat /\ size \in Nat /\ PoisonBoundary \in Nat
        /\ align \in Nat \ {0} /\ AllocAlignment \in Nat \ {0}
    BY <1>1 DEF Node
  <1>4. off \in Nat
    <2>1. off \in ns[k].pos .. ns[k].pos + align - 1
      BY <1>3, AlignedOffsetBounds
    <2> HIDE DEF off
    <2> QED
      BY <1>3, <2>1
  <1>5. new <= NodeSize + align - AllocAlignment /\ new \in Int
    <2> DEFINE x == base + NodeSize
               y == RoundToAligned(x, align)
    <2>1. /\ x % AllocAlignment = 0 /\ x \in Int /\ align % AllocAlignment = 0
          /\ x = base + NodeSize
      <3>1. /\ base % AllocAlignment = 0 /\ NodeSize % AllocAlignment = 0
            /\ align % AllocAlignment = 0 /\ base \in Int /\ NodeSize \in Int
        BY <1>3 DEF AlignedLayout
      <3>2. (base + NodeSize) % AllocAlignment = 0
        BY <1>3, <3>1, MultipleSum
      <3> QED
        BY <3>1, <3>2
    <2> HIDE DEF x
    <2>2. y <= x + align - AllocAlignment /\ y \in x .. x + align - 1
      BY <1>3, <2>1, RoundingMultiple, Rounding
    <2> HIDE DEF y
    <2>3. new = y - base
      BY DEF AlignedOffset, x, y
    <2> QED
      BY <1>3, <2>1, <2>2, <2>3
  <1> HIDE DEF off, new, n
  <1>6. n.cap \in Nat /\ ns[k].cap <= n.cap
    BY <1>2, <1>3, GrowsEnough
  <1>7. HasRoom(n) /\ new <= NodeSize + n.cap
    <2>1. \A a \in Alignments : a <= n.cap + AllocAlignment
      <3>1. \A a \in Alignments : a \in Nat /\ a <= ns[k].cap + AllocAlignment
        BY <1>1 DEF HasRoom
      <3> QED
        BY <1>3, <1>6, <3>1
    <2>2. align <= n.cap + AllocAlignment
      BY <2>1
    <2>3. new <= NodeSize + n.cap
      BY <1>3, <1>5, <1>6, <2>2
    <2> QED
      BY <2>1, <2>3 DEF HasRoom
  <1>8. ASSUME NEW p \in Nat
        PROVE  /\ Len(WithPosition(ns, k, p)) = k /\ WithPosition(ns, k, p) \in Seq(Node)
               /\ \A m \in 1 .. k : /\ WithPosition(ns, k, p)[m].cap = ns[m].cap
                                    /\ HasRoom(WithPosition(ns, k, p)[m])
    <2>1. /\ Len(WithPosition(ns, k, p)) = k /\ WithPosition(ns, k, p) \in Seq(Node)
          /\ \A m \in 1 .. k : WithPosition(ns, k, p)[m].cap = ns[m].cap
      BY <1>1, SetPosition
    <2>2. \A m \in 1 .. k : HasRoom(ns[m])
      BY <1>1
    <2> QED
      BY <2>1, <2>2 DEF HasRoom
  <1>9. CASE Fits(ns[k], off, size)
    <2> DEFINE p  == off + size + PoisonBoundary
               ms == WithPosition(ns, k, p)
               b  == [node |-> k, off |-> off, size |-> size, align |-> align]
    <2>1. r.nodes = ms /\ r.block = b
      BY <1>1, <1>9 DEF ArenaAlloc, off, k
    <2>2. p \in Nat /\ p = off + size + PoisonBoundary /\ p <= NodeSize + ns[k].cap
      BY <1>3, <1>4, <1>9 DEF Fits
    <2> HIDE DEF p
    <2>3. /\ Len(ms) = k /\ ms \in Seq(Node) /\ ms[k].cap = ns[k].cap
          /\ \A m \in 1 .. k : HasRoom(ms[m])
      BY <1>1, <1>8, <2>2
    <2>4. b.node = k /\ b.off = off
      OBVIOUS
    <2> HIDE DEF ms, b
    <2>5. off <= NodeSize + ms[k].cap
      BY <1>3, <1>4, <2>2, <2>3
    <2>6. DOMAIN ms = 1 .. k
      BY <2>3
    <2> HIDE DEF r
    <2> QED
      BY <2>1, <2>3, <2>4, <2>5, <2>6 DEF FoundIn, r
  <1>10. CASE ~ Fits(ns[k], off, size)
    <2> DEFINE ms == WithPosition(ns, k, off)
               ls == Append(ms, n)
               b  == [node |-> k + 1, off |-> new, size |-> size, align |-> align]
    <2>1. r.nodes = ls /\ r.block = b
      BY <1>1, <1>10 DEF ArenaAlloc, off, k, new, n
    <2>2. ms \in Seq(Node) /\ Len(ms) = k /\ \A m \in 1 .. k : HasRoom(ms[m])
      BY <1>4, <1>8
    <2> HIDE DEF ms
    <2>3. /\ Len(ls) = k + 1 /\ ls[k + 1] = n /\ ls \in Seq(Node)
          /\ \A m \in 1 .. k : ls[m] = ms[m]
      BY <1>2, <2>2
    <2>4. b.node = k + 1 /\ b.off = new
      OBVIOUS
    <2> HIDE DEF ls, b
    <2>5. ASSUME NEW m \in DOMAIN ls PROVE HasRoom(ls[m])
      <3>1. m \in 1 .. k \/ m = k + 1
        BY <1>1, <2>3
      <3> QED
        BY <1>7, <2>2, <2>3, <3>1
    <2>6. FoundIn(b, ls)
      BY <1>7, <2>3, <2>4 DEF FoundIn
    <2> HIDE DEF r
    <2> QED
      BY <2>1, <2>5, <2>6 DEF r
  <1> QED
    BY <1>9, <1>10

------------------------------------------------------------------------------

(* Every block after a step was there before it or was cut off aligned,    *)
(* and within the capacity if alignments have room.                        *)
StepKeeps ==
  /\ SameNodes(nodes, nodes')
  /\ \A i \in DOMAIN live' :
       (\E j \in DOMAIN live : live'[i] = live[j]) \/ AlignedIn(live'[i], nodes')
  /\ (RoomForAlignments /\ \A k \in DOMAIN nodes : HasRoom(nodes[k])) =>
       /\ \A k \in DOMAIN nodes' : HasRoom(nodes'[k])
       /\ \A i \in DOMAIN live' :
            (\E j \in DOMAIN live : live'[i] = live[j]) \/ FoundIn(live'[i], nodes')

(* gp_arena_new makes a node that has room for alignments if its arguments  *)
(* do.                                                                     *)
LEMMA NewKeeps ==
  ASSUME NEW capacity \in Capacities, NEW base \in FirstBases,
         NEW buffered \in BOOLEAN, ArenaNew(capacity, base, buffered)
  PROVE  StepKeeps
  <1>1. nodes = << >> /\ live' = live
    BY DEF ArenaNew
  <1>2. PICK cap : /\ nodes' = << FirstNode(base, cap, 0) >>
                     \/ nodes' = << FirstNode(base, cap, PoisonBoundary) >>
                   /\ RoomForAlignments =>
                        \A align \in Alignments : align <= cap + AllocAlignment
    <2>1. CASE buffered /\ FitsBuffer(capacity)
      BY <2>1 DEF ArenaNew, RoomForAlignments
    <2>2. CASE ~ (buffered /\ FitsBuffer(capacity))
      BY <2>2 DEF ArenaNew, RoomForAlignments
    <2> QED
      BY <2>1, <2>2
  <1>3. DOMAIN nodes' = {1} /\ nodes'[1].cap = cap
    BY <1>2 DEF FirstNode
  <1>4. DOMAIN nodes = {}
    BY <1>1
  <1> QED
    BY <1>1, <1>2, <1>3, <1>4 DEF StepKeeps, SameNodes, HasRoom

(* gp_mem_dealloc, gp_arena_rewind, gp_arena_reset and gp_arena_delete     *)
(* leave a part of the blocks and of the nodes.                            *)
LEMMA FewerKeeps ==
  ASSUME ArenaInv,
         \/ \E i \in DOMAIN live : MemDealloc(i) \/ ArenaRewind(i)
         \/ ArenaReset
         \/ ArenaDelete
         \/ UNCHANGED vars
  PROVE  StepKeeps
  <1> USE ArenaAssumption
  <1>1. nodes \in Seq(Node) /\ live \in Seq(Block) /\ Placed(live, nodes)
    BY DEF ArenaInv, TypeOK
  <1>2. ASSUME NEW k \in 1 .. Len(nodes), NEW p \in Nat, nodes' = Rewound(nodes, k, p)
        PROVE  /\ DOMAIN nodes' \subseteq DOMAIN nodes
               /\ \A m \in DOMAIN nodes' : /\ nodes'[m].base = nodes[m].base
                                           /\ nodes'[m].cap = nodes[m].cap
    <2> DEFINE ss == SubSeq(nodes, 1, k)
    <2>1. ss \in Seq(Node) /\ Len(ss) = k /\ \A m \in 1 .. k : ss[m] = nodes[m]
      BY <1>1
    <2>2. nodes' = WithPosition(ss, k, p)
      BY <1>2 DEF Rewound
    <2> HIDE DEF ss
    <2>3. /\ Len(nodes') = k /\ nodes' \in Seq(Node)
          /\ \A m \in 1 .. k : nodes'[m].base = ss[m].base /\ nodes'[m].cap = ss[m].cap
      <3>1. k \in 1 .. Len(ss)
        BY <2>1
      <3> QED
        BY <2>1, <2>2, <3>1, SetPosition
    <2>4. DOMAIN nodes' = 1 .. k /\ 1 .. k \subseteq DOMAIN nodes
      BY <1>1, <2>3
    <2> QED
      BY <2>1, <2>3, <2>4
  <1>3. /\ DOMAIN nodes' \subseteq DOMAIN nodes
        /\ \A m \in DOMAIN nodes' : /\ nodes'[m].base = nodes[m].base
                                    /\ nodes'[m].cap = nodes[m].cap
    <2>1. ASSUME NEW i \in DOMAIN live, ArenaRewind(i)
          PROVE  \E k \in 1 .. Len(nodes), p \in Nat : nodes' = Rewound(nodes, k, p)
      <3> DEFINE b     == live[i]
                 stops == RewindStops(b)
                 k     == CHOOSE m \in stops : \A n \in stops : n <= m
      <3>1. stops # {} /\ nodes' = Rewound(nodes, k, b.off)
        BY <2>1 DEF ArenaRewind
      <3>2. b \in Block /\ b.node \in 1 .. Len(nodes)
        BY <1>1 DEF Placed, InMemory
      <3>3. stops = {b.node} /\ b.node \in Int
        BY <3>1, <3>2 DEF RewindStops, InThisNode
      <3> HIDE DEF stops
      <3>4. k = b.node
        BY <3>3
      <3>5. b.off \in Nat
        BY <3>2, BlockEnds
      <3> QED
        BY <3>1, <3>2, <3>4, <3>5
    <2>2. ASSUME ArenaReset
          PROVE  \E k \in 1 .. Len(nodes), p \in Nat : nodes' = Rewound(nodes, k, p)
      <3>1. 1 \in 1 .. Len(nodes) /\ NodeSize \in Nat
        BY <1>1, <2>2 DEF ArenaReset
      <3> QED
        BY <2>2, <3>1 DEF ArenaReset
    <2>3. ASSUME ArenaDelete PROVE DOMAIN nodes' = {}
      BY <2>3 DEF ArenaDelete
    <2>4. ASSUME (\E i \in DOMAIN live : MemDealloc(i)) \/ UNCHANGED vars
          PROVE  nodes' = nodes
      BY <2>4 DEF MemDealloc, vars
    <2> QED
      BY <1>2, <2>1, <2>2, <2>3, <2>4
  <1>4. \A i \in DOMAIN live' : \E j \in DOMAIN live : live'[i] = live[j]
    <2>1. ASSUME NEW i \in DOMAIN live, MemDealloc(i)
          PROVE  \A m \in DOMAIN live' : \E j \in DOMAIN live : live'[m] = live[j]
      <3>1. i \in 1 .. Len(live) /\ live' = RemoveAt(live, i)
        BY <1>1, <2>1 DEF MemDealloc
      <3>2. /\ live' \in Seq(Block) /\ Len(live') = Len(live) - 1
            /\ \A m \in 1 .. Len(live) - 1 :
                 live'[m] = IF m < i THEN live[m] ELSE live[m + 1]
        BY <1>1, <3>1, RemoveAtElements
      <3>3. ASSUME NEW m \in 1 .. Len(live) - 1
            PROVE  \E j \in DOMAIN live : live'[m] = live[j]
        <4>1. m \in DOMAIN live /\ m + 1 \in DOMAIN live
          BY <1>1
        <4> QED
          BY <3>2, <4>1
      <3>4. DOMAIN live' = 1 .. Len(live) - 1
        BY <3>2
      <3> QED
        BY <3>3, <3>4
    <2>2. ASSUME NEW i \in DOMAIN live, ArenaRewind(i)
          PROVE  \A m \in DOMAIN live' : \E j \in DOMAIN live : live'[m] = live[j]
      <3>1. i \in 1 .. Len(live) /\ live' = SubSeq(live, 1, i - 1)
        BY <1>1, <2>2 DEF ArenaRewind
      <3>2. /\ live' \in Seq(Block) /\ Len(live') = i - 1
            /\ \A m \in 1 .. i - 1 : live'[m] = live[m]
        BY <1>1, <3>1, PrefixPlaced
      <3>3. \A m \in 1 .. i - 1 : m \in DOMAIN live
        BY <1>1, <3>1
      <3> QED
        BY <3>2, <3>3
    <2>3. ASSUME ArenaReset \/ ArenaDelete PROVE DOMAIN live' = {}
      BY <2>3 DEF ArenaReset, ArenaDelete
    <2>4. ASSUME UNCHANGED vars PROVE live' = live
      BY <2>4 DEF vars
    <2> QED
      BY <2>1, <2>2, <2>3, <2>4
  <1>5. SameNodes(nodes, nodes')
    BY <1>3 DEF SameNodes
  <1>6. (\A k \in DOMAIN nodes : HasRoom(nodes[k])) =>
          \A k \in DOMAIN nodes' : HasRoom(nodes'[k])
    BY <1>3 DEF HasRoom
  <1> QED
    BY <1>4, <1>5, <1>6 DEF StepKeeps

(* A block appended by gp_arena_alloc, on nodes ns that are those of the    *)
(* arena but for a position, to some of the blocks there were.             *)
LEMMA AppendKeeps ==
  ASSUME AlignedLayout, ArenaInv, nodes # << >>,
         NEW ns \in Seq(Node), Len(ns) = Len(nodes),
         \A k \in 1 .. Len(nodes) : ns[k].base = nodes[k].base /\ ns[k].cap = nodes[k].cap,
         NEW bs \in Seq(Block), \A i \in DOMAIN bs : \E j \in DOMAIN live : bs[i] = live[j],
         NEW base \in Bases, NEW size \in Sizes, NEW align \in Alignments,
         nodes' = ArenaAlloc(ns, base, size, align).nodes,
         ArenaAlloc(ns, base, size, align).block \in Block,
         live' = Append(bs, ArenaAlloc(ns, base, size, align).block)
  PROVE  StepKeeps
  <1> DEFINE b == ArenaAlloc(ns, base, size, align).block
  <1>1. /\ DOMAIN ns = DOMAIN nodes /\ DOMAIN nodes = 1 .. Len(nodes)
        /\ ns # << >> /\ nodes \in Seq(Node)
    BY DEF ArenaInv, TypeOK
  <1>2. SameNodes(ns, nodes') /\ AlignedIn(b, nodes')
    BY <1>1, NewBlockAligned
  <1>3. SameNodes(nodes, nodes')
    BY <1>1, <1>2 DEF SameNodes
  <1>4. ASSUME RoomForAlignments, \A k \in DOMAIN nodes : HasRoom(nodes[k])
        PROVE  (\A k \in DOMAIN nodes' : HasRoom(nodes'[k])) /\ FoundIn(b, nodes')
    <2>1. \A k \in DOMAIN ns : HasRoom(ns[k])
      BY <1>1, <1>4 DEF HasRoom
    <2> QED
      BY <1>1, <1>4, <2>1, NewBlockFound
  <1> HIDE DEF b
  <1>5. ASSUME NEW i \in DOMAIN live'
        PROVE  (\E j \in DOMAIN live : live'[i] = live[j]) \/ live'[i] = b
    <2>1. b \in Block /\ live' = Append(bs, b)
      BY DEF b
    <2>2. /\ Len(live') = Len(bs) + 1 /\ live'[Len(bs) + 1] = b /\ live' \in Seq(Block)
          /\ \A m \in 1 .. Len(bs) : live'[m] = bs[m]
      BY <2>1, AppendProperties
    <2>3. i \in 1 .. Len(bs) + 1 /\ Len(bs) \in Nat /\ DOMAIN bs = 1 .. Len(bs)
      BY <2>2
    <2> QED
      BY <2>2, <2>3
  <1> QED
    BY <1>2, <1>3, <1>4, <1>5 DEF StepKeeps

(* So does every step.                                                     *)
LEMMA EveryStepKeeps ==
  ASSUME AlignedLayout, ArenaInv, [Next]_vars
  PROVE  StepKeeps
  <1>1. nodes \in Seq(Node) /\ live \in Seq(Block) /\ Placed(live, nodes)
    BY DEF ArenaInv, TypeOK
  <1>2. ASSUME NEW size \in Sizes, NEW align \in Alignments, NEW base \in Bases,
               MemAlloc(size, align, base)
        PROVE  StepKeeps
    <2>1. /\ nodes # << >> /\ nodes' = ArenaAlloc(nodes, base, size, align).nodes
          /\ live' = Append(live, ArenaAlloc(nodes, base, size, align).block)
      BY <1>2 DEF MemAlloc
    <2>2. ArenaAlloc(nodes, base, size, align).block \in Block
      BY <1>1, <2>1, AllocSound
    <2> QED
      BY <1>1, <2>1, <2>2, AppendKeeps
  <1>3. ASSUME NEW i \in DOMAIN live, NEW size \in Sizes, NEW align \in Alignments,
               NEW base \in Bases, MemRealloc(i, size, align, base)
        PROVE  StepKeeps
    <2> DEFINE old  == live[i]
               rest == RemoveAt(live, i)
               ns   == GivenBack(nodes, old)
    <2>1. /\ nodes' = ArenaAlloc(ns, base, size, align).nodes
          /\ live' = Append(rest, ArenaAlloc(ns, base, size, align).block)
      BY <1>3 DEF MemRealloc
    <2>2. i \in 1 .. Len(live) /\ Len(live) \in Nat /\ DOMAIN live = 1 .. Len(live)
      BY <1>1
    <2>3. /\ ns \in Seq(Node) /\ Len(ns) = Len(nodes) /\ nodes # << >> /\ ns # << >>
          /\ Placed(rest, ns)
      <3>1. /\ ns \in Seq(Node) /\ Len(ns) = Len(nodes) /\ nodes # << >>
            /\ Placed(rest, ns)
        BY <1>1, <2>2, GivenBackPlaced
      <3> HIDE DEF ns
      <3> QED
        BY <1>1, <3>1
    <2>4. \A k \in 1 .. Len(nodes) : ns[k].base = nodes[k].base /\ ns[k].cap = nodes[k].cap
      <3>1. CASE EndsAtPosition(old)
        <4>1. old \in Block /\ old.node \in 1 .. Len(nodes)
          BY <1>1, <2>2, <3>1 DEF Placed, InMemory
        <4>2. old.off \in Nat
          BY <4>1, BlockEnds
        <4> QED
          BY <1>1, <3>1, <4>1, <4>2, SetPosition DEF GivenBack
      <3>2. CASE ~ EndsAtPosition(old)
        BY <3>2 DEF GivenBack
      <3> QED
        BY <3>1, <3>2
    <2>5. /\ rest \in Seq(Block) /\ Len(rest) = Len(live) - 1
          /\ \A m \in 1 .. Len(live) - 1 :
               rest[m] = IF m < i THEN live[m] ELSE live[m + 1]
      BY <1>1, <2>2, RemoveAtElements
    <2> HIDE DEF ns, rest, old
    <2>6. ASSUME NEW m \in DOMAIN rest
          PROVE  \E j \in DOMAIN live : rest[m] = live[j]
      <3>1. m \in 1 .. Len(live) - 1 /\ m \in DOMAIN live /\ m + 1 \in DOMAIN live
        BY <2>2, <2>5
      <3> QED
        BY <2>5, <3>1
    <2>7. ArenaAlloc(ns, base, size, align).block \in Block
      BY <2>3, <2>5, AllocSound
    <2> QED
      BY <2>1, <2>3, <2>4, <2>5, <2>6, <2>7, AppendKeeps
  <1> QED
    BY <1>2, <1>3, NewKeeps, FewerKeeps DEF Next

------------------------------------------------------------------------------

(* A block that stays, stays aligned, and findable if it was.              *)
LEMMA StaysSo ==
  ASSUME ArenaInv, ArenaInv', SameNodes(nodes, nodes'),
         NEW i \in DOMAIN live', NEW j \in DOMAIN live, live'[i] = live[j]
  PROVE  /\ AlignedIn(live[j], nodes) => AlignedIn(live'[i], nodes')
         /\ FoundIn(live[j], nodes) => FoundIn(live'[i], nodes')
  <1>1. live[j].node \in DOMAIN nodes
    BY DEF ArenaInv, Placed, InMemory
  <1>2. live'[i].node \in DOMAIN nodes'
    BY DEF ArenaInv, Placed, InMemory
  <1> QED
    BY <1>1, <1>2 DEF SameNodes, AlignedIn, FoundIn

(* Every block has the alignment it was asked for, wherever its node lies,  *)
(* as long as the client holds it.                                         *)
THEOREM BlocksStayAligned == ASSUME AlignedLayout PROVE Spec => []BlocksAligned
  <1>1. Init => BlocksAligned
    BY DEF Init, BlocksAligned
  <1>2. ASSUME ArenaInv, ArenaInv', [Next]_vars, BlocksAligned
        PROVE  BlocksAligned'
    <2>1. StepKeeps
      BY <1>2, EveryStepKeeps
    <2>2. \A j \in DOMAIN live : AlignedIn(live[j], nodes)
      BY <1>2 DEF BlocksAligned, AlignedIn
    <2>3. ASSUME NEW i \in DOMAIN live' PROVE AlignedIn(live'[i], nodes')
      BY <1>2, <2>1, <2>2, StaysSo DEF StepKeeps
    <2> QED
      BY <2>3 DEF BlocksAligned, AlignedIn
  <1>3. Spec => []ArenaInv
    BY ArenaInvariant
  <1> QED
    BY <1>1, <1>2, <1>3, PTL DEF Spec

(* A rewind to any block finds the node of that block first, so the guard  *)
(* of ArenaRewind leaves out nothing.                                      *)
THEOREM RewindAlwaysStopsAtOwner ==
  ASSUME AlignedLayout, RoomForAlignments PROVE Spec => []RewindStopsAtOwner
  <1> DEFINE Found == /\ \A k \in DOMAIN nodes : HasRoom(nodes[k])
                      /\ \A i \in DOMAIN live : FoundIn(live[i], nodes)
  <1>1. Init => Found
    BY DEF Init
  <1>2. ASSUME ArenaInv, ArenaInv', [Next]_vars, Found
        PROVE  Found'
    <2>1. StepKeeps
      BY <1>2, EveryStepKeeps
    <2>2. ASSUME NEW i \in DOMAIN live' PROVE FoundIn(live'[i], nodes')
      BY <1>2, <2>1, StaysSo DEF StepKeeps
    <2> QED
      BY <1>2, <2>1, <2>2 DEF StepKeeps, HasRoom, FoundIn
  <1>3. ASSUME ArenaInv, Found PROVE RewindStopsAtOwner
    BY <1>3 DEF ArenaInv, Placed, InMemory, FoundIn, RewindStopsAtOwner, RewindStops, InThisNode
  <1>4. Spec => []ArenaInv
    BY ArenaInvariant
  <1> HIDE DEF Found
  <1> QED
    BY <1>1, <1>2, <1>3, <1>4, PTL DEF Spec

(* What a reallocation copies fits the new block and is not written over.   *)
LEMMA ReallocCopies ==
  ASSUME AlignedLayout, ArenaInv, BlocksAligned, NEW i \in DOMAIN live,
         NEW size \in Sizes, NEW align \in Alignments, NEW base \in Bases,
         MemRealloc(i, size, align, base)
  PROVE  CopiesAreSound'
  <1> USE ArenaAssumption
  <1> DEFINE old == live[i]
             ns  == GivenBack(nodes, old)
             r   == ArenaAlloc(ns, base, size, align)
             b   == r.block
             k   == Len(nodes)
  <1>1. /\ nodes \in Seq(Node) /\ live \in Seq(Block) /\ Placed(live, nodes)
        /\ i \in 1 .. Len(live) /\ old \in Block /\ Len(live) \in Nat
    BY DEF ArenaInv, TypeOK
  <1>2. /\ old.off \in Nat /\ old.size \in Nat /\ size \in Nat /\ align \in Nat \ {0}
        /\ PoisonBoundary \in Nat
    BY <1>1, BlockEnds
  <1>3. /\ old.size < size /\ align = old.align
        /\ copied' = IF b.node = old.node /\ b.off = old.off
                     THEN NoCopy ELSE [from |-> old, to |-> b, len |-> old.size]
    BY <1>2 DEF MemRealloc, Reallocates
  <1>4. /\ ns \in Seq(Node) /\ Len(ns) = k /\ nodes # << >>
        /\ RemoveAt(live, i) \in Seq(Block) /\ Placed(RemoveAt(live, i), ns)
    BY <1>1, RemovedPlaced, GivenBackPlaced
  <1>5. k \in Nat \ {0} /\ k = Len(nodes)
    BY <1>1, <1>4
  <1>6. b \in Block /\ b.size = size
    <2>1. ns # << >>
      BY <1>4, <1>5
    <2> HIDE DEF ns
    <2> QED
      BY <1>4, <2>1, AllocSound
  <1>7. b.off \in Nat /\ b.size \in Nat
    BY <1>6, BlockEnds
  <1>8. ASSUME ~ (b.node = old.node /\ b.off = old.off)
        PROVE  b.node # old.node \/ old.off + old.size <= b.off
    <2>1. CASE EndsAtPosition(old)
      <3>1. old.node = k /\ ns = WithPosition(nodes, k, old.off)
        BY <2>1 DEF EndsAtPosition, GivenBack
      <3>2. ns[k].base = nodes[k].base /\ ns[k].pos = old.off /\ nodes[k].base \in Nat
        <4>1. k \in 1 .. Len(nodes) /\ nodes[k] \in Node
          BY <1>1, <1>5
        <4>2. nodes[k].base \in Nat
          BY <4>1 DEF Node
        <4> HIDE DEF k, old
        <4> QED
          BY <1>1, <1>2, <3>1, <4>1, <4>2, SetPosition
      <3>3. (nodes[k].base + old.off) % align = 0
        BY <1>3, <3>1 DEF BlocksAligned
      <3>4. AlignedOffset(ns[k].base, ns[k].pos, align) = old.off
        <4> HIDE DEF ns, k, old
        <4> QED
          BY <1>2, <3>2, <3>3, AlignedStays
      <3>5. ns # << >> /\ Len(ns) = k
        BY <1>4, <1>5
      <3> HIDE DEF ns, old, k
      <3>6. (b.node = k /\ b.off = old.off) \/ b.node = k + 1
        BY <1>4, <3>4, <3>5, NewBlockAligned
      <3> QED
        BY <1>5, <1>8, <3>1, <3>6
    <2>2. CASE ~ EndsAtPosition(old)
      <3>1. ns = nodes
        BY <2>2 DEF GivenBack
      <3>2. InOrder(Append(live, b))
        BY <1>1, <1>4, <3>1, AllocSound DEF Placed
      <3> HIDE DEF b
      <3>3. /\ Len(Append(live, b)) = Len(live) + 1
            /\ Append(live, b)[Len(live) + 1] = b /\ Append(live, b)[i] = live[i]
            /\ Append(live, b) \in Seq(Block)
        BY <1>1, <1>6, AppendProperties
      <3>4. /\ i \in DOMAIN Append(live, b) /\ Len(live) + 1 \in DOMAIN Append(live, b)
            /\ i < Len(live) + 1
        BY <1>1, <3>3
      <3>5. \/ old.node < b.node
            \/ old.node = b.node /\ old.off + old.size + PoisonBoundary <= b.off
        BY <3>2, <3>3, <3>4 DEF InOrder
      <3>6. old.node \in Nat /\ b.node \in Nat
        BY <1>1, <1>6, BlockEnds
      <3> HIDE DEF old
      <3> QED
        BY <1>2, <1>7, <3>5, <3>6
    <2> QED
      BY <2>1, <2>2
  <1> HIDE DEF b, old
  <1>9. CASE b.node = old.node /\ b.off = old.off
    BY <1>3, <1>9 DEF CopiesAreSound
  <1>10. CASE ~ (b.node = old.node /\ b.off = old.off)
    <2>1. /\ copied'.from = old /\ copied'.to = b /\ copied'.len = old.size
      BY <1>3, <1>10
    <2> QED
      BY <1>2, <1>3, <1>6, <1>7, <1>8, <1>10, <2>1 DEF CopiesAreSound
  <1> QED
    BY <1>9, <1>10

(* No reallocation copies memory onto itself or past a block's end, though  *)
(* it copies as much as the old block had whatever became of it.           *)
THEOREM CopiesStaySound == ASSUME AlignedLayout PROVE Spec => []CopiesAreSound
  <1>1. Init => CopiesAreSound
    BY DEF Init, CopiesAreSound
  <1>2. ASSUME ArenaInv, BlocksAligned, [Next]_vars, CopiesAreSound
        PROVE  CopiesAreSound'
    <2>1. ASSUME copied' = NoCopy PROVE CopiesAreSound'
      BY <2>1 DEF CopiesAreSound
    <2>2. ASSUME UNCHANGED vars PROVE CopiesAreSound'
      BY <1>2, <2>2 DEF vars, CopiesAreSound
    <2>3. ASSUME NEW size \in Sizes, NEW align \in Alignments, NEW base \in Bases,
                 MemAlloc(size, align, base)
          PROVE  copied' = NoCopy
      BY <2>3 DEF MemAlloc
    <2>4. ASSUME NEW i \in DOMAIN live, MemDealloc(i) \/ ArenaRewind(i)
          PROVE  copied' = NoCopy
      BY <2>4 DEF MemDealloc, ArenaRewind
    <2>5. ASSUME NEW capacity \in Capacities, NEW base \in FirstBases,
                 NEW buffered \in BOOLEAN, ArenaNew(capacity, base, buffered)
          PROVE  copied' = NoCopy
      BY <2>5 DEF ArenaNew
    <2>6. ASSUME ArenaReset \/ ArenaDelete PROVE copied' = NoCopy
      BY <2>6 DEF ArenaReset, ArenaDelete
    <2>7. ASSUME NEW i \in DOMAIN live, NEW size \in Sizes, NEW align \in Alignments,
                 NEW base \in Bases, MemRealloc(i, size, align, base)
          PROVE  CopiesAreSound'
      BY <1>2, <2>7, ReallocCopies
    <2> QED
      BY <1>2, <2>1, <2>2, <2>3, <2>4, <2>5, <2>6, <2>7 DEF Next
  <1>3. Spec => [](ArenaInv /\ BlocksAligned)
    BY ArenaInvariant, BlocksStayAligned, PTL
  <1> QED
    BY <1>1, <1>2, <1>3, PTL DEF Spec

-----------------------------------------------------------------------------
(***************************************************************************)
(* The mutex allocator, for any number of threads and calls.               *)
(*                                                                         *)
(* The argument. A thread that has the mutex is alone with the arena       *)
(* (Exclusive), so the list of nodes it writes from is the list there is   *)
(* (read[t] = nodes), and what it does is what the arena does for a single *)
(* client, whose lemmas apply. What a thread holds and what it has written *)
(* is its own affair: LocalSound says which of its blocks do not have      *)
(* their contents yet, at each place it can be.                            *)
(***************************************************************************)

(* Where a thread has the mutex.                                           *)
Critical == {"read", "write", "unlock after alloc", "dealloc", "unlock after dealloc"}

Labels == Critical \cup {"idle", "lock for alloc", "lock for dealloc", "copy"}

Call == [ old : Block \cup {NoBlock}, size : Nat, align : Nat,
          new : Block \cup {NoBlock} ]

(* A thread at label p, in call c, which holds the blocks o and has written *)
(* to the blocks f.                                                        *)
LocalSound(p, c, o, f) ==
  /\ p \in {"lock for alloc", "read", "write"} =>
       /\ c.size \in Sizes /\ c.align \in Alignments
       /\ c.old = NoBlock \/ c.old \in o
  /\ p \in {"unlock after alloc", "copy"} =>
       /\ c.new \in Block /\ o = f \cup {c.new}
       /\ (p = "unlock after alloc" /\ c.old = NoBlock) \/ c.old \in f
  /\ p \notin {"unlock after alloc", "copy"} => o = f

ThreadsTyped ==
  /\ pc \in [Threads -> Labels]
  /\ call \in [Threads -> Call]
  /\ read \in [Threads -> Seq(Node)]
  /\ own \in [Threads -> SUBSET Block]
  /\ filled \in [Threads -> SUBSET Block]
  /\ mutex \in Threads \cup {Free, NoMutex}

Exclusive == \A t \in Threads : pc[t] \in Critical => mutex = t

(* The inductive invariant.                                                *)
MutexInv ==
  /\ ArenaInv
  /\ ThreadsTyped
  /\ Exclusive
  /\ \A t \in Threads :
       /\ LocalSound(pc[t], call[t], own[t], filled[t])
       /\ pc[t] = "write" => read[t] = nodes
       /\ pc[t] # "idle" => mutex # NoMutex
  /\ mutex # NoMutex => nodes # << >>

(* Nobody has called and nobody has anything to begin with.                *)
LEMMA MutexInitSound == MutexInit => MutexInv
  <1> SUFFICES ASSUME MutexInit PROVE MutexInv
    OBVIOUS
  <1>1. ArenaInv
    BY InitSound DEF MutexInit
  <1>2. NoCall \in Call /\ << >> \in Seq(Node)
    BY DEF NoCall, Call
  <1>3. ThreadsTyped
    BY <1>2 DEF MutexInit, ThreadsTyped, Labels
  <1> QED
    BY <1>1, <1>3 DEF MutexInit, MutexInv, Exclusive, Critical, LocalSound

(* A step that leaves thread t at label p in call c, with r as the list it *)
(* read, holding o and having written to f, and that changes what is       *)
(* shared only while the thread has the mutex or as it takes it.           *)
ThreadMoves(t, p, c, r, o, f) ==
  /\ p \in Labels /\ c \in Call /\ r \in Seq(Node)
  /\ o \in SUBSET Block /\ f \in SUBSET Block
  /\ pc' = [pc EXCEPT ![t] = p]
  /\ call' = [call EXCEPT ![t] = c]
  /\ read' = [read EXCEPT ![t] = r]
  /\ own' = [own EXCEPT ![t] = o]
  /\ filled' = [filled EXCEPT ![t] = f]
  /\ LocalSound(p, c, o, f)
  /\ ArenaInv' /\ nodes' # << >>
  /\ mutex # NoMutex /\ mutex' \in Threads \cup {Free}
  /\ mutex' # mutex => mutex \in {t, Free}
  /\ nodes' # nodes => mutex = t
  /\ p \in Critical => mutex' = t
  /\ p = "write" => r = nodes'

LEMMA ThreadStep ==
  ASSUME MutexInv, NEW t \in Threads, NEW p, NEW c, NEW r, NEW o, NEW f,
         ThreadMoves(t, p, c, r, o, f)
  PROVE  MutexInv'
  <1> USE DEF ThreadMoves
  <1>1. ThreadsTyped'
    BY DEF MutexInv, ThreadsTyped
  <1>2. ASSUME NEW u \in Threads
        PROVE  /\ pc'[u] = IF u = t THEN p ELSE pc[u]
               /\ call'[u] = IF u = t THEN c ELSE call[u]
               /\ read'[u] = IF u = t THEN r ELSE read[u]
               /\ own'[u] = IF u = t THEN o ELSE own[u]
               /\ filled'[u] = IF u = t THEN f ELSE filled[u]
    BY DEF MutexInv, ThreadsTyped
  <1>3. mutex' # NoMutex /\ Free \notin Threads
    BY MutexAllocatorAssumption
  <1>4. ASSUME NEW u \in Threads, u # t, pc[u] \in Critical
        PROVE  mutex' = u /\ nodes' = nodes
    <2>1. mutex = u
      BY <1>4 DEF MutexInv, Exclusive
    <2> QED
      BY <1>3, <1>4, <2>1
  <1>5. Exclusive'
    BY <1>2, <1>4 DEF Exclusive
  <1>6. ASSUME NEW u \in Threads
        PROVE  /\ LocalSound(pc'[u], call'[u], own'[u], filled'[u])
               /\ pc'[u] = "write" => read'[u] = nodes'
    <2>1. CASE u = t
      BY <1>2, <2>1
    <2>2. CASE u # t
      <3>1. /\ LocalSound(pc[u], call[u], own[u], filled[u])
            /\ pc[u] = "write" => read[u] = nodes /\ pc[u] \in Critical
        BY DEF MutexInv, Critical
      <3> QED
        BY <1>2, <1>4, <2>2, <3>1
    <2> QED
      BY <2>1, <2>2
  <1>7. /\ \A u \in Threads : /\ LocalSound(pc[u], call[u], own[u], filled[u])'
                              /\ (pc[u] = "write" => read[u] = nodes)'
                              /\ (pc[u] # "idle" => mutex # NoMutex)'
        /\ (mutex # NoMutex => nodes # << >>)'
    BY <1>3, <1>6 DEF LocalSound
  <1> QED
    BY <1>1, <1>5, <1>7 DEF MutexInv

(* What is not changed is what it was, at every thread.                    *)
LEMMA Unchanged ==
  ASSUME ThreadsTyped, NEW t \in Threads
  PROVE  /\ UNCHANGED pc => pc' = [pc EXCEPT ![t] = pc[t]]
         /\ UNCHANGED call => call' = [call EXCEPT ![t] = call[t]]
         /\ UNCHANGED read => read' = [read EXCEPT ![t] = read[t]]
         /\ UNCHANGED own => own' = [own EXCEPT ![t] = own[t]]
         /\ UNCHANGED filled => filled' = [filled EXCEPT ![t] = filled[t]]
         /\ pc[t] \in Labels /\ call[t] \in Call /\ read[t] \in Seq(Node)
         /\ own[t] \in SUBSET Block /\ filled[t] \in SUBSET Block
  BY DEF ThreadsTyped

(* An arena that is left alone keeps its invariant.                        *)
LEMMA ArenaLeftAlone == ArenaInv /\ UNCHANGED vars => ArenaInv'
  BY DEF ArenaInv, TypeOK, Placed, NodesSound, InMemory, InOrder, BelowPosition, vars

------------------------------------------------------------------------------

(* Calls of the allocator.                                                 *)
LEMMA CallsSound ==
  ASSUME MutexInv, NEW t \in Threads,
         \/ \E old \in own[t] \cup {NoBlock}, size \in Sizes, align \in Alignments :
              CallAlloc(t, old, size, align)
         \/ \E old \in own[t] : CallDealloc(t, old)
  PROVE  MutexInv'
  <1>1. PICK c \in Call, p \in {"lock for alloc", "lock for dealloc"} :
          /\ Calls(t, c) /\ Goto(t, p)
          /\ p = "lock for alloc" =>
               /\ c.size \in Sizes /\ c.align \in Alignments
               /\ c.old = NoBlock \/ c.old \in own[t]
    <2>1. ASSUME NEW old \in own[t] \cup {NoBlock}, NEW size \in Sizes,
                 NEW align \in Alignments, CallAlloc(t, old, size, align)
          PROVE  \E c \in Call : /\ Calls(t, c) /\ Goto(t, "lock for alloc")
                                 /\ c.size \in Sizes /\ c.align \in Alignments
                                 /\ c.old = NoBlock \/ c.old \in own[t]
      <3> DEFINE c == [old |-> old, size |-> size, align |-> align, new |-> NoBlock]
      <3>1. c \in Call
        BY ArenaAssumption DEF Call, MutexInv, ThreadsTyped
      <3>2. Calls(t, c) /\ Goto(t, "lock for alloc")
        BY <2>1 DEF CallAlloc
      <3>3. c.size = size /\ c.align = align /\ c.old = old
        OBVIOUS
      <3> HIDE DEF c
      <3> QED
        BY <3>1, <3>2, <3>3
    <2>2. ASSUME NEW old \in own[t], CallDealloc(t, old)
          PROVE  \E c \in Call : Calls(t, c) /\ Goto(t, "lock for dealloc")
      <3> DEFINE c == [old |-> old, size |-> 0, align |-> 0, new |-> NoBlock]
      <3>1. c \in Call
        BY DEF Call, MutexInv, ThreadsTyped
      <3>2. Calls(t, c) /\ Goto(t, "lock for dealloc")
        BY <2>2 DEF CallDealloc
      <3> HIDE DEF c
      <3> QED
        BY <3>1, <3>2
    <2> QED
      BY <2>1, <2>2
  <1>2. /\ pc[t] = "idle" /\ mutex # NoMutex /\ mutex' = mutex /\ UNCHANGED vars
        /\ call' = [call EXCEPT ![t] = c] /\ pc' = [pc EXCEPT ![t] = p]
        /\ UNCHANGED << read, own, filled >>
    BY <1>1 DEF Calls, Goto
  <1>3. own[t] = filled[t]
    BY <1>2 DEF MutexInv, LocalSound
  <1>4. LocalSound(p, c, own[t], filled[t]) /\ p \in Labels /\ p \notin Critical /\ p # "write"
    BY <1>1, <1>3 DEF LocalSound, Labels, Critical
  <1>5. ArenaInv' /\ nodes' = nodes /\ nodes # << >> /\ mutex \in Threads \cup {Free}
    BY <1>2, ArenaLeftAlone DEF MutexInv, ThreadsTyped, vars
  <1>6. ThreadsTyped
    BY DEF MutexInv
  <1>7. /\ read' = [read EXCEPT ![t] = read[t]] /\ read[t] \in Seq(Node)
        /\ own' = [own EXCEPT ![t] = own[t]] /\ own[t] \in SUBSET Block
        /\ filled' = [filled EXCEPT ![t] = filled[t]] /\ filled[t] \in SUBSET Block
    BY <1>2, <1>6, Unchanged
  <1>8. /\ mutex \in Threads \cup {Free} /\ mutex' \in Threads \cup {Free}
        /\ mutex' = mutex /\ nodes' = nodes /\ nodes' # << >>
    BY <1>2, <1>5
  <1>9. mutex # NoMutex
    BY <1>2
  <1>10. ThreadMoves(t, p, c, read[t], own[t], filled[t])
    BY <1>2, <1>4, <1>5, <1>7, <1>8, <1>9 DEF ThreadMoves
  <1> QED
    BY <1>10, ThreadStep

(* Taking the mutex, for either call.                                      *)
LEMMA LockSound ==
  ASSUME MutexInv, NEW t \in Threads, LockForAlloc(t) \/ LockForDealloc(t)
  PROVE  MutexInv'
  <1>1. PICK p \in {"read", "dealloc"} :
          /\ pc' = [pc EXCEPT ![t] = p]
          /\ p = "read" => pc[t] = "lock for alloc"
          /\ p = "dealloc" => pc[t] = "lock for dealloc"
    BY DEF LockForAlloc, LockForDealloc, Goto
  <1>2. /\ mutex = Free /\ mutex' = t /\ UNCHANGED << vars, call, read, own, filled >>
    BY DEF LockForAlloc, LockForDealloc, Available
  <1>3. LocalSound(p, call[t], own[t], filled[t]) /\ p \in Labels /\ p # "write"
    BY <1>1 DEF MutexInv, LocalSound, Labels, Critical
  <1>4. ArenaInv' /\ nodes' = nodes
    BY <1>2, ArenaLeftAlone DEF MutexInv, vars
  <1>5. mutex # NoMutex /\ nodes # << >>
    BY <1>2, MutexAllocatorAssumption DEF MutexInv
  <1>6. ThreadsTyped
    BY DEF MutexInv
  <1>7. /\ call' = [call EXCEPT ![t] = call[t]] /\ call[t] \in Call
        /\ read' = [read EXCEPT ![t] = read[t]] /\ read[t] \in Seq(Node)
        /\ own' = [own EXCEPT ![t] = own[t]] /\ own[t] \in SUBSET Block
        /\ filled' = [filled EXCEPT ![t] = filled[t]] /\ filled[t] \in SUBSET Block
    BY <1>2, <1>6, Unchanged
  <1>8. ThreadMoves(t, p, call[t], read[t], own[t], filled[t])
    BY <1>1, <1>2, <1>3, <1>4, <1>5, <1>7 DEF ThreadMoves
  <1> QED
    BY <1>8, ThreadStep

(* Reading the list.                                                       *)
LEMMA ReadNodesSound ==
  ASSUME MutexInv, NEW t \in Threads, ReadNodes(t)
  PROVE  MutexInv'
  <1>1. /\ pc[t] = "read" /\ read' = [read EXCEPT ![t] = nodes]
        /\ pc' = [pc EXCEPT ![t] = "write"]
        /\ UNCHANGED << vars, mutex, call, own, filled >>
    BY DEF ReadNodes, Goto
  <1>2. ThreadsTyped /\ mutex = t /\ ArenaInv
    BY <1>1 DEF MutexInv, Exclusive, Critical
  <1>3. LocalSound("write", call[t], own[t], filled[t]) /\ "write" \in Labels
    BY <1>1 DEF MutexInv, LocalSound, Labels, Critical
  <1>4. ArenaInv' /\ nodes' = nodes /\ nodes \in Seq(Node)
    BY <1>1, <1>2, ArenaLeftAlone DEF ArenaInv, TypeOK, vars
  <1>5. mutex # NoMutex /\ nodes # << >> /\ mutex' = mutex
    BY <1>1, <1>2, MutexAllocatorAssumption DEF MutexInv
  <1>6. /\ call' = [call EXCEPT ![t] = call[t]] /\ call[t] \in Call
        /\ own' = [own EXCEPT ![t] = own[t]] /\ own[t] \in SUBSET Block
        /\ filled' = [filled EXCEPT ![t] = filled[t]] /\ filled[t] \in SUBSET Block
    BY <1>1, <1>2, Unchanged
  <1>7. ThreadMoves(t, "write", call[t], nodes, own[t], filled[t])
    BY <1>1, <1>2, <1>3, <1>4, <1>5, <1>6 DEF ThreadMoves
  <1> QED
    BY <1>7, ThreadStep

(* gp_arena_alloc on a list that is still the list there is.               *)
LEMMA WriteNodesSound ==
  ASSUME AlignedLayout, MutexInv, NEW t \in Threads, NEW base \in Bases,
         WriteNodes(t, base)
  PROVE  MutexInv'
  <1> DEFINE r == ArenaAlloc(read[t], base, call[t].size, call[t].align)
             c == [call[t] EXCEPT !.new = r.block]
             o == own[t] \cup {r.block}
  <1>1. /\ pc[t] = "write" /\ pc' = [pc EXCEPT ![t] = "unlock after alloc"]
        /\ nodes' = r.nodes /\ live' = Append(live, r.block) /\ copied' = NoCopy
        /\ own' = [own EXCEPT ![t] = o]
        /\ call' = [call EXCEPT ![t] = c]
        /\ UNCHANGED << mutex, read, filled >>
    BY DEF WriteNodes, Goto
  <1>2. ThreadsTyped /\ mutex = t /\ ArenaInv /\ nodes # << >> /\ read[t] = nodes
    BY <1>1, MutexAllocatorAssumption DEF MutexInv, Exclusive, Critical
  <1>3. /\ call[t].size \in Sizes /\ call[t].align \in Alignments
        /\ call[t].old = NoBlock \/ call[t].old \in own[t]
        /\ own[t] = filled[t]
    BY <1>1 DEF MutexInv, LocalSound
  <1>4. nodes \in Seq(Node) /\ live \in Seq(Block) /\ Placed(live, nodes)
    BY <1>2 DEF ArenaInv, TypeOK
  <1>5. /\ r.nodes \in Seq(Node) /\ r.nodes # << >> /\ r.block \in Block
        /\ Placed(Append(live, r.block), r.nodes)
    BY <1>2, <1>3, <1>4, AllocSound
  <1>6. call[t] \in Call
    BY <1>2 DEF ThreadsTyped
  <1>7. c \in Call /\ c.new = r.block /\ c.old = call[t].old
    BY <1>5, <1>6 DEF Call
  <1>8. /\ filled' = [filled EXCEPT ![t] = filled[t]] /\ filled[t] \in SUBSET Block
        /\ read' = [read EXCEPT ![t] = read[t]] /\ read[t] \in Seq(Node)
        /\ own[t] \in SUBSET Block
    BY <1>1, <1>2, Unchanged
  <1>9. o \in SUBSET Block
    BY <1>5, <1>8
  <1> HIDE DEF r, c
  <1>10. ArenaInv' /\ nodes' # << >>
    <2>1. live' \in Seq(Block)
      BY <1>1, <1>4, <1>5, AppendProperties
    <2> QED
      BY <1>1, <1>5, <2>1 DEF ArenaInv, TypeOK
  <1>11. LocalSound("unlock after alloc", c, o, filled[t])
    BY <1>3, <1>5, <1>7 DEF LocalSound
  <1> HIDE DEF o
  <1>12. /\ mutex # NoMutex /\ mutex' = t
         /\ "unlock after alloc" \in Labels /\ "unlock after alloc" # "write"
    BY <1>1, <1>2, MutexAllocatorAssumption DEF Labels, Critical
  <1>13. ThreadMoves(t, "unlock after alloc", c, read[t], o, filled[t])
    BY <1>1, <1>2, <1>7, <1>8, <1>9, <1>10, <1>11, <1>12 DEF ThreadMoves
  <1> QED
    BY <1>13, ThreadStep

(* Giving up the mutex, after either call.                                 *)
LEMMA UnlockSound ==
  ASSUME MutexInv, NEW t \in Threads, UnlockAfterAlloc(t) \/ UnlockAfterDealloc(t)
  PROVE  MutexInv'
  <1>1. pc[t] \in {"unlock after alloc", "unlock after dealloc"}
    BY DEF UnlockAfterAlloc, UnlockAfterDealloc
  <1>2. ThreadsTyped /\ mutex = t /\ nodes # << >>
    BY <1>1, MutexAllocatorAssumption DEF MutexInv, Exclusive, Critical
  <1>3. mutex' = Free /\ UNCHANGED << vars, call, read, own >>
    BY DEF UnlockAfterAlloc, UnlockAfterDealloc
  <1>4. /\ call' = [call EXCEPT ![t] = call[t]] /\ call[t] \in Call
        /\ read' = [read EXCEPT ![t] = read[t]] /\ read[t] \in Seq(Node)
        /\ own' = [own EXCEPT ![t] = own[t]] /\ own[t] \in SUBSET Block
        /\ filled[t] \in SUBSET Block
        /\ UNCHANGED filled => filled' = [filled EXCEPT ![t] = filled[t]]
    BY <1>2, <1>3, Unchanged
  <1>5. LocalSound(pc[t], call[t], own[t], filled[t])
    BY DEF MutexInv
  <1>6. PICK p \in {"idle", "copy"}, f \in SUBSET Block :
          /\ pc' = [pc EXCEPT ![t] = p]
          /\ filled' = [filled EXCEPT ![t] = f]
          /\ LocalSound(p, call[t], own[t], f)
    <2>1. CASE UnlockAfterDealloc(t)
      <3>1. pc[t] = "unlock after dealloc" /\ pc' = [pc EXCEPT ![t] = "idle"]
            /\ UNCHANGED filled
        BY <2>1 DEF UnlockAfterDealloc, Goto
      <3>2. LocalSound("idle", call[t], own[t], filled[t])
        BY <1>5, <3>1 DEF LocalSound
      <3> QED
        BY <1>4, <3>1, <3>2
    <2>2. CASE UnlockAfterAlloc(t) /\ call[t].old = NoBlock
      <3>1. pc[t] = "unlock after alloc" /\ pc' = [pc EXCEPT ![t] = "idle"]
            /\ filled' = [filled EXCEPT ![t] = filled[t] \cup {call[t].new}]
        BY <2>2 DEF UnlockAfterAlloc, Goto, AfterAlloc
      <3>2. LocalSound("idle", call[t], own[t], filled[t] \cup {call[t].new})
            /\ call[t].new \in Block
        BY <1>5, <3>1 DEF LocalSound
      <3> QED
        BY <1>4, <3>1, <3>2
    <2>3. CASE UnlockAfterAlloc(t) /\ call[t].old # NoBlock
      <3>1. pc[t] = "unlock after alloc" /\ pc' = [pc EXCEPT ![t] = "copy"]
            /\ UNCHANGED filled
        BY <2>3 DEF UnlockAfterAlloc, Goto, AfterAlloc
      <3>2. LocalSound("copy", call[t], own[t], filled[t])
        BY <1>5, <2>3, <3>1 DEF LocalSound
      <3> QED
        BY <1>4, <3>1, <3>2
    <2> QED
      BY <2>1, <2>2, <2>3
  <1>7. p \in Labels /\ p \notin Critical /\ p # "write"
    BY DEF Labels, Critical
  <1>8. ArenaInv' /\ nodes' = nodes /\ mutex # NoMutex
    BY <1>2, <1>3, ArenaLeftAlone, MutexAllocatorAssumption DEF MutexInv, vars
  <1>9. ThreadMoves(t, p, call[t], read[t], own[t], f)
    BY <1>2, <1>3, <1>4, <1>6, <1>7, <1>8 DEF ThreadMoves
  <1> QED
    BY <1>9, ThreadStep

(* The copy of a reallocation, without the mutex.                          *)
LEMMA CopySound ==
  ASSUME MutexInv, NEW t \in Threads, CopyBlock(t)
  PROVE  MutexInv'
  <1>1. /\ pc[t] = "copy" /\ pc' = [pc EXCEPT ![t] = "lock for dealloc"]
        /\ copied' = [from |-> call[t].old, to |-> call[t].new, len |-> call[t].old.size]
        /\ UNCHANGED << nodes, live, mutex, call, read, own >>
    BY DEF CopyBlock, Goto
  <1>2. ThreadsTyped /\ mutex # NoMutex /\ nodes # << >> /\ ArenaInv
    BY <1>1 DEF MutexInv
  <1>3. /\ call[t].new \in Block /\ own[t] = filled[t] \cup {call[t].new}
        /\ call[t].old \in filled[t]
    BY <1>1 DEF MutexInv, LocalSound
  <1>4. filled' = [filled EXCEPT ![t] = own[t]]
    BY <1>3 DEF CopyBlock
  <1>5. /\ call' = [call EXCEPT ![t] = call[t]] /\ call[t] \in Call
        /\ read' = [read EXCEPT ![t] = read[t]] /\ read[t] \in Seq(Node)
        /\ own' = [own EXCEPT ![t] = own[t]] /\ own[t] \in SUBSET Block
        /\ filled[t] \in SUBSET Block
    BY <1>1, <1>2, Unchanged
  <1>6. LocalSound("lock for dealloc", call[t], own[t], own[t])
        /\ "lock for dealloc" \in Labels /\ "lock for dealloc" \notin Critical
        /\ "lock for dealloc" # "write"
    BY DEF LocalSound, Labels, Critical
  <1>7. call[t].old \in Block /\ call[t].old.size \in Nat
    BY <1>3, <1>5 DEF Block
  <1>8. copied' \in Copy
    BY <1>1, <1>3, <1>7 DEF Copy
  <1>9. ArenaInv'
    BY <1>1, <1>2, <1>8
    DEF ArenaInv, TypeOK, Placed, NodesSound, InMemory, InOrder, BelowPosition
  <1>10. mutex' = mutex /\ mutex' \in Threads \cup {Free} /\ nodes' = nodes
    BY <1>1, <1>2 DEF ThreadsTyped
  <1>11. ThreadMoves(t, "lock for dealloc", call[t], read[t], own[t], own[t])
    BY <1>1, <1>2, <1>4, <1>5, <1>6, <1>9, <1>10 DEF ThreadMoves
  <1> QED
    BY <1>11, ThreadStep

(* gp_internal_arena_dealloc, with the mutex.                              *)
LEMMA DeallocSound ==
  ASSUME MutexInv, NEW t \in Threads, Dealloc(t)
  PROVE  MutexInv'
  <1> DEFINE o == own[t] \ {call[t].old}
             p == "unlock after dealloc"
  <1>1. /\ pc[t] = "dealloc" /\ pc' = [pc EXCEPT ![t] = p]
        /\ own' = [own EXCEPT ![t] = o]
        /\ filled' = [filled EXCEPT ![t] = filled[t] \ {call[t].old}]
        /\ copied' = NoCopy
        /\ UNCHANGED << nodes, mutex, call, read >>
    BY DEF Dealloc, Goto
  <1>2. ThreadsTyped /\ mutex = t /\ mutex # NoMutex /\ nodes # << >> /\ ArenaInv
    BY <1>1, MutexAllocatorAssumption DEF MutexInv, Exclusive, Critical
  <1>3. own[t] = filled[t]
    BY <1>1 DEF MutexInv, LocalSound
  <1>4. /\ call' = [call EXCEPT ![t] = call[t]] /\ call[t] \in Call
        /\ read' = [read EXCEPT ![t] = read[t]] /\ read[t] \in Seq(Node)
        /\ own[t] \in SUBSET Block
    BY <1>1, <1>2, Unchanged
  <1>5. LocalSound(p, call[t], o, o) /\ p \in Labels /\ p # "write"
    BY DEF LocalSound, Labels, Critical
  <1>6. nodes \in Seq(Node) /\ live \in Seq(Block) /\ Placed(live, nodes)
    BY <1>2 DEF ArenaInv, TypeOK
  <1>7. PICK i \in 1 .. Len(live) : live' = RemoveAt(live, i)
    <2>1. PICK i \in DOMAIN live : live' = RemoveAt(live, i)
      BY DEF Dealloc
    <2>2. i \in 1 .. Len(live)
      BY <1>6
    <2> QED
      BY <2>1, <2>2
  <1>8. live' \in Seq(Block) /\ Placed(live', nodes)
    BY <1>6, <1>7, RemovedPlaced
  <1>9. ArenaInv' /\ nodes' # << >> /\ nodes' = nodes
    BY <1>1, <1>2, <1>6, <1>8 DEF ArenaInv, TypeOK
  <1>10. o \in SUBSET Block /\ filled' = [filled EXCEPT ![t] = o]
         /\ mutex' = t /\ mutex' \in Threads \cup {Free}
    BY <1>1, <1>2, <1>3, <1>4
  <1> HIDE DEF o, p
  <1>11. ThreadMoves(t, p, call[t], read[t], o, o)
    BY <1>1, <1>2, <1>4, <1>5, <1>9, <1>10 DEF ThreadMoves
  <1> QED
    BY <1>11, ThreadStep

(* Setting up the arena and the mutex, while no thread is in a call.       *)
LEMMA SetUpSound ==
  ASSUME MutexInv,
         \/ /\ \E capacity \in Capacities, base \in FirstBases :
                 ArenaNew(capacity, base, FALSE)
            /\ UNCHANGED threadVars
         \/ MutexAllocatorInit
         \/ MutexAllocatorDestroy
  PROVE  MutexInv'
  <1>1. /\ UNCHANGED << pc, call, read, own, filled >>
        /\ \A t \in Threads : pc[t] = "idle"
    <2>1. CASE MutexAllocatorInit \/ MutexAllocatorDestroy
      BY <2>1 DEF MutexAllocatorInit, MutexAllocatorDestroy, MutexInv
    <2>2. CASE nodes = << >> /\ UNCHANGED threadVars
      BY <2>2 DEF MutexInv, threadVars
    <2> QED
      BY <2>1, <2>2 DEF ArenaNew
  <1>2. ArenaInv' /\ (mutex' # NoMutex => nodes' # << >>)
        /\ mutex' \in Threads \cup {Free, NoMutex}
    <2>1. CASE MutexAllocatorInit \/ MutexAllocatorDestroy
      <3>1. UNCHANGED vars /\ mutex' \in {Free, NoMutex}
            /\ (mutex' # NoMutex => nodes # << >>)
        BY <2>1 DEF MutexAllocatorInit, MutexAllocatorDestroy
      <3> QED
        BY <3>1, ArenaLeftAlone DEF MutexInv, vars
    <2>2. ASSUME NEW capacity \in Capacities, NEW base \in FirstBases,
                 ArenaNew(capacity, base, FALSE), UNCHANGED threadVars
          PROVE  /\ ArenaInv' /\ nodes' # << >>
                 /\ mutex' \in Threads \cup {Free, NoMutex}
      <3>1. ArenaInv'
        BY <2>2, NewSound DEF MutexInv
      <3>2. nodes' # << >>
        BY <2>2 DEF ArenaNew
      <3> QED
        BY <2>2, <3>1, <3>2 DEF MutexInv, ThreadsTyped, threadVars
    <2> QED
      BY <2>1, <2>2
  <1>3. \A t \in Threads : pc'[t] = "idle"
    BY <1>1
  <1>4. ThreadsTyped' /\ Exclusive'
    BY <1>1, <1>2, <1>3 DEF MutexInv, ThreadsTyped, Exclusive, Critical
  <1>5. \A t \in Threads : LocalSound(pc[t], call[t], own[t], filled[t])
    BY DEF MutexInv
  <1>6. \A t \in Threads : /\ LocalSound(pc[t], call[t], own[t], filled[t])'
                           /\ (pc[t] = "write" => read[t] = nodes)'
                           /\ (pc[t] # "idle" => mutex # NoMutex)'
    BY <1>1, <1>3, <1>5 DEF LocalSound
  <1> QED
    BY <1>2, <1>4, <1>6 DEF MutexInv

(* Every step keeps the invariant.                                         *)
LEMMA MutexStepSound ==
  ASSUME AlignedLayout, MutexInv, [MutexNext]_mutexVars
  PROVE  MutexInv'
  <1>1. ASSUME NEW t \in Threads, Library(t)
        PROVE  MutexInv'
    BY <1>1, LockSound, ReadNodesSound, WriteNodesSound, UnlockSound, CopySound,
       DeallocSound DEF Library
  <1>2. CASE UNCHANGED mutexVars
    <2>1. ArenaInv'
      BY <1>2, ArenaLeftAlone DEF MutexInv, mutexVars
    <2> QED
      BY <1>2, <2>1
      DEF MutexInv, ThreadsTyped, Exclusive, LocalSound, mutexVars, threadVars, vars
  <1> QED
    BY <1>1, <1>2, SetUpSound, CallsSound DEF MutexNext

------------------------------------------------------------------------------

(* The invariant holds, whatever the threads do.                           *)
THEOREM MutexInvariant == ASSUME AlignedLayout PROVE MutexSpec => []MutexInv
  <1>1. MutexInit => MutexInv
    BY MutexInitSound
  <1>2. MutexInv /\ [MutexNext]_mutexVars => MutexInv'
    BY MutexStepSound
  <1> QED
    BY <1>1, <1>2, PTL DEF MutexSpec

(* However many threads share the arena and whatever calls they make at    *)
(* the same time, their blocks lie in its memory, never overlap, and have  *)
(* their contents when the call that moved them returns.                   *)
THEOREM BlocksStayOwn == ASSUME AlignedLayout PROVE MutexSpec => []BlocksAreOwn
  <1>1. MutexInv => BlocksInMemory /\ BlocksInOrder
    BY DEF MutexInv, ArenaInv, Placed, InMemory, InOrder, BlocksInMemory, BlocksInOrder
  <1>2. MutexInv => ContentsKept
    BY DEF MutexInv, LocalSound, ContentsKept
  <1> QED
    BY <1>1, <1>2, MutexInvariant, PTL DEF BlocksAreOwn

=============================================================================
