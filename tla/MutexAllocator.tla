---------------------------- MODULE MutexAllocator ----------------------------
(***************************************************************************)
(* The mutex allocator of src/memory.c, which lets threads share another   *)
(* allocator: here an arena, whose allocation reads the list of nodes and  *)
(* then changes it, so that two threads at it at once would get the same   *)
(* memory. A reallocation through the mutex allocator is not an operation  *)
(* of its own: gp_mem_realloc_aligned does not recognise the arena behind  *)
(* it and locks twice, for a new block and to give up the old one, with    *)
(* the contents copied in between while other threads may allocate.        *)
(*                                                                         *)
(* A definition named X_Y just before X is X with a slip Y in it, kept to  *)
(* show that the properties notice it; nothing else refers to it.          *)
(***************************************************************************)
EXTENDS Arena

CONSTANTS
  Threads,
  Free,      \* the mutex's owner while nobody holds it
  NoMutex,   \* ... and before it is initialized and after it is destroyed
  MaxCalls   \* bound: calls of the allocator

ASSUME MutexAllocatorAssumption ==
  /\ Free \notin Threads /\ NoMutex \notin Threads /\ Free # NoMutex
  /\ MaxCalls \in Nat

VARIABLES
  mutex,   \* who holds it
  pc,      \* what each thread does next
  call,    \* its call: the block to give up, if any, and the block wanted
  read,    \* the list of nodes as it read it
  own,     \* the blocks it holds
  filled,  \* those of them that have what it wrote to them
  calls    \* how many calls there have been

threadVars == << mutex, pc, call, read, own, filled, calls >>

mutexVars == << vars, threadVars >>

NoBlock == << >>

NoCall == [old |-> NoBlock, size |-> 0, align |-> 0, new |-> NoBlock]

Goto(t, label) == pc' = [pc EXCEPT ![t] = label]

MutexInit ==
  /\ Init
  /\ mutex = NoMutex
  /\ pc = [t \in Threads |-> "idle"]
  /\ call = [t \in Threads |-> NoCall]
  /\ read = [t \in Threads |-> << >>]
  /\ own = [t \in Threads |-> {}]
  /\ filled = [t \in Threads |-> {}]
  /\ calls = 0

------------------------------------------------------------------------------

\* gp_mutex_allocator_init on an arena.
MutexAllocatorInit ==
  /\ mutex = NoMutex
  /\ nodes # << >>
  /\ mutex' = Free
  /\ UNCHANGED << vars, pc, call, read, own, filled, calls >>

\* gp_mutex_allocator_destroy, when no thread uses the allocator.
MutexAllocatorDestroy ==
  /\ mutex = Free
  /\ \A t \in Threads : pc[t] = "idle"
  /\ mutex' = NoMutex
  /\ UNCHANGED << vars, pc, call, read, own, filled, calls >>

Calls(t, c) ==
  /\ pc[t] = "idle"
  /\ mutex # NoMutex
  /\ calls < MaxCalls
  /\ calls' = calls + 1
  /\ call' = [call EXCEPT ![t] = c]
  /\ UNCHANGED << vars, mutex, read, own, filled >>

\* gp_mem_alloc_aligned, or gp_mem_realloc_aligned to enlarge a block.
CallAlloc(t, old, size, align) ==
  /\ old # NoBlock => size > old.size /\ align = old.align
  /\ Calls(t, [old |-> old, size |-> size, align |-> align, new |-> NoBlock])
  /\ Goto(t, "lock for alloc")

\* gp_mem_dealloc
CallDealloc(t, old) ==
  /\ Calls(t, [old |-> old, size |-> 0, align |-> 0, new |-> NoBlock])
  /\ Goto(t, "lock for dealloc")

\* gp_mutex_lock in gp_s_mutex_alloc and gp_s_mutex_dealloc
Available(owner) == owner = Free

LockForAlloc(t) ==
  /\ pc[t] = "lock for alloc"
  /\ Available(mutex)
  /\ mutex' = t
  /\ Goto(t, "read")
  /\ UNCHANGED << vars, call, read, own, filled, calls >>

LockForDealloc(t) ==
  /\ pc[t] = "lock for dealloc"
  /\ Available(mutex)
  /\ mutex' = t
  /\ Goto(t, "dealloc")
  /\ UNCHANGED << vars, call, read, own, filled, calls >>

\* gp_arena_alloc, called by gp_s_mutex_alloc: it reads the list ...
ReadNodes(t) ==
  /\ pc[t] = "read"
  /\ read' = [read EXCEPT ![t] = nodes]
  /\ Goto(t, "write")
  /\ UNCHANGED << vars, mutex, call, own, filled, calls >>

\* ... and changes it.
WriteNodes(t, base) ==
  /\ pc[t] = "write"
  /\ LET r == ArenaAlloc(read[t], base, call[t].size, call[t].align)
     IN  /\ nodes' = r.nodes
         /\ live' = Append(live, r.block)
         /\ own' = [own EXCEPT ![t] = @ \cup {r.block}]
         /\ call' = [call EXCEPT ![t].new = r.block]
  /\ copied' = NoCopy
  /\ Goto(t, "unlock after alloc")
  /\ UNCHANGED << mutex, read, filled, calls >>

\* Where gp_mem_realloc_aligned goes on when it has its new block.
AfterAlloc_DeallocFirst(c) == IF c.old = NoBlock THEN "idle" ELSE "lock for dealloc"

AfterAlloc(c) == IF c.old = NoBlock THEN "idle" ELSE "copy"

\* A thread writes to a block it has allocated as soon as it has it.
UnlockAfterAlloc(t) ==
  /\ pc[t] = "unlock after alloc"
  /\ mutex' = Free
  /\ Goto(t, AfterAlloc(call[t]))
  /\ filled' = IF call[t].old = NoBlock
               THEN [filled EXCEPT ![t] = @ \cup {call[t].new}]
               ELSE filled
  /\ UNCHANGED << vars, call, read, own, calls >>

\* memcpy() in gp_mem_realloc_aligned, without the mutex
CopyBlock(t) ==
  /\ pc[t] = "copy"
  /\ copied' = [from |-> call[t].old, to |-> call[t].new, len |-> call[t].old.size]
  /\ filled' = IF call[t].old \in filled[t]
               THEN [filled EXCEPT ![t] = @ \cup {call[t].new}]
               ELSE filled
  /\ Goto(t, "lock for dealloc")
  /\ UNCHANGED << nodes, live, mutex, call, read, own, calls >>

\* gp_internal_arena_dealloc, called by gp_s_mutex_dealloc, frees nothing.
Dealloc(t) ==
  /\ pc[t] = "dealloc"
  /\ \E i \in DOMAIN live : live[i] = call[t].old /\ live' = RemoveAt(live, i)
  /\ own' = [own EXCEPT ![t] = @ \ {call[t].old}]
  /\ filled' = [filled EXCEPT ![t] = @ \ {call[t].old}]
  /\ copied' = NoCopy
  /\ Goto(t, "unlock after dealloc")
  /\ UNCHANGED << nodes, mutex, call, read, calls >>

UnlockAfterDealloc(t) ==
  /\ pc[t] = "unlock after dealloc"
  /\ mutex' = Free
  /\ Goto(t, "idle")
  /\ UNCHANGED << vars, call, read, own, filled, calls >>

------------------------------------------------------------------------------

\* The steps of a thread that has called the allocator.
Library(t) ==
  \/ LockForAlloc(t)
  \/ LockForDealloc(t)
  \/ ReadNodes(t)
  \/ \E base \in Bases : WriteNodes(t, base)
  \/ UnlockAfterAlloc(t)
  \/ CopyBlock(t)
  \/ Dealloc(t)
  \/ UnlockAfterDealloc(t)

MutexNext ==
  \/ /\ \E capacity \in Capacities, base \in FirstBases : ArenaNew(capacity, base, FALSE)
     /\ UNCHANGED threadVars
  \/ MutexAllocatorInit
  \/ MutexAllocatorDestroy
  \/ \E t \in Threads : \E old \in own[t] \cup {NoBlock},
                           size \in Sizes, align \in Alignments :
       CallAlloc(t, old, size, align)
  \/ \E t \in Threads : \E old \in own[t] : CallDealloc(t, old)
  \/ \E t \in Threads : Library(t)

MutexSpec == MutexInit /\ [][MutexNext]_mutexVars

------------------------------------------------------------------------------

(***************************************************************************)
(* Between calls every block a thread holds has what the thread wrote to   *)
(* it, after any reallocation: it was copied before it was given up.       *)
(***************************************************************************)
ContentsKept == \A t \in Threads : pc[t] = "idle" => filled[t] = own[t]

(***************************************************************************)
(* Threads do not notice each other: the blocks of all of them lie in the  *)
(* arena's memory and never overlap, whatever calls run at the same time   *)
(* (src/src/memory.c, gp_s_mutex_alloc), and keep their contents.          *)
(***************************************************************************)
BlocksAreOwn == BlocksInMemory /\ BlocksInOrder /\ ContentsKept

==============================================================================
