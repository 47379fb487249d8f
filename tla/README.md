# libGPC in TLA+

libGPC is a C library of general purpose containers: allocators, strings, arrays, a hash
map, Unicode conversion, formatting, a unit testing framework, and wrappers of threads and files.
It has no process of its own; what makes it hard are promises that hold over *sequences of calls*
(an allocator's blocks stay apart, whatever was rewound, reallocated and reset before), *client code
run inside the library* (deferred functions in the middle of `gp_end`, thread destructors, exit
handlers), *arithmetic near a boundary* (a buffer that is full in the middle of a codepoint or a
number, integers of two words, decoders of ill-formed text), and the few places where *threads share
state* (the mutex allocator, the cache of locales, the testing framework).

Paths below are those of the repository, `src/` and `include/` meaning the library's. `PROJECT.json`
has, for each definition, the lines it stands for.

## Inventory

| component | state | operations | interacts with | hard behaviour | what makes it correct |
|---|---|---|---|---|---|
| arena (`memory.c` 67-234) | list of nodes with position and capacity | new, alloc, rewind, reset, delete | a backing allocator; scopes and scratch arenas are arenas | alignment arithmetic, finding the node of a block, blocks larger than a node | blocks disjoint, aligned and inside their node; rewind frees exactly what came after |
| reallocation (`memory.c` 277-316, `memory.h` 77-200) | none of its own | `gp_mem_realloc*`, `gp_mem_reserve*` | looks into the arena it is given | the last object is extended in place | contents kept, no overlap |
| contiguous arena (`memory.c` 495-586) | position, capacity; pages of the process | new, alloc, rewind, reset, delete | `mmap`, `madvise`, `munmap` | sizes recomputed from the capacity | as an arena, as long as no neighbour is reset; its pages are its own |
| mutex allocator (`memory.c` 676-711) | mutex, backing allocator | init, alloc, dealloc, destroy | any allocator, client threads | reallocation locks twice | threads' blocks never mix |
| scope allocator (`memory.c` 318-493) | per thread list of scopes, stack of deferred functions per scope | `gp_begin`, `gp_end`, `gp_scope_defer`, `gp_last_scope`, thread destructor, exit handler | calls client code | reentrancy, ends out of order, exit | every deferred function run once, every scope freed once, none used after |
| C99 automatic scopes (`memory.c` 588-674) | per thread contiguous arena and stack of deferred functions | `GP_BEGIN`, `GP_DEFER`, `GP_END` | contiguous arena, thread destructors, exit handlers | thread exit and process exit in the middle of a scope | every deferred function run once |
| scratch arena (`memory.c` 236-273) | an arena per thread | get, destructor, exit handler | arena, thread local storage | order of exit handlers | lives as long as its thread may use it |
| hash map and iterator (`hashmap.c`) | tree of arrays of buckets; pointers into it | new, put, get, remove, delete; begin, next | an allocator | sizes of the arrays recomputed in five places, hashes that collide, changes while iterating | it is a map; delete frees all; each element once |
| locale cache (`unicode.c` 58-168) | a hash map, a mutex | `gp_locale` | hash map, `newlocale` | searches without the mutex while another thread puts | each locale created once; calls return their locale |
| arrays and strings (`array.[ch]`, `string.[ch]`) | length, capacity, allocation, allocator in a header | reserve, copy, append, insert, replace, slice, repeat, print, map, filter | allocators | full buffers, capacities that double | contents are what was asked for, or the longest prefix that fits |
| files (`io.c`) | a stream | read line, read until, read strip | strings | delimiters, strings that grow while they are read into | reads end at the first delimiter |
| bytes (`bytes.c`), text (`string.c`) | none | find, count, trim, validate, compare, split | - | words read at once, ill-formed sequences | results of a reference definition |
| UTF-8/16/32 and cases (`unicode.c`) | none | decode, encode, convert, upper, lower, title, fold, by language | strings | tables, rules that look at neighbours, one codepoint becoming three | well-formedness; tables agree |
| numbers (`utils.[ch]`, `int128.[ch]`) | a generator's counter | rounding, powers of two, ranges, integers of two words, conversions to and from floating point | - | boundaries of a width, carries between words | results of arithmetic |
| formatting (`printf.c`, `conversions.c`, `pfstring.h`, `format_scanning.c`) | what is left of buffer and arguments | `pf_printf` and relatives | strings, files | truncation at every place, carries through blocks of digits | the text ANSI C promises, cut to the buffer, and its length |
| unit testing (`assert.c`) | per thread current test and suite, global counts | `gp_test`, `gp_suite`, `gp_expect`, `gp_assert`, `gp_fail`, end of testing | exit handlers, threads | failures while other threads run, exit in the middle | a failure makes the program fail |
| threads (`thread.[ch]`) | none | thin wrappers | C11 or POSIX threads | - | - |
| time, breakpoints, overload macros, tools | - | - | - | - | not modelled, see below |

## Modules

`AbstractX` is what a component promises, `X` the component, `XProofs` theorems about it, `MCX`
an instance for TLC where one needs definitions; the other instances are in the `.cfg` alone. A
definition `X_Y` is `X` with a plausible slip `Y`; replacing `X` by it makes a property fail, and
nothing else refers to it.

    AbstractAllocator <--refines-- Arena --> Alignment
            ^                        ^
            |                        +-- MutexAllocator (threads share an arena)
            |                                 ^
            |                                 +-- ArenaProofs --> CommonLemmas
            +-----refines----------- ContiguousArena
                                        ^
                                        +-- MemoryProofs --> Scope, CommonLemmas

    TestProgramProofs --> TestProgram --> UnitTest, ThreadMemory
    AbstractMap <--refines-- HashMap <-- MapIterator <-- MCMapIterator, HashMapProofs --> CommonLemmas
    LocaleCache <-- MCLocaleCache, LocaleCacheProofs

    AbstractSequence <--refines-- DynamicString --> DynamicArray --> Alignment
                                     ^     +--> LeadByte
                                     +-- FileInput <-- MCFileInput, StringProofs --> CommonLemmas

    MCUnicode --> Unicode --> Text --> Utf8 --> Bytes, LeadByte
                     |          +--> CaseTables
                     +--> FullCase --> CaseTables, DynamicArray

    Numbers --> Floats, Random --> Int128 --> Alignment
       ^
       +-- NumbersProofs --> CommonLemmas

    MCFormatting --> Formatting --> StrFromD --> FloatText --> FormatString
                                                     +--> PfString --> Int128

(an arrow without a word is `EXTENDS`.)

### Allocators

**Alignment** has `gp_round_to_aligned`. **AbstractAllocator** is the promise of a `GPAllocator`:
the sequence of blocks the client holds; a block that is acquired, or exchanged for another, shares
no byte with the rest; what is held does not move; a rewind gives up a tail of the sequence.

**Arena.** `nodes` is the C list of `GPArenaNode`, oldest first (the C `head` is the last element).
A pointer is a node's index and an offset from the node's start: nodes are separate
allocations, so this loses nothing but the absolute address, which matters for alignment only. For
that, each node has a base, its address modulo the largest alignment, chosen by the
environment. Each action is one C function, with everything it calls: `MemRealloc` for example
includes the allocation in the middle of `gp_mem_realloc_aligned` and both `memcpy`s, recorded in
`copied`. `live` is what the client holds, and `MemDealloc` only changes that, as the code frees
nothing. Sizes are what the C code computes, in units of 8 bytes, so `NodeSize`, `AllocAlignment` and
`PoisonBoundary` are constants.

**ContiguousArena.** Several arenas in one address space of `MaxPages` pages. `mapped` and
`resident` are the system's: which pages are mapped, and which have physical memory, hence what was
written to them. `madvise` and `munmap` act on whole pages and do not know whose they are. A reset
discards one page more than its mapping has; if that is the first page of another arena, that arena's
structure reads as zeros (`Zeroed`). No allocation, rewind or release works on it any more (`Intact` guards
them: in the code they call NULL or fail an assertion). It can be reset, which discards nothing then, and deleted,
which unmaps nothing: its pages are `leaked`. The refinement is stated for one arena, `Observed`, any of them,
while the others are used too: what is `Held` of it are the blocks it gave out while it has its structure, and
a step that takes the structure counts as giving them up. `ImplementsAllocator` says besides which step that is:
only the reset of the arena it lies right behind.

**MutexAllocator** puts threads in front of an arena. The arena's allocation is split into reading
and writing the list of nodes, so that it goes wrong without the mutex. A reallocation is
`alloc`, `memcpy`, `dealloc`, as `gp_mem_realloc_aligned` does not recognise an arena behind the mutex
allocator. That each call gives the mutex back is a matter of three lines of code each and has no property.

### Scopes, threads and exit

**Scope.** One thread. `stack` has the library calls and callbacks in progress, innermost last; a
call of `gp_end` is cut where client code runs, between `RunDefer` and `CallbackReturns`. A
deferred function is an arbitrary client: it may begin, end and defer. `Habits` says how unruly
clients are, so that each run states under what use its properties hold; `"exit ends"` is the use
that the comment at `src/memory.c:442` has in mind. The thread destructor is
called again while it leaves something in the thread local, at most `Iterations` times, as POSIX
says.

**TestProgram** composes **UnitTest** (tests, suites and counts of `assert.c`) with **ThreadMemory**
(what waits in the automatic scope of each thread). A call of a thread is a sequence of steps in
`todo`, one for each access to what threads share; those of other threads come between. The exit
handlers run in the reverse order of their registration, which is the order of first uses, in the
thread that exits, while the other threads go on. The report is a handler that exits again.

### Maps and the cache of locales

**HashMap.** A bucket is named by the indices on the way to it. All computations of an
array's size are kept apart (`PutShift`, `GetShift`, `DeleteShift`, `DownShift` and the size that
is really allocated, `ArrayShift`), since their agreement is what is in question. **AbstractMap** is a
function from hashes to elements; `HashMap` refines it with the elements a reader can find.
**MapIterator** adds an iterator and lets the map change between its steps.

**LocaleCache** is `gp_locale`: a hash map that only grows, searched without a lock. The map is cut
into the reads and writes of bucket fields, in source order. Memory that was never written has the
value `Junk`, and a comparison with it may come out either way. Compilers and processors
may reorder these accesses further; the module has the behaviours without reordering.

### Arrays, strings and files

**DynamicArray** has the functions of `array.c` as operators from an array (a record with the fields
of `GPArrayHeader`, the size of an element, the bytes of its block and its contents) to an array and
a result. `block` is the memory there really is, so that `HasRoom` can compare it with what the
capacity says. **DynamicString** makes calls in any order on one array or string; `asked` is what
the last call was asked for, in the words of **AbstractSequence**, which says what the contents must
be then. **FileInput** adds the reads of `io.c`, one byte at a step, since the string is reallocated
between bytes and a pointer into it is kept. Sizes are bounded by `MaxSize`: room is
doubled by shifting a 1 of type `int` (`src/include/gpc/utils.h:63`), and what comes of larger
sizes is not defined. `MaxLength` and `MaxEstimate` keep the calls below it, and a read grows a string (`GrowForRead`) no further.

### Text

**Bytes**, **Utf8**, **Text** and **FullCase** are the functions of `bytes.c`, `unicode.c` and
`string.c` as operators over sequences of bytes, or of codepoints. The masks and shifts of the
code are arithmetic; an ill-formed sequence decodes to a number that keeps its raw bytes, as in the
code. **CaseTables** has the conditions and tables of the case conversions as rows of
`<<first, last, step, difference>>`. **FullCase** has the rules that give one codepoint several
or look at its neighbours, with the appends to arrays of codepoints that the code does not check.
**Unicode** is a machine whose text grows by a byte, whose word grows by a letter and whose codepoint
is looked up, so that the states are all inputs within the bounds; its invariants compare the
functions with definitions that do not use them: Table 3-7 of the Unicode Standard for
well-formedness, the definition of a match for searches, and one table for another.

### Numbers

**Int128** is the portable representation of integers of two words with the width of a word as a
constant, **Floats** the conversions to and from floating point formats given by their number of
bits (constants of `Numbers`), **Random** the generator. The bit operations of C on words are recursive functions there, and the
loop of the division is one, so that they can be proved about. **Numbers** runs two registers through all integers, by the
operation of the code that adds one, and compares each operation with arithmetic on
natural numbers, and the distribution of draws over all words of the generator.

### Formatting

**FormatString** scans directives as `format_scanning.c` does, **PfString** is the buffer that counts
what it does not store, **FloatText** cuts `m * 2^e` into blocks of `BlockDigits` digits and rounds them,
**StrFromD** chooses between `%f` and `%e`. **Formatting** is `pf_vsnprintf` and `pf_vfprintf`, a directive
at a step, including the second try of a stream whose buffer overflowed, and what ANSI C and IEEE 754
promise of each directive, which for `%f`, `%e` and `%g` is computed from the number by division. The tables of powers of ten
are an assumption, `RowsAssumption`: what a row leaves out is never enough to round up (with the real
tables at most 0.4039 of a unit, at index 9).

## Runs

All runs search the whole state space; the passing ones together fire each action.

| run | expects | properties | bounds |
|---|---|---|---|
| `arena` | pass | `BlocksInMemory`, `BlocksInOrder`, `BlocksAligned`, `RewindStopsAtOwner`, `CopiesAreSound`, `ImplementsAllocator` | 3 nodes and 3 blocks, two block sizes, one over a node's capacity, two alignments, two residues of node addresses, heap and buffer; no poison boundary |
| `carena` | pass | `MappedIsOwned`, `ResetFreesPhysical`, `ImplementsAllocator` | 2 arenas, 5 pages of 12 units, 2 blocks each |
| `mutex` | pass | `BlocksAreOwn` | 2 threads, 5 calls |
| `scope` | pass | `ScopesAreLive`, `LastScopeIsLive`, `DefersRunInOrder`, `NothingLost`, `InnerFreedFirst`, `CallsComplete` | 4 scopes, 2 deferred functions each; clients skip ends, begin and end scopes in deferred functions, and defer ends on scopes they leave to the thread destructor |
| `testing` | pass | `FailuresFail`, `DefersRunOnce`, `ExitCompletes` | 2 threads, 2 tests or suites, one failing expectation, 2 deferred functions |
| `map` | pass | `TreeIsSound`, `ReturnsOnce`, `DeleteFreesSmall`, `ImplementsMap` | roots of 16 and 64 buckets, three hashes of 14 bits, two of which collide on two levels; elements are symmetric |
| `locale` | pass | `CreatedOnce`, `SubsequentCallsFind`, `MutexGivenBack` | 2 threads with 2 calls each, 3 codes that share a bucket on one level and on two, one without a locale |
| `locale_race` | violation | `ReturnsLocale` | as `locale` |
| `strings` | pass | `HasRoom`, `ReadsEndAtDelimiter`, `TailIsWhole`, `ImplementsSequence` | elements of 1 and 4 bytes, capacities 0, 1 and 3, contents of up to 3 elements asked for, two files, two delimiters, an `int` of 16 bits |
| `unicode` | pass | `DecodesAll`, `FindsAll`, `MadeValid`, `CasesAgree`, `WordsAgree` | texts of up to 5 bytes of 8 kinds, machine words of 2 bytes, words of up to 3 of 13 letters in English, Lithuanian and Turkish, every codepoint of the case tables and its neighbours |
| `numbers` | pass | `ArithmeticAgrees`, `DivisionAgrees`, `ConversionsAgree`, `DrawsAreFair` | words of 4 bits: all pairs of integers of 8 bits; formats of 4 and 2 bits with fractions of 2 and 1 |
| `formatting` | pass | `TextIsPromised` | capacities 0, 2, 4, 7, 16 and 24, a stream's buffer of 6, blocks of 2 digits, mantissas of 8 bits, exponents from -20 |

Each property is stated in a comment where it is defined.

Why the bounds are enough: what the properties tell apart happens within one or two nodes,
levels, pages, blocks of digits or machine words of each other. Three nodes have a first, a middle
and a newest one; a block's predecessor, itself and its successor are three blocks; four scopes are an
outer scope with an inner one, each with one begun in a deferred function; hashes that collide on two
levels reach the levels where the size of an array no longer shrinks, and a removal and another put
move them about. Five bytes are a codepoint of the greatest length with a byte before or after it, at
every alignment of two-byte words; 8 kinds of bytes meet and miss each row of Table 3-7. Integers of
two 4-bit words take every case of the division by leading zeros and every carry; the
constants of the formats keep the proportions of the real ones (a format that rounds by less than a
word and one that does not). Blocks of two digits carry from one to the next as blocks of nine
do. Capacities of strings cut their contents at every element. In the runs of arenas a unit of
size is 8 bytes; the theorems drop these bounds altogether.

`CHECK_DEADLOCK FALSE` is said where the system does stop: after the exit of the thread or the program,
when every thread has made its calls, or at the end of an input.

The run `strings` has a `VIEW` that leaves out what the last call was asked for and what it returned:
no later step and no invariant reads them, and `ImplementsSequence` compares them with the contents
on each step, which TLC checks for every step it generates.

### Fairness

`Scope`: a library call that was made goes on and a deferred function returns (`FairScopeSpec`); nothing
is assumed of the thread's own function. `LocaleCache` and `TestProgram`: each
thread inside the library is scheduled (`WF` on its next step); nothing is assumed of who gets a mutex
next. With finitely many calls no thread starves; `MutexGivenBack` needs no such bound. These are what
an operating system's scheduler gives; no code of the library sleeps or waits but in
`gp_mutex_lock`.

## Known disagreements

`locale_race` shows one: an unlocked search in `gp_locale` sees a bucket before its value, or a child
array before it is cleared, and returns what was in the memory.

Others came up while modelling. The passing runs leave out the uses that meet them, under the next
heading. Those in the state machines can be seen by changing a constant:

- `gp_end_scope` "appropriate for deferring" of an inner scope, deferred on the outer one, walks a
  list of freed scopes: add `"deferred ends"` to `Habits` in `scope.cfg`.
- `gp_map_put` never compares hashes; the second element for a key hides behind the first:
  `DuplicatePuts = TRUE` in `map.cfg`.
- `gp_map_delete` takes `size_shift >> 2` for the size of children and leaks what hangs off the buckets
  beyond that, for roots of 64 buckets and more; `DeleteFreesSmall` is about smaller ones.
- `gp_carena_alloc` takes the block before it aligns the position (`include/memory.h:396`), so blocks
  are aligned to the previous request.

These are part of the passing runs, and their properties say what is left:

- `gp_carena_reset` passes `madvise` one page more than the mapping has, for arenas of two pages and more
  (`src/memory.c` 567-570). If another arena was mapped there, its structure and what was written to its first
  page are lost, though `include/memory.h:374` says that the reset deallocates the arena's memory.
  `ResetFreesPhysical` says that nothing else is lost, `ImplementsAllocator` that an arena is an
  allocator until that happens to it, and `MappedIsOwned` that its pages stay mapped for nobody when it is deleted.
- `gp_last_scope()` may return a freed scope to a deferred function, the use for which `include/memory.h:460`
  has it. `gp_end` frees the scopes it goes through from the newest on, and sets the thread's list to what is left
  only when it is done (`src/memory.c` 447-465); `gp_scope_list_delete_all`, at the exit of the thread, does not
  set it until then either. So a deferred function of a scope whose inner scopes were not ended, or of any scope but
  the newest at the exit, finds the newest one, freed. `LastScopeIsLive` says that it is freed in these cases and in
  no other.

Memory and threads:

- A deferred function that calls `exit()` is run again by the exit handler. `GP_DEFER_END` restores
  the arena's position before it runs the deferred functions. The scratch arena's exit handler
  may delete the arena before handlers that were registered earlier use it.
- `gp_end_testing()` that fails reports twice, though its comment says "Prevent redundant reporting at
  exit."; counts of tests that are running in other threads are reset; failures in handlers
  registered before the first `gp_test` come after the report.

Arrays, strings and files:

- `array.h` 405-435: the clamp of an erased range is in the wrong branch; an insertion at or past the end
  of a full static array reports the whole source as lost. `gp_str_join` assumes a dynamic
  destination.
- `gp_next_power_of_2_64` shifts an `int`, wrong from 2^30 on (`IntBits` is that width).
- A line that fills a static string exactly ends the program; `gp_file_read_until` does not try again
  from the byte that broke a partial match; `gp_file_read_strip` returns false at the end of the file
  though it read a word.
- `bytes.c`: searching backwards skips overlapping candidates, and goes on in front of the text when a candidate
  at its beginning does not match (`bytes.c` 93-95 pass a count of `SIZE_MAX` to the loop at 60), which is the
  result `Undefined` of `FindLast`; `is_valid_ascii` wraps for texts shorter
  than their misalignment; counting counts overlaps; a set searched with `strchr` contains NUL;
  printing a line to a full buffer overwrites the last character.

Text:

- `string.c`: `gp_str_find_valid` and `gp_utf8_is_valid_codepoint` take a codepoint that ends with the
  text for cut off, or one that is cut off for whole; `gp_str_trim` with a non-ASCII set ignores its
  source; `gp_str_capitalize` reads past the end for U+0345 before a diacritic.
- `unicode.c`: UTF-16 of the even planes from 2 on (`&= ~0x10000`); a low surrogate is not skipped when
  converting back; a pair may be written past the capacity; some additions of Unicode 15.1 are
  unreachable.

Numbers and formatting:

- `int128.c`: the constructor from a signed word gives negative numbers 1 for a high word, though
  `int128.h` says "Will sign extend"; conversions to integers give 0 for 1.0 to 1.99; ties round
  up though the comment says "Break ties to even"; the smaller format loses bits that should be sticky.
- `gp_random_bytes` aligns by the wrong remainder.
- `printf.c`: `%i` of 128 bits is always negative; leading zeros are moved past the capacity; a floating point
  number gets the whole capacity of the buffer instead of what is left; a negative `*` width is ignored;
  `%.0d` of 0 prints "0"; `%g` is wrong for numbers whose rounding moves the first digit up and
  for numbers below 1 with precision 0. `include/printf/printf.h:14` says "fully ANSI C compatible".
- `io.c`: a `%%` with arguments to skip reaches `GP_UNREACHABLE`.

## Uses left out of the passing runs

The passing runs assume these of clients, and the code does not check them:

- Arena: alignments are `GP_ALLOC_ALIGNMENT` or a multiple (`src/memory.c:100` subtracts it from the
  size of a node), and small enough for a node: `gp_s_in_this_node` goes by the capacity, which
  padding before an aligned block may exceed. A reallocation enlarges a block and keeps its alignment,
  as `gp_mem_reserve` and the containers do; to shrink one would copy `old_size` bytes into less
  (`src/memory.c:313`). `CopiesAreSound` is about the growing ones only.
- Scopes: no function is deferred on a scope while its deferred functions are being run
  (`src/memory.c:366` reads their number once), deferred functions end the scopes they begin (`gp_end`
  sets the list to its scope's parent at the end), and ends are deferred only on scopes that are
  left to the thread destructor.
- Map: a key is not put again before it is removed, and no key has hash 0.
- Testing: `exit()` is not called by two threads or by a deferred function, and `gp_end_testing()` not
  while other threads run.
- Files: no text breaks a delimiter off with a byte where the delimiter begins again (`NothingRestarts`; `MCFileInput`
  assumes it, where TLC evaluates it, and so does the theorem on reads); a line does not fill a
  static string exactly. The program that a failed assertion of the library ends is the state "aborted".
- Text: `WordsAgree` and `MadeValid` leave out the texts of the disagreements above by name (`CutOff`,
  `EvenPlane`, `Dotted`, `Dots`): each is a definition in `Unicode` with a comment. Needles of a backward
  search have two different first bytes, and `FindsAll` allows `Undefined` for those that are not in the text, if the text
  begins with their first byte; checks for ASCII are of texts at least as long as
  their misalignment.
- Numbers: conversions of signed numbers start from exponents above 0; ties are not compared; the high word
  of a converted integer is not 0. The last exponent is that of the largest unsigned integer; the
  assertions of the code let 52 more pass (`int128.c:306`).
- Formatting: zeros that precision asks for fit; 0 has no precision 0; widths by `*` are not
  negative; integers of 128 bits are not signed ones; a floating point number that is not the first of its text fits;
  `%e` is not cut, as the code writes the first byte past the capacity when the digits end there (`conversions.c`
  441-445), and the modules have no bytes past it; `%g` is within `FirstDigitStays`.
- `max_size` of an arena is stored and never read; no module has it. Neither are the sizes that
  `gp_end` and `gp_arena_reset` return in the modules: they influence nothing in the library.

## Proofs

Eight modules have theorems. `CommonLemmas` has what several of them need: rounding up to an alignment returns a
multiple of it, less than one alignment on; removing an element of a sequence shifts the later ones; induction
and recursion over numbers; powers of two; the recursive function of a loop exists (`TailRecursion`).

`ArenaProofs` proves, for any header and structure size, capacities, growth factor, poison boundary,
sizes, alignments and bounds that satisfy `AlignedLayout` (what is multiples of
`GP_ALLOC_ALIGNMENT` in the code is so here, and alignments are multiples of it). That covers builds
with a sanitizer, whose poison boundary is smaller than the alignment and which no run checks:

- `TypeCorrect`, `BlocksStayInMemory`, `BlocksStayInOrder`, `BlocksStayBelowPosition`: the invariants;
- `ArenaImplementsAllocator`: the refinement of `AbstractAllocator`.

The inductive invariant says that the nodes are sound (a position between the header and the end of
memory, room for the capacity) and that the client's blocks are *placed*: inside their nodes, in
order, and below the newest position. The order alone is not inductive: a new block comes after the
others only because none reaches past the position, and the position is right after a rewind only
because the block rewound to lies before all that remain. Every operation is a composition of four
changes to a list of placed blocks (append at the position, take some out, give the last one back,
drop nodes), and there is a lemma for each. At the bottom is arithmetic: rounding up to an alignment
wastes less than `gp_s_arena_node_new_alloc` adds to the size of a node.

It also proves what else a client relies on, from the same hypothesis:

- `BlocksStayAligned`: a block is aligned for as long as it is held, wherever its node lies;
- `CopiesStaySound`: the `memcpy` of a reallocation stays inside the new block and off the old one;
- `RewindAlwaysStopsAtOwner`: a rewind stops at the block's own node. This needs `RoomForAlignments`
  too: nodes do not shrink and the first one has room for the padding of any alignment, since
  `gp_s_in_this_node` goes by a capacity that does not count padding.

Operations keep place and capacity of the nodes they leave (`SameNodes`), so what held of a block when
it was cut off still does; the work is in the new block. A copy is sound because a reallocation in
place copies nothing, and it is in place exactly when the block was the last one and still fits,
which is where alignment is needed. `arena.cfg` satisfies both hypotheses.

About the mutex allocator `ArenaProofs` proves `BlocksStayOwn`, for any number of threads and calls, under
`AlignedLayout`: the blocks of all threads lie in the arena's memory, never overlap, and have their
contents when the call that moved them returns. That a thread inside has the mutex (`Exclusive`) is
not enough by itself: the invariant `MutexInv` adds that the list it is about to write from is the
list there is, which makes its write a step of the arena (`AllocSound` applies), and, for each place
in a reallocation, which block does not have its contents yet (`LocalSound`). `ThreadStep` says
once what every step of a thread must show to leave the others alone. The theorem does not use the
fairness of `MutexSpec`.

About contiguous arenas `MemoryProofs` proves, for any size of a page and of the arena's structure (smaller than a
page), any arenas, sizes and alignments, from `ContiguousArenaAssumption` alone:

- `PagesStayOwned`: what is mapped is what the arenas have or have lost, each page for one of them, blocks lie in
  their arena, and an arena with its structure has what was written to them;
- `ResetKeepsFirstPage`: a reset keeps the first page's physical memory and no other, and takes at most the first
  page of the arena behind it;
- `CarenaImplementsAllocator`: the refinement, for the observed arena among others, until one of these is reset
  in front of it.

Ownership is not inductive by itself. What `gp_carena_delete` unmaps is computed from the capacity, so
the invariant `CarenaInv` says that structure and capacity fill the arena's pages to the byte, or that the capacity
is 0 (`RecordSound`); from that, `RoundedCapacity` shows that the rounded capacity is the mapping's size.
Where a block goes depends on the position, so the invariant says that blocks are in order below it
(`PlacedIn`), which also makes a block that ends there the last one. `MovedSound` then covers every
operation that moves one arena's position.

`LocaleCacheProofs` proves, for any number of threads, codes and calls and any hashes, from
`LocaleCacheAssumption` alone (hashes of different codes differ somewhere along their ways):

- `LocalesCreatedOnce`: `newlocale()` is called at most once for a code;
- `CallsFindWhatWasPut`: a code whose locale is in the map is found without the mutex.

Mutual exclusion is the easy part of `LocaleInv`. The rest is about memory that `gp_s_map_put`
reaches before it clears it: between `PutArray` and `ClearArray` a bucket's children are
linked and hold junk. `MapSound` says that this is the only such moment, and that it only ever happens
below the bucket the writer is at (`Clearing`); everywhere else what is linked was cleared and what was
not cleared is not linked. A code in the map is therefore never on the way into such children: where
it is, it stays (`Kept`), and a reader who knows of it goes down its way and not past it
(`FinderSound`), even while another thread clears an array beside it. `HolderSound` says
how far the writer is, `CreatedSound` that a code with a locale is in the map or being put. The
theorems do not use fairness.

About scopes `MemoryProofs` proves, for any number of scopes and deferred functions, calls nested to any depth and
clients that skip the ends of inner scopes or do not, the five safety properties of the run `scope`:

- `DefersInOrder`: what was deferred on a scope runs from last to first, each function once;
- `NothingIsLost`: a scope is freed after its deferred functions, and a thread that is gone has left none;
- `InnerGoesFirst`: scopes begun inside a scope are freed before the first of its functions runs;
- `ListAndCallsAreLive`: a call in progress never holds a freed scope, and the thread's list leads from live scopes to
  live ones at any moment, in the middle of calls too, but for those the calling `gp_end` has freed;
- `LastScopeKnown`: what `gp_last_scope()` returns to client code is a live scope, but for the
  cases under Known disagreements.

The hypothesis `EndsAreCalled` excludes the use that the run `scope` excludes, see Known disagreements:
deferring `gp_end_scope` of an inner scope on a scope that is ended by `gp_end`. The invariant `ScopeInv` goes by
the depth of the stack. `FrameSound` says that a call works on the newest scope of the function that
called it and has as many functions to run as were not run yet; `LastSound` and `ParentSound` say which
scope the list leads to from each depth, also when client code has left inner scopes behind, and
`PlacedSound` that a deeper function's scopes are younger and that it is in progress. What a step
frees is then the newest scope of its depth (`ChildFreed`), which no call under it holds, and what the call goes on
to is live. The list needs an invariant of its
own, `ListInv`: for each depth of the stack it says which scope a step finds last there (`Led`, `LastLed`), where the
parents of live scopes lead (`ParentLed`), and that no live scope is passed over (`FollowSound`). Client code
lengthens the list at its own depth only, and a call shortens it past the scope it works on. The
theorems do not use fairness; that calls return is `CallsComplete`, model-checked only.

`TestProgramProofs` proves, for any threads and any number of tests, failures and deferred functions,
from the assumption that the threads are those of both modules:

- `FailuresAreReported`: a failure of a test or suite that came to its end reaches the status of the
  program, and only a program with a failure has another status than 0;
- `DefersRun`: a deferred function runs once, those of open scopes wait, and nothing waits in a
  thread that ended or called `exit()`.

A thread's calls are sequences of steps, and `Shape` says that what is left of one is a rest of one of
seven sequences; `StepAt` and `Successor` turn that into where a step is taken and what follows it. The
status is right because of what is true long before: a failure is remembered by the test or
suite it is in (`Kept`), which was counted when it was started (`Counting`), which registered the end
of testing (`Asked`), which waits or is run by the exiting thread up to its verdict (`Pending`), and
the counts are reset only by a thread that owes nothing (`Settled`). Proving it showed that the
history variables were wrong: a failure in a suite outside of its tests was owed when the thread's
*test* ended, of which no program with only two tests and suites gives an example. Now each failure is owed at the end of
what it happened in. For deferred functions, `Waiting` gives each function one place, `Nested` says that what waited where a scope
was opened still does, as long as the thread has not begun to leave its scopes (`Leaves`), and
`AllRun` that what is left for the exit has a handler that runs it. That the exit comes to an end is
`ExitCompletes`, model-checked only.

`HashMapProofs` proves, for any even width of hashes, any keys, elements and capacities (the smallest
array is no smaller than the code's 16 buckets and the largest root has at most as many buckets as there
are hashes, `HashMapAssumption`; the code has 64 bits, 16 and 0x4000):

- `MapRefinement`: the tree of arrays is a map;
- `TreeInvariant`: a search finds the bucket that holds its hash, and buckets lie in their arrays;
- `SmallMapsAreFreed`: a map whose root has the smallest size is freed whole;
- `IteratorKeepsMap`: iterating changes nothing of this (`IteratedMap` has the three together, for the
  specification of the run);
- `IteratorReturnsOnce`: an element that stays while the map is iterated over and changed is returned once.

The hypothesis `MapClients` is the use the run is limited to: no hash is 0, which
`src/hashmap.c:211` asserts, and a key in the map is not put again. The invariant `TreeInv` says that each
array hangs off a bucket of another, each bucket in use is on the way of a search for the hash in
it, and no hash is in two. That implies that a search ends before there are no more arrays, that it
reaches each bucket with one hash only, and that put stops at a free one. Both rest on what
sizes and hashes do on the way down. A size stays an even power of two, so that put's
`gp_max(size_shift - 2, 4)` and get's `size_shift - 2 * (size_shift>4)` never part; a rotation
exchanges two parts of a hash, so different hashes stay different, and none becomes 0,
the mark of a free bucket. Sizes and hashes are recursive functions of the depth. Induction over numbers is
done with the set of the numbers for which the claim holds (`Least`, `Induction`, `Iteration`), as a theorem
of the library that takes an operator cannot be cited.

The loop of the iterator walks down and up the tree. Buckets are in the order of their names, a bucket after
those below it (`Before`), and `FirstFromIsFirst` says that the loop returns the first bucket in use that is
not before the place it starts from, with the size of its array. That needs that the loop ends: it goes down once to each
array that is left and up once from each it is in (`Ways`). That `FirstFrom` is a function at all, in any tree, is
`TailRecursion`. The inductive invariant `IteratorInv` adds to `TreeInv` that the iterator is at a bucket of an
array of the map, and that of the elements that stayed those in the buckets it has passed were returned once and
the others not yet. What is put never moves a bucket, and what is removed no longer counts, so both keep it.

`StringProofs` proves, for any elements, sizes of elements, sources, capacities, files and delimiters, from
`DynamicStringAssumption` and `FileInputAssumption` (what is stored are bytes, and sizes are below `MaxSize`):

- `StringsHaveRoom`: the elements stay within the capacity, and the capacity with the terminator within the memory;
- `StringsImplementSequence`: each call, and each byte that is read, is a step of `AbstractSequence`;
- `TailsAreWhole`: what was cut off anywhere is truncated to whole codepoints, as many as there are;
- `ReadsFindDelimiters`: a read never goes past a delimiter, and stops at the first.

The last two have a hypothesis each, which `MCFileInput` makes TLC evaluate on the texts of the run: `WholesAreTexts`
says that the texts are of whole codepoints (`IsWhole`) and that their beginnings of whole codepoints are texts too,
`NothingRestarts` excludes the known disagreement on delimiters, no more: a text may have a part of a delimiter followed by the
delimiter, as long as the byte that breaks the part off does not begin it again.

The inductive invariant (`StringInv`) adds little to `HasRoom`: a string has a capacity of one byte at least, which
is what the first byte of a line relies on. The work is in what calls return. A result `Holds` what was asked for
if it is the longest prefix that fits and says how much was dropped. That composes (`Continued`): once
something was dropped there is no room for more, so that filters which push, words that are appended codepoint by
codepoint and objects printed one after the other hold the whole as if it were stored at once, however their sizes were
estimated. A replacement cuts from behind, first the tail and then what is inserted (`KeptIsPrefix`). `Edited`
turns a result that holds what was asked for into a step of `AbstractSequence`. `Chosen`, `FilterOf`, `ReadStrip` and
`FlattenSeq` are recursive functions; what they are is proved from their existence (`...Exists`, `...Steps`).

The code looks for a tail from the third last byte on. One of the last four positions is between codepoints, as none
is longer than four bytes, and from any position at or before the last of these a step goes on by a byte at least and
not past the last (`TailSteps`); three steps get there (`TailStartIsLastBoundary`). About reads, `ReadOK` says that what is matched is
the *longest* beginning of the delimiter that the contents end with. That is what the code keeps without falling back: when a byte
does not go on, either the delimiter begins nowhere in what was matched, or it restarts, which is excluded (`MatchGoesOn`).
Contents and remaining text together are the text the read started with, so that the string may grow between any two bytes.

`NumbersProofs` proves three invariants of the run `numbers`, for words of any even number of bits (with two words counted
by an `unsigned`, `WordBitsAssumption`; the code has 64) and any floating point formats that fit a word and are rounded by bits
below their fraction (`FormatsAssumption`; 64 bits with 52 of a fraction and 32 with 23 in the code):

- `ArithmeticIsExact`: sums, differences, products, bit operations, shifts and comparisons of integers in two words are
  those of the numbers they stand for, modulo the range of the type;
- `DivisionIsExact`: every case of `gp_uint128_divmod` finds quotient and remainder, and
  `gp_int128_idiv` and `gp_int128_imod` those that C truncates to;
- `ConversionsAreNearest`: an integer with a high word is converted to the nearest number of a format, one with a sign with its
  sign, and a number of a format to the integer below it in magnitude, for every exponent that two words hold.

Nothing of this is about reachable states but that the registers hold two words (`RegistersHoldIntegers`); the theorems
are about the operators. `StoredSum` gives the two words of a number from any high and low part of it, which is what a carry
is, and `StoredAgain` lets what wrapped be computed with further. Bits are counted by halving: a shifted word and one below the
shift have no bits in common (`AndShifted`), so that the `|` of a shift is a sum (`OrShifted`), and the code's `(w & (w - 1)) == 0`
finds the powers of two and no other word (`OneBit`).

The division shifts and subtracts without a branch: a sign, shifted over all bits, masks the divisor. That the sign is the one of the
comparison needs that the doubled remainder does not leave the range, or that the divisor is at most half of it. Before the loop
the code skips as many turns as the divisor is longer than one bit; `BitsApart` bounds quotient and divisor by the zeros that are
counted, and shows that the one divisor above half of the range comes with a single turn. The invariant
`InDivision` carries this through the loop, and `LoopDivides` is its induction over the turns that are left.
A divisor with more bits than the dividend makes the `unsigned` difference of the counts wrap, which `UnsignedCounts`
shows to be beyond every limit it is compared with.

A conversion to floating point rounds by one bit: the significant bits are the upper half of a quotient, and the
bit they are rounded by is its last (`BitsTaken`). What the code puts together below that bit, half of a word for the one format and a
single bit for the other, never reaches it (`OrQuotient`, and the last conjunct of `FormatsAssumption`), so that the bits that
the smaller format loses cannot make the result worse than halfway. `RoundedToNearest` then covers the mantissa that
overflows into the exponent.

Every safety property of the runs `arena`, `carena`, `mutex`, `locale`, `scope`, `testing`, `strings` and `map` is a
theorem, and so are `ArithmeticAgrees`, `DivisionAgrees` and `ConversionsAgree` of `numbers`. Only model-checked: the draws of
the generator, which `Numbers` counts over a period of the size of the run, and everything
about the other modules. Out of the prover's reach: liveness (`CallsComplete`,
`ExitCompletes`, `MutexGivenBack`) and `ENABLED`; induction over data; and modules with
`RECURSIVE` operators or `Bitwise` (`Unicode`, `Formatting` and what they
extend), which compute with text and numbers of any length.

## Not modelled

- The heap allocator: it forwards to `aligned_alloc` and `free`; what they return are the bases of nodes.
- The scratch arena: its arena is `Arena`, the rest is the order of handlers of different parts.
- `GP_BEGIN` and `GP_END` as blocks of C: how a compiler leaves them is the compiler's.
- Ryu (`d2s.c`, `d2fixed.c` as far as `conversions.c` does not have its own copy) and its tables; `long double`.
- Collation, normalisation and locale dependent word boundaries: they belong to the C library.
- `time.c`, breakpoints, the terminal, the overload macros and the tools: pure input and output, or no
  program at all.
- Poisoning of memory for sanitizers: it changes no result. Its boundary changes sizes and is modelled.
- Reordering by compiler or processor in `LocaleCache`, and failures of `mmap` and `pthread_mutex_init`.
- The Windows branches.

## Plan

Done: arenas, contiguous arenas, the mutex allocator, scopes, maps, locales, arrays and strings, files,
text and cases, integers of two words, formatting, unit testing with automatic scopes; theorems of
both arenas, of the mutex allocator, of scopes, of `gp_locale`, of the hash map and its iterator, of tests with deferred functions, and of arrays, strings and reads. Next, in this order:

1. `Scope` in `TestProgram` beside the automatic scopes, for programs whose threads use both; scratch arenas.
