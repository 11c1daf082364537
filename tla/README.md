# A verification project for bluebird's bitmaps

bluebird is a small C and C++ library. Its substance is a copy of CRoaring (compressed bitmaps of
32-bit integers, about 23 000 lines of C under `src/bluebird/bits/roaring`), with C++ front ends
(`bits/bitmap.h`, `bits/bitmap64.h`) and a prefix matcher on top of the cedar double-array trie
(`matcher/`). This directory holds TLA+ models of that code, the TLC runs that check them and TLAPS
proofs about them. Paths below are relative to `src/bluebird/bits/roaring` unless they start with
`src/`.

Every definition that stands for code is listed in `PROJECT.json` under `map`, with the lines it was
translated from. `hazards` lists what is hard to test in this code, each at its line and with the
properties that cover it. `findings` lists the disagreement between code and documentation that a
run shows; section 4 has that one and those met on the way that no run shows.

## 1. Inventory

A roaring bitmap maps the high 16 bits of a value (its *key*) to a *container* with the low 16 bits
of the values that share that key. Containers come in three kinds.

| component | state | operations | what makes it correct |
|---|---|---|---|
| copy-on-write containers (`containers/containers.c`, `roaring_array.c`, `roaring.c`) | per bitmap and key a slot with a pointer and a type code; `shared_container_t` wrappers with an atomic counter | create, add, remove, run_optimize, copy, overwrite, clear, free, in-place and out-of-place set operations | a counter is the number of slots that point to the wrapper; nothing dangles, leaks or is freed twice; a shared container is never written; bitmaps behave as separate sets |
| bulk operations (`roaring.c` 90-175, 598-630) | a context of the caller: key and container; inside `remove_many`, a position | add_bulk, contains_bulk, add_many, remove_many | the context is the container the bitmap has for that key, the position is one of its keys; nothing freed is used |
| bitmap iterator (`roaring.c` 1520-1927) | container index, place in it, value, has_value | init, init_last, move_equalorlarger, advance, previous, read | the same cursor whatever the kinds of the containers |
| array, bitset and run containers (`containers/array.*`, `bitset.*`, `run.*`) | sorted array; 1024 words and a cardinality; sorted disjoint runs | membership, add, remove, range and set operations, rank, select | the set is right, the representation is well formed, the cardinality is exact |
| operations on two kinds of container (`containers/mixed_*.c`, `convert.c`, dispatch in `containers.h`) | none | and, or, xor, andnot, in-place and lazy forms, negation, subset, equality, conversion | the result is right and of a kind that its size allows |
| key and container arrays (`roaring_array.c`) | sorted keys, containers, type codes, size, allocation | insert, append, remove, shift, extend, binary search | keys stay sorted and distinct, no container is lost or kept twice |
| ranges, flips, offsets, rank and select (`roaring.c`) | none | from_range, add_range, remove_range, flip, add_offset, range_cardinality, rank, select | exact at the limits 0, 2^16 and 2^32 |
| lazy unions and the priority queue (`roaring.c` 2301-2652, `roaring_priority_queue.c`) | bitset containers with an unknown cardinality; a heap of bitmaps | lazy_or, lazy_xor, repair_after_lazy, or_many_heap | repair restores exact cardinalities and kinds; no intermediate leaks |
| serialization (`roaring_array.c` 546-866, `roaring.c` 1401-1485, 2975-3376) | bytes | portable, native and frozen writers and readers | a reader returns what the writer had, or fails and frees what it built |
| dense bitset (`bitset.c`) | words, size, capacity | create, resize, grow, shifts, set operations, trim | size never exceeds capacity, no word is read outside |
| C++ bitmaps (`src/bluebird/bits/bitmap.h`, `bitmap64.h`) | a bitmap; a map from high halves to bitmaps | forwards; 64-bit ranges, iterator | carries across 2^32 boundaries |
| trie and prefix matcher (`src/bluebird/matcher`) | double array, sibling lists, block lists | update, erase, save, open, listing, longest-prefix search | the trie holds exactly the keys inserted; free cells are linked |
| kernels (`array_util.c`, `bitset_util.c`, `isadetection.c`) | none | merges, galloping searches, bit decoding, SIMD twins | the vectorised variant computes what the scalar one does |

**How they interact.** `roaring.c` walks the key arrays of its operands and hands pairs of
containers to the dispatchers of `containers.h`; these look through a wrapper
(`container_unwrap_shared`) when they read and must unshare it when they write. A copy of a bitmap
writes into the slots of its *source*, since both get the wrapper. The bulk context and the iterator
keep pointers and positions into a bitmap between two calls. Two threads that work on different
bitmaps meet in the wrappers' counters, and only there.

**What is hard here.** Interleavings of counter operations with reads of the container behind them;
pointers kept across calls that replace what they point to; an operation that must choose, per key,
between writing in place and making a new container; boundaries of 16-bit and 32-bit arithmetic;
representations that must change when a size crosses 4096. Loops that write into the array they
still read, from the front, from the back and by whole vectors. Results that are left unfinished
(lazy unions) while other calls see them. What leaves the process is a trie that is saved and opened
again, and a bitmap in one of its serialized layouts: its reader is given texts that are cut off or
are no bitmap at all, and allocations that fail half way. There are no messages, timeouts, retries
or background threads, so none of the models has any.

## 2. Modules

| module | models | code it stands for |
|---|---|---|
| `CowBitmaps` | sharing, unsharing and the set operations, by several threads | `containers.c` 38-215, `roaring_array.c` 115-182, `roaring.c` 427-1253 |
| `BitmapValues` | abstract: each bitmap is a set of its own | - |
| `BulkContext` | the bulk operations, on top of `CowBitmaps` | `roaring.c` 39-175, 598-630 |
| `BitmapIterator` | the iterator | `roaring.c` 1520-1927 |
| `IteratorCursor` | abstract: a cursor on a set of numbers | - |
| `RunContainer` | the algorithms on sorted runs, as operators | `containers/run.h`, `run.c`, `mixed_negation.c` 235-357 |
| `ContainerKinds` | one container: algorithm and kind of the result of each operation, lazy ones included | `containers.h` dispatch, `convert.c`, `mixed_*.c` |
| `Containers` | one container in its slot, under every operation that may change its kind | `roaring.c` 206-596, 2022-2192 |
| `SortedArrays` | searches, queries and edits of a sorted array of 16-bit values | `array_util.h`, `array.c`, `array.h` |
| `ArrayKernels` | scalar, galloping and vector merges, store by store | `array_util.c`, `array.c` |
| `BitsetWords` | a bitset word by word with its cardinality | `bitset_util.h`, `bitset_util.c`, `bitset.c`, `bitset.h` |
| `InplaceMerge` | the in-place operations of two bitmaps on the arrays of keys | `roaring.c` 712-773, 854-924, 1005-1091, 1159-1253, `roaring_array.c` |
| `KeyArrays` | ranges, flips, offsets and queries over the keys, with the loops of `InplaceMerge` | `roaring.c` 206-322, 1264-1336, 1937-2299, 2660-2835, `roaring_array.c` |
| `LazyUnion` | unions and differences of many bitmaps, with their memory and their queue | `roaring.c` 675-709, 2301-2652, `roaring_priority_queue.c` |
| `SerialFormats` | the byte layouts, as operators | `roaring_array.c` 514-692, `roaring.c` 1401-1485, 2975-3373 |
| `PortableFormat` | the portable writer and the reader with a limit, field by field | `roaring_array.c` 546-866, `roaring.c` 1429-1444 |
| `Dictionary` | abstract: a map from keys to numbers | - |
| `DoubleArrayTrie` | the trie of the prefix matcher | `src/bluebird/matcher/trie/cedar.h` 60-84, 126-251, 268-366, 404-694, `src/bluebird/matcher/prefix_map.cc` 40-62 |
| `CowBitmaps_proofs`, `BulkContext_proofs` | theorems: the heap and the values of bitmaps, both of these with bulk operations | - |
| `BitmapIterator_proofs` | theorems: the iterator's place, the iterator as a cursor | - |
| `ContainerKinds_proofs`, `Containers_proofs` | lemmas on every operator of a container; theorems: one container | - |
| `InplaceMerge_proofs` | theorems: the merge in place | - |
| `PortableFormat_proofs` | theorems: the reader, what it reads back | - |
| `LazyUnion_proofs` | theorems: memory, operands and queue of unions of many | - |
| `MC...` | the small instances TLC checks | - |

The exact lines of each definition are in `map`. The bitmap modules look at one machine at different
distances. `BitsetWords`, `ArrayKernels` and `RunContainer` have the memory of one container;
`ContainerKinds` takes what they compute as sets and chooses between them; `InplaceMerge` and
`KeyArrays` take a container as the set of its low halves and have the arrays of keys; `CowBitmaps`
takes a key as one slot and has who owns what; `LazyUnion` has both kinds and owners. What one
module takes for granted the one below it checks.

### CowBitmaps

State: `slot[<<b, k>>]` is the pointer of bitmap `b` at key `k` (the type code SHARED is "the
pointer is in `Wrappers`"), `cont` and `wrapper` are the heap: what an allocated container or
wrapper holds, `Null` when it is free. `live` is the bitmaps that exist. `edit[t]` and `job[t]` are
the local state of thread `t`: a change to one container, or an operation on whole bitmaps with the
keys it has still to visit.

A step is what an operation does between two accesses to memory another thread can reach. Most
operations need one counter operation per key and are one step per key. The exception is
`shared_container_extract_copy`: it drops its reference, and *then* clones the container behind the
wrapper. `UnshareDrop` and `Clone` are two steps for that reason. A clone from a freed wrapper may
read anything (`Clone`, second disjunct).

A container is the set it holds. Its kind (array or bitset) matters only where a change of kind
replaces the container by another one: `Kind` compares the size with `MaxArray`, which is
`DEFAULT_MAX_SIZE` and 1 in the runs, so that both kinds occur with two values. The order of the
keys is left open (`\E k \in job[t].todo`): a superset of the merge loops' order.

The caller's side is the guard `Available`: a bitmap is in use by one thread at a time, its sources
included, because copying with copy-on-write rewrites the source (`roaring.h:68-88`).

`BitmapValues` says what this should amount to: a function from bitmaps to sets, and calls that take
effect when they are made and return later. `IsBitmapValues` is the refinement. The mapping gives a
bitmap the values it will have when the operation on it has ended (`Outcome`), and a thread the call
it is in (`Call`), so the steps an operation takes after its first one may not change any set: a key
lost half way is seen, and so is a result that another call would have been right to give.

### BulkContext

Extends `CowBitmaps` with `ctx[b]`, the context a caller keeps for bitmap `b`, `many`, the bitmap and
`pos` of a `remove_many` under way, and `usedFreed`, which records that a function went on with
memory it had freed. It runs with one thread: an operation is a step, but `remove_many` takes one
for each value (`BeginRemoveMany`, `RemoveValue`, `EndRemoveMany`), so that `pos` lives from one to
the next. A place among the keys is a number (`Position`), as the array of keys has it.

`add_bulk` and `remove_many` are modelled on shared containers too. `container_add` and
`container_remove` unshare there, and the caller then releases what it had: `RewriteShared` drops
the counter twice, with what follows from that for the other holders, and sets `usedFreed` when the
wrapper was gone after the first time. Behaviour after that is undefined, and `BulkNext` ends there.

`BulkSpec` is the caller `roaring.h:269-279` and `294-296` describe: a context serves one bitmap and
both bulk functions, and ends when another function modifies the bitmap (`Invalidate(Written(t))`;
a const argument is not modified). For bitmaps that share containers that is not enough, and
`CarefulCaller` names what such a caller has to see to beyond it, one rule each:

- `RemovesUnshared`: `remove_many` gets no bitmap with a shared container;
- `AddsUnshared`: `add_bulk` gets no context in which `contains_bulk` has left a shared container;
- `SourcesForgotten`: the const source of a copy, and of an operation that copies the keys of its
  operands, keeps no context.

`BulkValues` runs the caller who keeps all three, `BulkDocumented` the one who keeps none. The
theorems have the rules as a hypothesis. `MCBulkContext` has a specification for each rule that keeps
the other two; in place of `BulkSpec` in `BulkDocumented.cfg`, `RemovesSharedSpec` and
`AddsSharedSpec` violate `MemorySafe`, and `KeepsContextSpec` violates `IsBitmapValues`.

### BitmapIterator

State: a bitmap that does not change (a sequence of containers with key, kind and values), the
iterator's fields, and the last call with what it copied. The kinds `array`, `bitset` and `run` keep
different places (an index, a bit number, a run index) and each has its own code in `advance`,
`previous` and `read`, as in the source; values wrap at `Keys * Lows`, which is 2^32. `IsCursor` is
the refinement of `IteratorCursor`, where the iterator is a number among the values, before them or
after them.

### RunContainer, ContainerKinds and Containers

State: `c`, the container a bitmap has for one key, or `Null`. An array is the set of its numbers, a
bitset is a set *and the cardinality it carries* (the code does not recount it when it sets, clears
or flips a list, so the model follows it through `SetListCard`, `ClearListCard` and `FlipListCard`),
and a run container is its sequence of runs. `RunContainer` holds the algorithms of `run.c` and
`run.h` on that sequence as they are written: the merge loops with `run_container_append` and
`run_container_smart_append_exclusive`, the intersection and difference loops with what is left of
the current run, range insertion and removal by the indices found for both ends, the in-place
negation that reads one run ahead from the memory it writes to, and 16-bit fields (`Run` takes both
modulo `U`). Binary and galloping searches are stated by what they count.

`ContainerKinds` adds the choice of the algorithm and of the kind of the result, which is where the
sizes meet their limits: `DEFAULT_MAX_SIZE` is `MaxArray`, the size of a run is `RunEntryBytes`, and
`arbitrary_threshold` of `mixed_xor.c` and `mixed_andnot.c` is `Threshold`. The actions of
`Containers` are what the operations of `roaring.c` do to the container of one key: single values,
ranges, flips, the four set operations with a container of another bitmap, conversions. The halves
that `add_offset` makes of a container are checked by `OffsetsExact` and are no action, as nothing
converts them; see section 4. `Operands` is the set of containers another bitmap may have at that
key. It is no assumption: with the set operations left out the other actions still reach every
member of it. What in-place forms do to memory is in `CowBitmaps`; here an in-place form and its
twin are one operator, unless their results differ (`InPlaceOr`, which turns a full union of bitsets
into a run container) or the algorithm does (`NegatedInPlace`).

### SortedArrays and ArrayKernels

`SortedArrays` has the binary search, `advanceUntil`, the branchless searches, rank, index, ranges
and the edits of an array container as recursive functions of the variables their loops change.
`ArrayKernels` makes one call at a time on two arrays and steps through it one iteration of a loop
per step. `mem` holds the operands, the output with the capacity its caller provides, and the buffer
on the stack; `r` the places and the phase of the kernel. A vector store writes `W` cells whatever
the number that counts, and the output ends with `W` cells that must stay `Free`. A vector
instruction is modelled by what it does to lanes (`_mm_cmpistrm` in particular stops at a zero,
which the code works around), the carry of the merges by the value kept from the last vector. The
intersection in place has its output in the first operand.

### BitsetWords

State: `words`, a sequence of sets of bits, and `card`. Masks, shifts and partial first and last
words are those of `bitset_util.h`; ranges, lists, list operations with a running cardinality,
offsets by whole and partial words, queries, and the three decoders with the room they need. A
population count is the number of bits.

### InplaceMerge and KeyArrays

`InplaceMerge` has the four in-place operations. State: `x1`, which is read and overwritten, `x2`,
and the loop's `pos1`, `pos2` and `isize`; a step is one turn. `and` and `andnot` (`Compacting`)
write their answer behind the slots they read and cut the array at the end; `or` and `xor`
(`Splicing`) insert and remove slots in front of the slots still to be read. `old` is `x1` as the
call found it. Which container of a pair is written in place is the matter of `CowBitmaps`.

`KeyArrays` starts from the same bitmaps and adds the calls of one bitmap: `add_range` with
`ra_shift_tail` and its loop from the back, `remove_range` with its loop from the front, both flips
with `insert_flipped_container`, `add_offset` with the merge of two halves under one key,
`from_range`; and the queries that walk the keys. Numbers are split into halves as in the code, with
bounds inclusive where the code has them so.

### LazyUnion

State: `mem`, the cells of containers with the number of slots that share each, `bm`, the bitmaps
with a slot for each key, and `call`, a union or difference of a list of bitmaps under way. A bitset
made lazily has the cardinality `Unknown`. A step combines the answer with one more bitmap, or, for
`or_many_heap`, takes the two smallest bitmaps from the heap and puts their union back. The heap is
the array of `roaring_priority_queue.c`, kept by `percolate_down` and `pq_add`. Keys are 0 to
`MaxKey`; the loops over them are `ForKeys` of what the code does with one key (`CombineKey`,
`OrKey`, `ConsumeKey` and the like). The list may name
one bitmap twice, bitmaps may share containers, and a copy of the first may be the last. Whether a
lazy union turns containers into bitsets at once (`bitsetconversion`) is an argument, as in the
code.

### SerialFormats and PortableFormat

A container carries its memory as bytes. `PortableFormat` writes a bitmap header, descriptions,
offsets and containers one after the other; then the reader gets the text or, by mistake, something
else (`Foreign`), cut off at any byte, and takes it field by field. `at` is the reader's pointer and
`readbytes` its count, which the code keeps apart and compares with `maxbytes` at other places than
it advances them; `heap` is what is allocated, `answer` what the half-built bitmap counts, `refused`
whether an allocation has failed. Every allocation may. `Cleared` is `ra_clear` as written: it frees
the containers that are counted, and `wild` is set if one of them is not allocated. `touched` is the
furthest byte read.

The native layout, the frozen layout and the two views that leave the containers in place read only
what a writer has made (they take no limit, or a length the caller vouches for), so they are
functions: `SerialFormats` has the writers and the readers, each with its own reckoning of where
things are. A reader returns the set of its answer, and the empty set where the code returns NULL.

### DoubleArrayTrie

State: `da`, the fields of class `da` as one record: `array` (base and check), `ninfo` (sibling and
first child), `block`, `reject` and the heads of the three lists of blocks; and `dict`, what the
caller has put in, which takes the steps of `Dictionary`. The actions are the calls: `Update`,
`Erase`, `Reopen` (`save`, and `open` in another object, which keeps the array alone) and `List`
(`dump` or `commonPrefixPredict`, which restores the sibling lists when they are missing). The
functions below them take a record and return the next one, under the names of the source:
`PopEnode` and `PushEnode` take a cell from the ring of its block and give it back, `PlaceForOne`
and `PlaceForAll` are the two `_find_place`, `Resolve` moves the children of one of two nodes that
want the same cell.

Nothing is left out of what these functions write, stale contents included: a cell that becomes
empty keeps its block's trial count, a cell that is used again at once keeps its sibling label. The
ring and the lists are followed through their links, as the code does, and never replaced by sets;
`EmptyCellsLinked` and `BlocksListed` say which sets they should be. The build is the one the
matchers use: siblings in order, neither `USE_REDUCED_TRIE` nor `USE_FAST_LOAD`.

`CarefulSpec` is a caller who, once a trie has been opened from a file, does not erase the last key
that begins with some label (section 4 says what happens otherwise), and calls `erase` only when the
block and sibling information is there, which after `open` takes an update: the code has no such
guard.

## 3. Runs

| run | instance | result |
|---|---|---|
| `CowThreads` | 2 threads, 3 bitmaps, 1 key, 2 values | `Counted`, `NoDangling`, `OneOwner`, `SharedContentFrozen`, `SeparateSteps` hold |
| `CowCloneRace` | as `CowThreads` | `CloneSourceLive` is violated: the finding of section 4 |
| `BulkValues` | 1 thread, 2 bitmaps, 2 keys, 2 values | `NoEmptyContainer`, `ShortCutsExact`, `MemorySafe` and the refinement `IsBitmapValues` hold for the caller who keeps the three rules |
| `BulkDocumented` | 1 thread, 2 bitmaps, 1 key, 2 values, arrays of 2 | `MemorySafe` is violated: a finding of section 4 |
| `IteratorMoves` | all bitmaps with at most 2 containers out of 3 keys, 4 low values | `InStep` and the refinement `IsCursor` hold |
| `ContainerOps` | 9 numbers, arrays of at most 4, a run of 3 bytes, threshold 2 | `WellFormed`, `ResultsExact`, `RangesExact`, `NegationFits`, `QueriesExact`, `OffsetsExact` hold |
| `ArrayKernels` | 6 values, vectors of 2, linear search below 2 | `KernelsExact`, `StoresFit`, `UnreadIntact`, `ArraysExact` hold, and every call `Returns` |
| `BitsetWords` | 4 words of 3 bits, lists of at most 2 | `WordRangesExact`, `WordQueriesExact`, `DecodingFits` hold |
| `KeyArrays` | 4 keys of 3 low halves: 256 bitmaps, 32 operands, every range, offset and step | `MergeExact`, `RangeEditsExact`, `KeyedQueriesExact` hold |
| `ManyBitmaps` | lists of at most 4 bitmaps out of 3 and a copy, 2 keys, containers as in `ContainerOps` | `ManyExact`, `MemoryExact`, `QueueInOrder` hold |
| `PortableFormat` | 51 bitmaps of at most 9 containers and 4 other texts, cut at every byte, every allocation failing | `ReadsInBounds`, `CleanedUp`, `RoundTrips`, `ViewsExact` hold |
| `TrieUpdates` | blocks of 4 cells, at most 4 blocks, 4 keys of at most 3 labels, 2 of them erased | `ValidDoubleArray`, `ChildrenLinked`, `EmptyCellsLinked`, `BlocksListed`, `IsDictionary` hold |

What the properties say:

- `Counted`, `NoDangling`, `OneOwner`: counters, pointers and owners agree at every point of every
  interleaving. `SharedContentFrozen`: no step changes a container that stays behind a wrapper.
  `IsBitmapValues`: with all of this, bitmaps behave as separate sets. `SeparateSteps` says the same
  of each step of several threads, as long as none is about to clone a freed container: a clone that
  has read freed memory is arbitrary, but nothing else is. `NoEmptyContainer`: what `is_empty`, the
  iterator and `select` rely on.
- `ShortCutsExact`: the short cut of `add_bulk` writes where a search would have (`ContextAtSlot`);
  that of `remove_many` looks at no key behind the end of the array, where removed ones stay
  (`PositionInside`).
  `MemorySafe`: neither uses freed memory or leaves a bitmap pointing to any. `InStep`,
  `IsCursor`: the places an iterator keeps point to its value, whatever the container, and it moves
  as a cursor does.
- `WellFormed`, `ResultsExact`, `RangesExact`, `QueriesExact`: a container is of a kind its size
  allows, with an exact cardinality, and computes the set operation, whatever the kinds of both
  operands. `NegationFits`: the in-place negation of runs gives what the plain one does and fits in
  the capacity it finds. `OffsetsExact`: a container moved over the end of its key splits into the
  right halves.
- `KernelsExact`, `StoresFit`, `UnreadIntact`: the vector kernels return the set operation, write
  nothing beyond what the caller has provided, and in place overwrite nothing they have still to
  read. `ArraysExact`: searches and edits on every array.
- `WordRangesExact`, `WordQueriesExact`, `DecodingFits`: the same for words; the cardinality is one
  of the queries, as it is kept by adding up differences.
- `MergeExact`, `RangeEditsExact`, `KeyedQueriesExact`: the numbers of the result, in order, with no
  empty container, no gap and no slot twice.
- `ManyExact`, `MemoryExact`, `QueueInOrder`: the union of many is exact and repaired, the operands
  are as they were, no container leaks or is freed while one shares it, and a bitmap of the caller
  is never consumed as a temporary one.
- `ReadsInBounds`, `CleanedUp`: whatever text and cut, and wherever memory runs out. `RoundTrips`,
  `ViewsExact`: the three layouts and the four readers agree on the bitmap.
- `ValidDoubleArray`, `ChildrenLinked`, `EmptyCellsLinked`, `BlocksListed`: the three structures
  that share the cells of a trie are each complete. `EmptyCellsLinked` asks for a right first empty
  cell in every block except block 0 of a trie that has been opened, where the code's is wrong
  (section 4): there it asks for a whole ring. `IsDictionary`: finding and listing give the
  keys put in, with their values and in order.

**Why the bounds are enough.**

*Bitmaps and keys.* An operation has at most three bitmaps, and nothing in `CowBitmaps` relates two
keys except the loops, which visit each key once; `BulkValues` has two keys because the context
compares them and because a position must be able to lie behind the end; what `BulkDocumented`
shows needs one. *Values.* Two values give the empty container, an array of one value and a bitset of
two, so that every change of kind and every removal of an emptied container happens. *Threads.*
Counter operations conflict in pairs; two threads and three bitmaps give a third holder that is in
no operation. *Containers and wrappers* are addresses, not limits of the code: there is one
container per slot and one to spare for a step that replaces one, and with three slots of a key (or
four of two keys) at most two wrappers are in use, as each has two holders when it is made and a
bitmap has one slot per key. *Iterator.* Two containers out of three keys leave a gap before,
between or after them; four low values hold two runs or one run of any place and length, and blocks
of up to five values end inside a run, at its end, at a container's end and past the end of the
bitmap. Values 0 and `Top` (0 and 2^32 - 1 in the code) are in the range. The bitmaps of an instance
are its initial states.

*One container.* `ContainerOps` evaluates every operation on all pairs of the containers over nine
numbers, so each loop of `RunContainer` meets up to five runs that are equal, nested, adjacent,
overlapping or apart, at both ends of the domain. With `MaxArray = 4` there are arrays and bitsets
on both sides of the limit, and the sizes of two arrays may exceed it together while their union
does not. As with the 4 bytes a run has in the code, an array is smaller than a run container of few
numbers, a run container is smaller than an array with one or two longer runs, and a bitset is
smaller than three runs. With `Threshold = 2` each of the three branches on it is taken. As in the
code (4096 of 65536) an array holds less than half of all numbers (`SizesAssumption`), which is why
the opposite of one is a bitset.

*Arrays.* With vectors of two and six values an array has up to three vectors, whole or with one
value behind, so each kernel takes its loop none, one and two times on each side, ends on either
operand, at once or with a rest, and holds the value 0, which the string comparison takes for an
end. With `LinearSearch = 2` (16 in the code) a binary search halves and then counts. All pairs of
arrays are called.

*Words.* Four words have a first, a last and two in between, so a range lies in one word, in two
neighbours or covers whole words, and each of its ends falls on either side of a border and between;
all 4096 sets of twelve bits are reached.

*Keys.* Four keys leave a range two whole keys between its first and its last, and operands keys
before, between, behind and in both. Three low halves let a range begin and end inside a key and
complete, split or empty its container; offsets of up to the whole universe either way move by keys,
by halves, or both. A call is judged against the bitmap it found, so one call per behaviour
(`MaxCalls`) is enough: the bitmaps it may find are all among the inputs. `CHECK_DEADLOCK FALSE` is
there for the same reason. `Ranges` has ends beyond the last number, which the code clamps.

*Many bitmaps.* Three bitmaps are the least with a temporary one meeting a bitmap of the caller,
four with two temporary ones. One key has containers of each kind, alone and on both sides of the
bounds of a lazy union (`LazyLowerBound`, 1024 in the code), among them two bitsets that fill a
container and two that cancel; a second key tells what is copied from what is combined. A call ends
the behaviour, hence `CHECK_DEADLOCK FALSE`.

*Formats.* The cookies and the four containers from which offsets are written
(`NO_OFFSET_THRESHOLD`) are those of the code, and so are the widths of fields. Nine containers need
a second byte of flags. Arrays have at most 3 values (4096) and bitsets 33 bytes (8192), so that a
value of a bitset may need its second byte. Keys 0, 256 and up, and values with a high byte, would
show a swapped or shortened field.

*Trie.* With four cells a block is full after four pushes, and keys collide at once. In
`TrieUpdates` either of two colliding nodes moves, with one child or several, with children of its
own, as the node that update stands on or as its neighbour; placements succeed at the first and at a
later cell of a ring, fail, close a block, skip one that failed before, and try two open blocks;
blocks pass between all three lists for each of the reasons there are. (The branches were counted
one by one with probes. The only one that is never taken is the full block 0, which cannot be: cell
0 counts as empty.) Two of the keys are never erased (`Erasable`), which is what keeps the run
finite in minutes. The keys have different values, and begin with one label, so that the ring of
block 0 is never emptied; the hazards list what happens then.

**Deadlock and fairness.** Deadlock is checked in every run but `KeyArrays` and `ManyBitmaps`, where
a behaviour is one call and ends with it; `PortableFormat` ends in a step of its own (`Ended`). Only
`ArrayKernels` assumes fairness: `WF_vars(Loop)`, that a thread inside a kernel runs on. An
iteration waits for nobody, so this is what any scheduler does; that the caller calls again is not
assumed. `Returns` then says that each of the `while (true)` loops ends. No loop of the code waits
on another thread; elsewhere an operation is a bounded number of steps of its own thread, and that
none is stuck is what the deadlock check gives.

**Mutants.** Each property has a variant of the code that breaks it (comments that begin with
"Variant:"). The variants are not used by any specification; they are there so that a property can
be seen to fail when the code is wrong in the way it is meant to exclude.

## 4. Findings

**With a run.** `shared_container_extract_copy` (`containers/containers.c:191-206`) drops its
reference before it clones the shared container. Another holder that unshares or frees in between is
the last one, takes or frees the container, and the clone reads freed or changing memory
(`CowCloneRace`). The proofs of section 5 hold nevertheless: the heap itself stays consistent, and
it is the values of the cloned container that are undefined.

`BulkDocumented` is about the bulk operations on shared containers, in one thread and by a caller
who does what `roaring.h` asks for. `contains_bulk` puts a shared container into the context as it
is. `container_add` unshares it when `add_bulk` gets that context, and `add_bulk` releases the
reference once more (`roaring.c:112`): the other holder is left with freed memory, or the wrapper is
used after it was freed. `remove_many` does not unshare either, unlike `remove`, and releases what
`container_remove` has released (`roaring.c:617`; `RemovesSharedSpec`). And `roaring_bitmap_copy`
takes a const source but moves its containers behind wrappers; a context that lives across the copy
still points to the bare container, and `add_bulk` changes the copy too (`roaring.c:107`;
`KeepsContextSpec`).

**Further disagreements, read in the code and not shown by a run.** Where a caller can avoid one,
the runs have the caller who does; the guards say which.

- Sharing. `add_offset` by whole keys clones
  a shared container with copy-on-write off, which gives NULL (`roaring.c:2259`), as does
  `ra_append_copy_range` without copy-on-write. `ra_range_uint32_array` unwraps with the address of
  its slot's type code and so overwrites it (`roaring_array.c:445`). `croaring_refcount_dec` without
  atomics compares the pointer with zero (`portability.h:520`). `frozen_size_in_bytes` and
  `frozen_serialize` end in `roaring_unreachable` for a shared container (`roaring.c:2995`, `3085`).
- Offsets. `add_offset` appends the halves of a bitset without converting them
  (`roaring.c:2288-2294`), so that a bitset may hold few values. `container_is_subset` takes a
  bitset for larger than any array "by construction" (`containers/containers.h:702`), and
  `roaring_bitmap_is_subset` is then false for a bitmap and one that holds all its values; the
  portable writer writes its words, and the reader, which knows kinds by cardinality, takes them for
  an array.
- Iterator. One that has run out at `UINT32_MAX` inside a run container does not return that value
  on `previous` (and the mirror case at zero, `roaring.c:1755`), unlike in the other kinds.
- Ranges. `from_range` never ends when the range goes up to 2^32 and the step is 2^16 or more, as a
  32-bit value wraps (`roaring.c:214`). `flip` and `contains_range` clamp the end of a range but not
  a start of 2^32 or more, which wraps (`2100`); `add_range`, `remove_range` and
  `intersect_with_range` narrow their bounds to 32 bits (`2795`).
- Words. `bitset_container_maximum` never looks at word 0 (`bitset.c:1189-1198`), which matters for
  the small bitsets above. `bitset_extract_setbits_sse_uint16`, never called, has the loop guard of
  another width (`bitset_util.c:780`). The assembly of `bitset_set_list` declares no memory clobber
  (`bitset_util.c:860`).
- Trie. After `open`, `_restore_block` takes cell 0, where the root is, for the first empty cell of
  block 0 (`cedar.h:471`). When an erasure then frees a cell of block 0, because a key was the last
  one that begins with its first byte, that cell is linked to cell 0 and `_array[1].base_` is
  overwritten: if the byte 1 begins a key, all keys that begin with it are lost. `_initialize` sets
  the field to 1 ("bug fix for erase").
- `Bitmap64` (`src/bluebird/bits/bitmap64.h`). The comparison of iterators dereferences the inner
  iterator when only one of the two is at its end (about 1768-1780); the iterator's assignment
  leaves its bitmap and its `map_begin` as they were; `move` reports a value when the inner bitmap
  it reaches is empty (about 1745), and empty inner bitmaps can be made, by `addMany` of nothing or
  from an empty `Bitmap`; `--` at the begin followed by `++` skips an inner bitmap. `swap` exchanges
  the maps and not the copy-on-write flag (about 737). `runOptimize` and `removeRunCompression`
  return whether *all* inner bitmaps changed where the comment says at least one (about 1005).

## 5. Proofs

### CowBitmaps_proofs

It proves, for every number of threads, bitmaps, keys, values, containers and wrappers, the theorems
`TypeCorrect`, `CountersExact`, `NoUseAfterFree`, `SingleOwner` and `CopyOnWrite`: the properties of
the run `CowThreads`. They rest on three assumptions, all of them in `CowBitmaps`: bitmaps and keys
are finite sets (so that references can be counted), `Null` is none of the values it is compared
with, and containers and wrappers have different addresses. That `Null` is no set of values and no
call of `BitmapValues` either (`NullContentAssumption`) is used for the refinement only.

None of these properties is inductive alone, for two reasons. The heap properties support each
other: releasing a reference keeps the counter exact only if the slot it is taken from is the only
one the operation writes, and the freed container is nobody else's only because it had one owner.
Hence `HeapInv`, the conjunction of `HeapType`, `Counted`, `NoDangling` and `OneOwner`. And a
thread's local state must be consistent with the heap after steps of the other threads: between
`UnshareDrop` and `Clone` the slot is empty, afterwards it is a private container; a copy writes
only slots that are still empty; a bitmap that does not exist holds nothing; no two threads use one
bitmap. That is `ThreadInv`. `IInv == HeapInv /\ ThreadInv`.

The argument has two layers. The lemmas named `...Heap` say what each heap operation (allocate,
overwrite, release, replace, share, steal, drop) does to `HeapInv`, whoever calls it; the
cardinality of `Holders` is followed there with `FS_AddElement` and `FS_RemoveElement`. `Frame` says
that a step of one thread on bitmaps no other thread uses leaves `ThreadInv` of the others intact.
The lemmas named `...Step` combine the two for every action of `Step`, `NextStep` collects them, and
`Invariance` is the induction.

#### The values of bitmaps

The second half of the module is about values. `StepsSeparate` is `SeparateSteps`, for each step
and without a condition on the steps before it. `SharingUnseen` is `IsBitmapValues`, for every number of threads, bitmaps and keys: however bitmaps
share their containers and however the steps of threads interleave, each call changes the bitmap it
is made on as the function says and no other. The theorem has a hypothesis, `[]CloneSourceLive`,
because the code needs one: with two threads the clone after `UnshareDrop` may read a container that
was freed (`CowCloneRace`), and from then on the bitmap holds anything. With one thread nobody can
free it: `CloneSourceStays` proves the hypothesis, and `SharingUnseenByOne` is the refinement
without it. The argument has three parts.

- `HoldsNow(s, vals)`: the step leaves `vals` in slot `s` and what all other slots hold as it was. A
  lemma per heap operation says so. `CopyOnWrite` (as `FrozenStep`) is what makes it true: another
  slot holds the same values because what is behind its wrapper was not written, or because its
  private container had one owner.
- `Outcome` is read off the operation under way (`OutcomeRule`): a bitmap in no operation holds what
  its slots hold, one that is edited will hold the edited values at that key, one that is worked on
  will hold the result at the keys still in `todo`. This is where `ThreadInv` is needed: no second
  thread has a say about the same bitmap. `OthersKept` says that a step of one thread leaves the
  outcomes of all bitmaps but one as they were.
- The lemmas named `Map...` take each action to a step of `BitmapValues`: what begins an operation
  is the call, with its effect; each later step keeps every outcome (`KeyOutcomes`), the
  last one is the return. `MapStep` collects them.

`ContainersFull` is `NoEmptyContainer` under the same hypothesis (a clone of freed memory may have
no value), `ContainersFullForOne` without it. It is inductive together with `IInv`: a container gets
its values from an operation that looked at the result and frees an empty one, or from another
container. `JobOK` contains, for this proof, that an operation in place has its target for its
first operand.

### BulkContext_proofs

Extends `CowBitmaps_proofs` with the bulk operations, for any number of bitmaps, keys and values. Each
theorem is about `BulkSpec /\ [][CarefulCaller]_bulkVars`: the caller of `roaring.h` who also keeps
the three rules of section 2. None of the rules can be left out, as the three specifications of
`MCBulkContext` show. The module has one thread
(`OneThreadAssumption`).

`ShortCutsRight` is `ShortCutsExact`; `BulkNoUseAfterFree` is `MemorySafe`: `add_bulk` and
`remove_many`, which replace and free containers that they have not looked up, use nothing freed and
leave nothing dangling. `ContextAtSlot` is not inductive: a
context ends at the first step of an operation on its bitmap, and the later steps change slots too.
`ContextInv` adds that a bitmap with a context is in no operation (`Available`), `ManyInv` that the
bitmap of a `remove_many` under way has no context and shares nothing, which lets a removal free the
container it finds. `BulkInv == IInv /\ ContextInv /\ ManyInv /\ usedFreed = FALSE`.
`StepElsewhere` shows that a step changes no slot of a bitmap it neither uses nor is seen to write;
a const source is among those that it may change (`Touched`), and this is where `SourcesForgotten`
is needed. `AddToSlotHeap`, `AtHandHeap` and `RemovePrivateHeap` say what a bulk operation does to
the heap in the terms of the heap lemmas, and `AtHandHeap` is where the context is needed: only
because it is the container of the slot is the old container freed by its one owner.

The second part of the module is about values. `BulkUnseenByOne` is `IsBitmapValues`: `add_bulk` and
`remove_many` beside all other operations change the one bitmap they are called on, as `add` and
`remove` of one value each would. It is the reason for `ContextAtSlot`: the values that `add_bulk`
writes into the container of its context are values of the bitmap because that container is in its
slot and is not shared (`AtHandValues`). With one thread nobody frees what is being cloned
(`BulkCloneSource`).

### InplaceMerge_proofs

`InplaceExact` is `MergeExact` for every set of integer keys, every set of low halves, and all
bitmaps of them. The assumption `MergeAssumption` says that keys are integers, and that the inputs
are arrays of slots in ascending order without empty containers, which is what `MergeExact` and
`RangeEditsExact` say of the bitmaps that calls leave. `MergeExact` speaks of a call that has
returned and is not inductive. `MergeInv` (theorem `MergeInvariant`) says what the array holds half
way, `Halfway`:

- `PositionsOK`: the places lie in the arrays; while `and` and `andnot` run, the array has its old
  length and `isize < pos1`, so what they write is behind what they read;
- `Unread`: from `pos1` on, `x1` is still what the call found, moved by the slots inserted less
  those removed (`Shift`);
- `Separated`: what was read of one array has smaller keys than what was not read of the other,
  without which a key could be met twice or missed;
- `WrittenFirst`: the answer so far is in ascending order, and before everything that is still to be
  read;
- `WrittenExact`: the answer so far is the operation on what was read of both.

A lemma per step shows that the parts it disturbs are kept; the lemmas on `InsertSlot`,
`RemoveSlot`, `SlideDown`, `AppendFrom` and `Downsize` say which slot is where afterwards.

### PortableFormat_proofs

`InBounds` and `Clean` are `ReadsInBounds` and `CleanedUp` for every set of bitmaps whose fields are
bytes, every text and every cut, from `FormatAssumption` (array limit and bitset size are positive)
and `BitmapsAssumption` (bitmaps and other texts are what the types say). The invariant `IInv`
(theorem `ReaderInvariant`) has three parts. `WriteInv`: what is written is a sequence of bytes, so
that what the reader takes from it are natural numbers. `Places` and `PlaceInv`: the pointer and the
count agree at every place of the reader, except between a run container's number of runs and the
runs, where the code has counted two bytes it has not stepped over; the count is at most `maxbytes`;
and since the header has been counted, its keys and cardinalities may be read again at any later
container. `HeapInv`: what is allocated is the bitmap, its arrays if there are containers, and
exactly the containers that are counted. The reader has to allocate, count and only then fill a
container, and the variant that counts one that could not be allocated fails there.

The second part of the module is about what is read. `WrittenIsReadBack` is `RoundTrips` for every
set of bitmaps of up to 65536 containers, every other text and every cut. Besides the two
assumptions above it needs `SlotsAssumption`: a bitset has more values than an array may have and
`BitsetBytes` bytes, an array no more and two bytes each, a run container four bytes a run and fewer
than 65536 runs. The code makes containers so; the one place that does not, the small bitsets of
`add_offset` (`roaring.c:2288`, a hazard), is thereby excluded, and rightly: the reader would take
such a bitset for an array. Three invariants join `IInv`.

- `SizeInv`, of any bytes: at each field the header fields read so far are those that
  `ra_portable_deserialize_size` computes for itself, and at container `k` the pointer is where
  that function begins it (`Starts`). So a read that runs out of bytes or refuses a header is one to
  which that function gives 0, and one that is done has read as many bytes as it gives.
- `TakenInv`, of any bytes: the keys, and each container read, are what kind, cardinality and place
  say (`Taken`).
- `WrittenInv`, of any bitmap: cookie and flags (`HasHead`), keys and cardinalities
  (`HasDescriptions`) and the containers so far (`HasContainers`) are in the buffer, each at its
  place, and stay there when more is written.

None of them says anything of a round trip. The lemmas on `Whole`, which relates a bitmap to all
of its bytes, do: the header read from them is the one that was written (`WholeHeader`, which takes
numbers of 16 and 32 bits apart into bytes and back), a flag is set if and only if its container has
runs (`WholeFlag`: eight of them in a byte, `FlagTaken`), flag and cardinality together give the
kind (`WholeCard`), and kind, cardinality and number of runs give the length, so that every
container is found where it was put (`WholeSize`, `WholeStarts`, `WholeData`); or, in a text that is
cut off, is missed (`WholeIsFound`). `SumUpTo` adds the lengths up: its fold is unfolded once
(`SumUpToIsSums`), after which it goes by `SumUpToStep`.

### BitmapIterator_proofs

`IteratorInStep` is `InStep` for every number of keys, low halves and containers and every limit of
arrays. `SizeAssumption` asks for two low halves at least: with one value in all, 0 and `UINT32_MAX`
would be the same number, and an iterator that has stopped could not tell its two ends apart. The
invariant is `PlaceInv`: the bitmap is one, and the iterator is `Placed`. With a value it is in a
container of the bitmap, at a value of it, and the place it keeps is that of the value, for a run
container a run index below the number of runs (`HasPlace`). Without one it is next to the bitmap,
or inside a run container with the value 0 or `UINT32_MAX`, where it has stopped (`HasNone`).
`InStep` alone is not inductive: it says nothing of an iterator without a value, and does not say
that the run index is one of a run.

- *Places and runs.* A container is a set; `Place` and `Nth` count members, `Begins` and `Ends` are
  the ends of its runs. `NthMember`, `PlaceOrder` and others say that they are inverse to each other
  and ascend. `RunsInTurn` says that the i-th run ends before the next one begins, which is what
  lets an iterator go from the end of a run to the beginning of the next by its index.
- *Moves.* For each kind of container a lemma says where `advance`, `previous`, a search and a read
  go: to the neighbour of the value in its container, to the next container, or nowhere
  (`AdvancedMoves`, `PrecededMoves`, `SoughtMoves`, `ReadSomeMoves`).
- *Rounds.* `ReadFrom` is a recursive function, `ReadFromRounds` says that its equation has a
  solution, and `ReadPlaced` follows the rounds.

All inductions here go by the least number for which a claim fails (`LeastOfNaturals`, from
`NatLessThanWellFounded` and `WFMin`).

#### The iterator as a cursor

The second half of the module is the refinement. `IteratorIsCursor` is `IsCursor`, under the same assumptions: whatever the kinds of the containers
and however calls are mixed, the iterator is a cursor on the values of the bitmap. `StandingOf` is
the number an iterator stands for. `ValuesApart` orders the values of a bitmap by container and
then by low half, `IsUp` and `IsDown` say which number is the nearest one from another on
(`UpIs`, `DownIs`: there is only one). `FirstStands` and `LastStands` show that loading a container
moves to the nearest value when all values before it lie on the other side; `AdvancedStands`,
`PrecededStands` and `SoughtStands` combine this with the moves. A read is followed by `Copied`: so
far the values from the first on that are below what the iterator stands for now have been copied,
in order, and as many as are no longer asked for; each round takes at least one more value, so that
after `n` rounds nothing is asked for or nothing is left.

### ContainerKinds_proofs and Containers_proofs

For every number `U` of low halves, every limit of arrays and every size of a run:
`WellFormedAlways` is `WellFormed`, `ResultsExactAlways` is `ResultsExact`, `RangesExactAlways`
is `RangesExact`, `QueriesExactAlways` is `QueriesExact`, `OffsetsExactAlways` is `OffsetsExact` and
`NegationFitsAlways` is `NegationFits`.
The assumptions are `UAssumption` (there is a low half) and `SizesAssumption` (the
limits are positive, an array has less than half of all low halves, as 4096 of 65536, and the
threshold between an array and a bitset is no larger than an array).

`WellFormed` is the inductive invariant as it stands, because `Operands` says all that an operation
needs of the containers it is given: an array has from 1 to `MaxArray` numbers, a bitset more and the
cardinality it carries is theirs, and runs are `Tidy`: each within the low halves, in order, with a
number between the end of one and the beginning of the next. `Makes(d, S)` says that `d` has
the numbers `S` and says how many they are, and is such a container unless `S` is empty, in which
case the caller frees it. There is a lemma named
`...Makes` for each operation, in the form *operands that the library makes give a container that it
makes, with the numbers of the set operation*. From these the theorems follow.

What a merge loop computes is not said by induction over data, which this prover does not have. A
loop of `RunContainer` is a recursive function of the places in both containers. Each round comes
nearer to the ends (`MeetGoesOn`, `CutGoesOn`), so such a function exists and satisfies its equation
(`MeetSteps`, `CutSteps`). `Meets`, `CutsTo` and the weave of what is left of two run containers say
what its value at a pair of places has to be; it is so at every pair, since otherwise there would be
a pair nearest to the ends at which it is not (`LeastOfNaturals`). One step of a loop is an equation between intervals (`MeetOfTwo`, `CutOfTwo`,
`AppendExclusiveStep`), and `Spaced` carries over to the result because what comes next begins
beyond a number that is in neither. The union and the symmetric difference go through
`run_container_append` and `run_container_smart_append_exclusive`, which change the last run they
wrote (`LastApart`); the lemmas say what is appended to *any* tidy prefix that ends early enough.

Edits in place of one run container (`AddValueExact`, `RemoveValueExact`, `AddRangeExact`,
`RemoveRangeExact`) are all of the form `Spliced(r, a, b, mid)`: runs after `a` up to `b` are replaced
by `mid`. `SplicedValues` says when the result is tidy and which numbers it has, so that what is left
to show of an edit is that the indices it finds are the right ones (`PlaceIs`, `RangePlaces`,
`FirstEndingIs`). `CardIs` shows that the lengths of runs add up to the number of numbers, and
`RunsOfExact` that `RunsOf` gives the tidy runs of a set.

The queries on runs add up what a run or a part of it counts. `SumMeasured` says that such a sum is
the size of the union of the sets that are counted, when no two of them meet; rank, select and the
test for a range (`RankOfExact`, `SelectAtExact`, `ContainsRangeExact`) name those sets. The subset
loop is once more a function of two places: what it should be, that the rest of one is within the
rest of the other, satisfies its equation (`SubsetOn`), and no other function does
(`SubsetRunsExact`). Of an offset, `BuiltRuns` says what runs are if they are given by where they
begin and end; `OffsetLowExact` and `OffsetHighExact` give those of the halves, the run that is cut
included.

The negation in place is compared with the plain one step by step. `Kept` relates its memory after
a turn to what the plain one has by then: that is in front, the next run is the one read ahead, and
the runs after it are still where they were, because a step adds one run at most (`TurnKeeps`). So at
the end it has the runs of the plain one (`NegatedInMemory`). How much memory that took is a matter of
how long the plain one's intermediate results are: one run more than there was, unless a step adds none
(`LengthsGrow`). The four look-ups of the code say that there is such a step (`SomeStepStalls`): exactly
one of the two numbers at a border of the range is there, so a run begins or ends at it, and that run is
joined to the last one, or taken from it, without a run more. This needs to know what the last run is,
which `NegationSteps` gives: the numbers of each intermediate result.

### LazyUnion_proofs

For any number of keys, any containers, any bitmaps that share containers or not, and any lists of
them: `MemoryExactAlways` is `MemoryExact`, `QueueInOrderAlways` is `QueueInOrder`, and `GivenKept`
says what `ManyExact` says of the bitmaps that are combined, that none of them changes. They follow
from one invariant, `Right(H, call)` (theorem `AlwaysRight`). Its assumptions are `LazyAssumption`
(bitmaps are loaded from containers of the three kinds, lists name bitmaps), `SizesAssumption` and
`UAssumption` (limits are positive, and an array holds less than half of all numbers).

- `Sound` says of a heap that every cell is in as many slots as its wrapper counts, or in one if it
  has none; that a slot holds by way of a wrapper exactly if its cell has one; that no slot points
  nowhere; and that what is in a cell is a container (`Typed`). `MemoryExact` is this and `Owns`:
  the bitmaps there are are those given, the answer and those in the queue.
- `Keeps` says that the bitmaps given have their values; it is inductive only with `Sound`, since a
  container written in place may be behind other slots unless the counts are right.
- `Queues` says of the queue that its elements have the sizes that their bitmaps have now, that one
  is temporary exactly if the caller does not have it, that no temporary bitmap is in it twice, and
  that it is a heap. The middle part is what keeps memory right: a temporary bitmap is consumed, and
  could be freed twice.

The proof goes up in four layers. What one slot goes through (`PutNew`, `Freed`, `Unshared`,
`Write`, `CopyKey`, `Moved`) keeps `Sound` and changes no other slot (`Changes`), or only those that
turn into shares of the same container (`Touches`); the cardinality of `Holders` is followed with
`FS_AddElement` and `FS_RemoveElement`. What is done with one key (`CombineKeySound`,
`OrKeySound`, `MergedKeySound` and so on) is made of these. A walk over all keys is done up to some
key (`Walked`); the lemmas named `...Walk` say that `ForKeys` is such a walk, and `WalkLast` is the
induction. Whole calls (`CombinedSound`, `UnionSound` and so on) then say which bitmaps are there
afterwards (`Apart`), and a lemma named `...Right` takes each action through `Right`.

The queue is a theory of its own. `Same` says that one sequence is another rearranged;
`percolate_down`, `create_pq`, `pq_add` and `pq_poll` lose nothing and double nothing (`Sinks`,
`CreateQueue`, `AddedToQueue`, `PolledQueue`), and leave a heap (`SinksInOrder`, `RisesInOrder`)
if sizes are numbers. That they are takes the first part of the module: a size is the sum of what
containers take, so cardinalities must have been counted or be the `Unknown` number, and runs must
be runs of numbers. `Typed` is kept by every lazy operation on containers, through the merges of
runs, which are folds and recursive functions (`MergedIs`, `UnionRunsIs`, `XorRunsIs`).

### Checked by TLC only

Kernels, words, ranges and queries over keys, `ViewsExact`, and the trie. Of
`ManyExact`, that the answer has the right numbers and is repaired. Liveness under fairness (`Returns`) is out of the prover's
reach. What a recursive function or a fold computes can be proved by the least number for which a
claim about it fails, as `ReadFrom`, `Starts` and `SumUpTo` show; the library's theorems on folds
and inductions are of no help there, as they take an operator as a parameter. Every fold has to be
unfolded by hand first, which has not been done for the others (`KeyArrays`, the kernels).

## 6. Not modelled, and why

- Allocation failure outside the portable reader. Several operations handle a NULL from the
  allocator, and some of those paths look wrong (`roaring_array.c:122-139`); they are in the list of
  hazards without a property. In the reader, the growth of a run container (`run_container_read`) is
  taken to succeed, as the code does.
- Vector instructions are modelled by what they do to lanes, at the width `W`; tables of shuffles by
  what they select. The population counts of `bitset_util.h` (Harley-Seal, AVX2, AVX-512) stand for
  the number of bits. The 32-bit merges of `array_util.c` are called by nothing, and `memequals` is
  an equality.
- `container_equals` between two kinds, the capacity of arrays and runs (except in `NegationFits`
  and the kernels), copying values out (`ra_to_uint32_array` is the order of the values,
  `ra_range_uint32_array` is not modelled), `intersect_with_range`, and a step of 2^16 or more in
  `from_range`.
- `shrink_to_fit`: a container that moves is the same container in `CowBitmaps`.
- Addresses that nobody compares. Where an operation makes a new container and frees the one it
  replaces, and the result is of the same kind, `InPlaceKey` (`CowBitmaps`) and `OrKey` and
  `MergedKey` (`LazyUnion`) may use the same cell again: nothing else points to it. A NULL answer
  (`from_range`) is `<<>>`. The scalar `bitset_extract_setbits` takes
  no size of the output (`bitset_util.c:729`): its capacity in `DecodingFits` is the number of all
  bits, which stops nothing.
- The dense bitset (`bitset.c`): a plain array of words that nothing else in the library uses but
  the conversion to it; `bitset_shift_right` by more words than there are wraps (`bitset.c:105`).
- C++ bitmaps: `Bitmap` forwards to `roaring.h`. `Bitmap64` keeps a map from high halves to bitmaps;
  its ranges, its iterator (a map iterator with a `Bitmap` iterator inside) and its serialization
  are not modelled. They were read; what was noticed is in section 4.
- In the trie: callbacks on moved nodes, tracking nodes, `set_array`, a file that cannot be read,
  the growth of the allocation; of the matchers, the room for 64 matches and the UTF-8 length of a
  character (see the hazards). `PrefixMatcher` builds its trie inside an `assert`
  (`prefix_matcher.cc:46`), so with `NDEBUG` it is empty, which is no matter of states either.
  `cedarpp.h`, a variant with tails, is not used by the repository.
- Statistics, printing, the allocator hooks and CPU detection: they read, format or forward.
- The wrong uses that documentation excludes (a bitmap that changes under an iterator, two threads
  that use one bitmap: `roaring.h:841`, `roaring.h:68-88`) are excluded by the guards.

## 7. Plan

Done, in order of importance: sharing (`CowBitmaps` with proofs, the refinement included), the bulk
operations (`BulkContext` with proofs, likewise), the iterator (with proofs, likewise), one
container (`RunContainer`, `ContainerKinds`, with proofs), the trie, the arrays of keys (`InplaceMerge` with
proofs, `KeyArrays`), lazy unions (with proofs), kernels and words, the serialized layouts
(`PortableFormat` with proofs).

What is left:

1. Proofs: the answer in `ManyExact`, from the lemmas of `ContainerKinds_proofs`, the lists of the trie (`ValidDoubleArray`, `BlocksListed`), `StoresFit` for the scalar merges.
2. `Bitmap64`: a map from high halves to bitmaps in the manner of `KeyArrays`, and its iterator as a
   composition with `BitmapIterator` that refines `IteratorCursor`.
3. `DenseBitset`, and failing allocations in `CowBitmaps`.
