# Gibbon's run-time system in TLA+

Gibbon compiles functional programs to code that works on *packed* values: a
data constructor is a one-byte tag, its scalars and then its fields, one after
the other in memory, with no pointers between them.  The run-time system
(`gibbon-rts/rts-c/gibbon_rts.{h,c}` and `gibbon-rts/rts-ng/src/*.rs`) gives the
compiled code regions to write such values into and takes them back, either by
reference counts at the end of a region's scope or by a generational copying
collector.  Programs with `spawn` and `sync` are compiled to work-stealing code
that builds one value on several workers.  This directory models the run-time
system and that parallel code, checks them with TLC and proves part with TLAPS.

Paths below are relative to `src/gibbon-rts/` unless they start with `src/`.

## 1. Inventory

| Part | State | Operations | Interacts with |
|---|---|---|---|
| Packed values (`gibbon_rts.h` tags and `GIB_STORE_TAG`, `tagged_pointer.rs`) | bytes; tagged pointers: a 48-bit address and a 16-bit distance to the footer of its chunk | read, write, indirection, redirection | everything |
| Region metadata (`GibRegionInfo`, `GibOldgenChunkFooter`) | per region a u16 `refcount`, an `outset`, the first footer; per chunk `reg_info`, `size`, `next` | `init_footer_at`, `add_old_to_old_indirection`, `bump_refcount`, `free_region`, the zero-count tables | barrier, allocation, collector |
| Scoped regions (`_GIBBON_GENGC = 0`) | the same metadata, and the scopes of the program | `gib_alloc_region_on_heap`, `gib_grow_region`, `gib_indirection_barrier`, `gib_free_region` | compiled code (`Codegen.hs`, `FreeBuffer`) |
| Nursery | `heap_start`, `heap_end`, `alloc` | `gib_alloc_region`, growth | compiled code, collector |
| Write barrier, remembered set | remembered addresses of old-to-young pointers | `gib_indirection_barrier` | nursery, metadata, collector |
| Shadow-stacks | read frames (`ptr`, `endptr`) and write frames | push, pop by compiled code; updated in place by the collector | compiled code, collector |
| Minor collector (`gc.rs`) | the worklist, cursors and environments of `evacuate_packed`, `so_env`, `fwd_env` | `garbage_collect`: cauterize, sort and evacuate roots, restore writers, collect regions | all of the above |
| Bump allocators, arenas, sets, dictionaries, vectors, lists | malloc'd memory | sequential wrappers | compiled code |
| Symbol table and gensym | table, a counter | `gib_add_symbol`, `gib_gensym` | compiled code |
| Snapshots, statistics, start-up | files, counters | I/O | - |
| Parallel allocation (`ParAlloc.hs`, `Codegen.hs`, `Cursorize.hs`, `FollowPtrs.hs` under `src/gibbon-compiler/src/Gibbon/Passes/`) | per call: the worker that last spawned from it, where each field starts and ends, which fields have a region of their own; per worker a deque | spawn, the test whether the continuation was stolen, fresh regions, sync, tying the pieces together, readers | the Cilk scheduler, region allocation |
| Compiler (the rest of `src/gibbon-compiler`) | syntax trees | passes | emits the calls above |

What is hard in the collector is not concurrency: mutator and collector take
turns on one thread.  It is that the collector copies values while it destroys their source
(it *burns* what it has copied and leaves forwarding pointers in the holes),
that roots overlap, that a value may be half written when the collection
starts, that it may leave the nursery in the middle (a region that has grown),
and that the metadata of regions is kept in step with pointers by hand.  Each
of these takes a sequence of program and collector steps that no unit test
builds; `PROJECT.json` lists them as hazards with the line where each bites.

In the parallel code the hard part is concurrency.  A field belongs behind the
one before it, whose size is not known while another worker still builds it.
The compiled code finds out by comparing worker ids, without a lock, and either
goes on behind a finished field or builds the next one in a fresh region that a
pointer leads to later.  Which pieces a value ends up in depends on every theft.

What makes each part correct:

* scoped regions: counts are exact, no chunk is handed back while something
  leads to it, none is handed back twice, all are handed back in the end;
* barrier: every pointer from old to young is remembered, every one from old to
  old is in an outset and counted, tags lead to a footer of the target's region;
* collector: the program reads the same values before and after, its cursors
  are out of the nursery with usable ends, no panic and no read of metadata
  that is not there, no region it can reach is handed back, and the collection
  ends;
* parallel allocation: no field is put behind one that is not finished, no two
  workers write to one region, nothing is written twice, whatever was stolen the
  pieces read as the value the sequential program builds, and no call waits for
  ever.

## 2. Modules

| Module | Models | Lines of code it stands for |
|---|---|---|
| `RegionInfo` | counts, outsets and footers as functions over chunks | `gc.rs` `free_region`, `add_old_to_old_indirection` and their helpers |
| `ScopedRegions` | the non-generational build, with the program as environment | `gibbon_rts.c`, `gibbon_rts.h` |
| `ScopedRegionsProofs` | the proofs about it | |
| `PackedMemory` | memory as cells at byte addresses; writing, burning and reading packed values | tags, `write`, `write_bytes`, `TaggedPointer` |
| `Oldgen` | chunks, footers, regions, zero-count tables, barrier and growth as functions from heap to heap | `gc.rs` after line 1641, `gibbon_rts.h` |
| `GenGC` | the compiled program as environment and a minor collection, one action per iteration of the worklist loop | `gc.rs` 132-1583 |
| `Values` | the abstract specification: what the heap promises the program | |
| `OldgenProofs`, `GenGCProofs`, `GenGCSafetyProofs` | the proofs about `Oldgen` and `GenGC` | |
| `ParAlloc` | the code emitted for parallel calls that build one constructor, and the scheduler under it | `ParAlloc.hs`, `Codegen.hs`, `Cursorize.hs` |
| `ParRead` | the readers of such a value, each a cursor or a stack and what one step does to it | `FollowPtrs.hs`, `Cursorize.hs` |
| `TreeBuild` | the abstract specification: the calls of the sequential program return, in some order, with their values | `BinTree.hs` |
| `ParAllocProofs`, `ParMemoryProofs`, `ParProgressProofs` | the proofs about `ParAlloc` | |
| `ParReadProofs` | the proofs about `ParRead` and of the refinement | |
| `MCScopedRegions`, `MCGenGC`, `MCParAlloc` | instances for TLC | |

`GenGC` EXTENDS `Oldgen`, which EXTENDS `PackedMemory`; it instantiates
`Values` for the refinement.  `ScopedRegions` EXTENDS `RegionInfo`, `ParRead`
EXTENDS `ParAlloc` and
instantiates `TreeBuild` for the refinement.  `ParAllocProofs` is extended by
`ParMemoryProofs` (which `ParReadProofs` extends) and by `ParProgressProofs`.  The parallel modules share nothing with the others: the
parallel build turns the generational collector off, and regions are only
allocated while a value is built.

### Memory

Addresses are bytes and cells have the sizes of the code (a footer 24 bytes, a
pointer with its tag 9, a nursery footer 2), since most of what could go wrong
is a write over something else.  `Write` and `Burn` remove every cell they
overlap; a read in the middle of a cell, or where nothing was written, finds
`"garbage"`.  The scalars of a constructor are one id.  Tags lose what does not
fit in 16 bits (`u16`).

`malloc` is a bump allocator that has the addresses from `OldBase` up to the
nursery (the nursery is one large `mmap`, so this is the usual layout, and it
decides that remembered roots are sorted before stack roots); when they are used up
it fails, and the program exits, as the code does.  Memory is never returned, as
the build with `EASY_OLDGEN_COLLECTION` leaves it, and the chunks `free_region`
hands back are recorded in `released`.

A step that ends in `panic!` or reads metadata where there is no footer sets
`fault` and stops the system; `NoFault` says that this never happens (for linear
programs that grow regions it happens in one way, `StopsBehindUndone`).  This is
how undefined behaviour is represented: not followed, but reported.  When the
nursery is cleared its old contents count as overwritten, which is the worst
that can happen to something that still points there.

### The program

A variable holds a read cursor (a frame of the read shadow-stack), a write
cursor (a frame of the write shadow-stack) with the number of values still to
be written there, or both.  Values are written from left to right, which the
compiler arranges (`src/gibbon-compiler/src/Gibbon/Passes/ReorderScalarWrites.hs`).
Before each constructor or indirection comes the bounds check that
`ThreadRegions2.hs` inserts into the function that writes it, with growth when it
fails; after a growth the program may hold either end of the region with the start
of the value.  The check asks for the tag and the scalars of the largest constructor
of the type and for 9 bytes (`Bound`), whatever is written after it: an
`IndirectionE` has no check of its own.  Indirections that are a field, written by
the same function and after the same check as their constructor, and constructors
for which the pass omits the check, are not modelled.

`Sharing` is how the program shares values, and so what it asks of the
collector:

* `"linear"`: a variable is used up when it is taken apart or pointed to;
* `"aliased"`: read cursors may overlap, but an indirection goes to a young
  value that nothing else leads to, and uses its variable up;
* `"free"`: no restriction.

The first two are the assumptions under which the passing runs hold.  The third
is what compiled programs may do; the code fails under it (section 5).

In `WriteIndirection` the program keeps to the barrier's own
`assert(to <= to_footer)` (checked in debug builds).

### The collector

`ev` is the state of the evacuation: the roots left in `queue`, `so_env` and
`fwd_env` for the whole collection, and for the current root the cursors `src`,
`dst`, `dst_end`, the `worklist` and the inlining flags, named as in
`evacuate_packed`.  The code's `match` on the tag is one action per arm:

| Action | Code |
|---|---|
| `StartCollection` | `cauterize_writers`, `sort_roots` |
| `SkipOldRoot`, `evacuate_copied`, `StartRoot` | `evacuate_roots` and the three kinds of root |
| `RestoreSource`, `WriteSkipover` | the other two worklist actions |
| `Uncauterize` | `CAUTERIZED_TAG` |
| `PointToCopy` | `COPIED_TAG`, `COPIED_TO_TAG` |
| `InlineIndirection`, `KeepIndirection` | `INDIRECTION_TAG` into the nursery, into the old generation |
| `AbortInlining`, `ReconcileRegions` | `REDIRECTION_TAG` while inlining, and otherwise |
| `CopyConstructor` | every other tag |
| `FinishRoot` | the end of `evacuate_packed` and its caller |
| `RestoreWriter`, `CollectRegions`, `Resume` | `restore_writers`, the end of `garbage_collect`, and the allocation that asked for it |

The unstable sort of roots and the order in which write frames are restored are
nondeterministic.  `value` is a history variable: what the program can read at
each of its variables, computed from the heap after every step of the program
and when it resumes, and kept through a collection.  Nothing depends on it.

### Parallel allocation

The program is the one of `src/gibbon-compiler/examples/parallel/BinTree.hs`,
`mkTree_par`, with a constructor of any number `Fields` of packed fields: every
field but the last is built by a spawned call and the last by an ordinary one,
then `sync`, then the constructor.  `Inner` is the set of calls above the
cutoff; a call is the sequence of field numbers that leads to it, and a region
is named after the call it was made for.  A value built below the cutoff is one
cell, since only where it starts and ends matters.

| Action | Code |
|---|---|
| `WriteLeaf` | `mkTree_seq` |
| `StartFields` | `letloc` after the tag |
| `Spawn` | `parent_id = GetCilkWorkerNum`, `cilk_spawn` |
| `AfterAvailable` | `not_stolen`: `letavail x; letloc l = after x` |
| `FreshRegion` | otherwise: `letparregion r; letloc l = start r` |
| `CallLast`, `Sync` | the ordinary call, `cilk_sync` |
| `Tie` | what `ParAlloc` inserts after the sync: the bindings put off, and one indirection for each fresh region |
| `Construct` | the constructor; it ends where its last field ends |
| `ReturnCalled`, `ReturnPopped`, `ReturnStolen`, `ReturnRoot`, `Steal` | Cilk |

The scheduler is external and modelled as Cilk documents it: a spawn pushes the
continuation and runs the child, thieves take the oldest continuation, the last
child of a suspended call resumes it.  Bounds checks and growth are left out:
a region is unbounded and a cell has size one.  `Node` keeps where its fields
start, which is what random access nodes (`AddRAN.hs`) record.

## 3. Runs

| Run | Bounds | Shows |
|---|---|---|
| `scoped` | 4 chunks, symmetric, 6 indirections (`MaxIndirections`), counts of two bits (`RefcountMod` = 4) | `RefcountExact`, `NoDangling`, `FreedOnce`, `NullZctUnused` over every order of operations.  Four chunks give a region of two chunks pointed to by another, chains of three regions, cycles, and self-reference.  A count wraps with three referrers: `RefcountExact` (modulo the width) and `FreedOnce` hold behind that as well, `NoDangling` and `NullZctUnused` until it happens (section 5). |
| `growth` | 2 variables, 6 writes, 2 growths, 1 collection, `"linear"`, regions of 57 and 80 bytes, nodes with three fields, empty writers allowed | values preserved (`ImplementsValues`), no fault but one, which the run reaches (`StopsBehindUndone`, section 5), every cursor promoted, nothing that leads into the nursery left (`NurseryLeft`), every collection ends (`CollectionEnds`), and the footers: nobody writes over one (`CollectorKeepsFooters`, `FootersIntact`), and every end a bounds check or a growth is given is one (`EndsAreFooters`); and that footers and the metadata of regions lead to each other (`MetadataLinked`).  Aborted inlining, region reconciliation and restored writers happen only here. |
| `aliased` | 3 variables, 4 writes, no growth, 2 collections, `"aliased"`, regions of 80 and 256 bytes | values preserved, and the metadata: remembered set, tags, outsets, counts, released chunks.  Large regions start in the old generation, so old-to-young pointers exist before the first collection. |
| `par_alloc` | 3 workers, 3 fields, parallel calls `<<>>`, `<<1>>`, `<<2>>` (9 leaves and parts) | `AvailableIsDone`, `JoinedIsComplete`, `OneWriterPerRegion`, `WrittenOnce`, `ImplementsTreeBuild`, `PointersReadBack`, `SomeoneWorks`, `Termination` over every order of steps and thefts.  Three fields, so that a field may follow one with a region of its own, and the last call is not always the only one behind a theft; two levels, so that chains of pointers nest; three workers, so that a call may be stolen while its child is robbed as well and may change hands twice. |
| `par_in_order`, `scoped_leak`, `shared_roots`, `forwarding_env`, `reserve`, `abort_shared`, `untagged`, `empty_writer` | as small as the behaviour allows | section 5 |

In most runs the nursery holds two regions of 80 bytes and some spare bytes, so the
third allocation collects.  A leaf has 48 bytes of scalars: one fits in a region with
room for inner nodes, two do not, so bounds checks fail in the program and in
the collector.  In `growth` an indirection between two regions uses up a variable,
which is then free for the allocation that collects.  A region of 57 bytes is one byte
short of what the first bounds check asks for, so it redirects from its start; and the
nursery has 175 bytes, so that a third such region fits but for its footer.  An inlining
that is undone and a redirection behind it take two growths, and with three fields
to a node six writes are enough for both.  A node has no scalars, so it cannot hold a forwarding pointer
and the run of `COPIED` bytes that leads to one is exercised.  A value needs
three nodes at most to have a field that is inlined, one before and one after
it.  `CHECK_DEADLOCK FALSE` since the program stops when its budget of writes,
growths and collections is used up; `Fuel` (20) is well above the longest value
these budgets allow.

The run `reserve` has a type without scalars, two growths and no collection.  The
region starts with the smallest size for which there is room in a chunk; that only
makes the counterexample short, since the same happens at the end of any chunk.

`ImplementsValues` is the main property: `GenGC` implements `Values`, in which
variables hold sequences of constructors and there are no addresses and no
collections.  The refinement mapping is the history variable `value`; the steps
of a collection stutter, and the step that resumes the program must find the
same values in the new heap.  `ValuesPreserved` is the part of it that the
violation runs check.

`ImplementsTreeBuild` says that spawn and sync may be read as an ordinary call
and nothing: the parallel program implements `TreeBuild`, which has no workers,
regions or addresses.  The result of a call is mapped to what a reader finds at
its location once it has returned, if it goes on at the end of what a pointer
leads to.  A step that returns from a call is a step of `TreeBuild`; all others,
writes of other workers among them, stutter, that is they change no value that
has been returned.  `PointersReadBack` says that a reader that uses the random
access nodes finds the same cells as that reader in order, and
`IndirectionsReadBack` (in `par_in_order`) that the compiled in-order reader does.
`SomeoneWorks` is the half of `Termination` that needs no fairness: until the
program ends some worker has a call to execute.

Fairness.  `Termination` is checked under `FairSpec`: weak fairness of each
worker's `Work`.  A worker with a call to execute is an operating-system thread
in the middle of compiled code, so it goes on; its steps are never disabled by
another worker except by taking a waiting continuation away.  Nothing is assumed
of thieves: they may never steal, steal always, and rob anybody, so termination
does not rest on the scheduler's balancing.  `CHECK_DEADLOCK FALSE` because the
program ends.  The collector needs no fairness: it is one sequential loop, and
`CollectionEnds` says that each of its steps makes a measure smaller, in the
order: roots and writers left; source data that is not burned; actions on the
worklist.  As an action property it is checked on the states that symmetry
identifies, which liveness could not be.  The inner loop of
`evacuate_packed_simpl` is one step of the model and cut off by `Fuel`, so its
termination is not shown.

Every property of a passing run has a *seeded fault*, a variant of one
definition marked so in the modules (a count dropped twice, a forwarding
address not adjusted, a remembered set not filled, ...), with which TLC finds
it violated.

## 4. Proofs

`ScopedRegionsProofs` proves for any finite set of chunks that `ScopedRegions`
satisfies `TypeOK`, `RefcountExact`, `NoDangling`, `FreedOnce` and
`NullZctUnused` (`ScopedTypeOK`, `ScopedRefcountExact`, `ScopedNoDangling`,
`ScopedFreedOnce`, `ScopedNullZctUnused`).  The only assumption on the constants is `ChunkAssumption`:
finitely many chunks, and a count with more than one value.  There may be more
regions than a count can tell apart, and then it wraps, which the code does not
check for.  `TypeOK`, `RefcountExact` (modulo the width of the count) and `FreedOnce`
are proved across that; `NoDangling` and `NullZctUnused` up to the first wrap
(`wrapped`, a history variable), since behind it they are false (section 5).  `MaxIndirections` is arbitrary (with
the square of the number of chunks it bounds nothing), so the theorems do not
depend on it.

The inductive invariant `IInv` adds to the properties what they need:

* `OutsetsOK`: only regions have outsets, and these cover the indirections in memory;
* `UseOK`: until a count has wrapped, counts are those of the outsets themselves, and
  no region under a cursor of the program or in the outset of an unfreed region has
  been freed;
* `FreesOK`: a chunk is handed back at most once, and only with its region.

That an allocated chunk belongs to a region named by its first chunk, that `next`
stays within a region, so the chain from a footer hands back chunks of that region
only, and that cursors, scopes, indirections and outsets name chunks and regions
that have been allocated, is `TypeOK`.

The core step is `gib_free_region`: when the count is one, exactness says that
nobody refers to the region, so nothing held or unfreed leads into it.  The
count of referrers is a cardinality, so lemmas on adding and removing one
element (`AddRemove`) and on remainders (`BumpMod`, `DropMod`: counting a referrer more
or less is `Bump` or `Drop` of the remainder) carry the arithmetic.

`ParAllocProofs` proves for any set of workers, any number of fields and any
set of calls (finite or not) that `ParAlloc` satisfies `TypeOK`,
`AvailableIsDone` and `JoinedIsComplete` (`ParTypeOK`, `ParAvailableIsDone`,
`ParJoinedIsComplete`), with and without `RegionOnSpawn`.  The assumptions are
those `ParAlloc` names: at least two fields, calls are sequences of field
numbers and made by calls, there is a worker, `None` is nothing else.

What has to be shown is that equal worker ids mean that the continuation was
not stolen.  The inductive invariant follows the scheduler:

* `RunOK`: a call is executed by one worker at most, and only while it has
  something to execute;
* `DequeOK`, `NoDuplicates`: a deque holds, each once, spawned calls whose parent
  nobody executes and was last spawned from by the owner of the deque;
* `BackOK`: a worker that is at a spawn of its own is back there because the
  child has returned to it (the theft that would break this gives the parent to
  another worker);
* `ChildOK`, `StartedOK`, `LeavesOK`: the fields are begun in order, and which of
  a call's children have begun follows from where it is;
* `JoinOK`: behind the sync all children are done;
* `LocOK`: what has begun has a place, what has returned an end.

There is one lemma per action, and lemmas for what the actions share: what
`Append`, `Tail` and cutting off the last element do to a deque (`Pushed`,
`Robbed`, `Popped`), and what a finished call changes (`Returning`, `Returned`,
`Taken`).

`ParAllocProofs` also proves, under the same assumptions, that no two workers write
to one region at the same moment (`ParOneWriterPerRegion`).  To `IInv` it adds
`RegionInv`, which speaks of one call and its fields at a time:

* `RootOK`, `UnsetOK`: the root has its own region; a location is not set before
  its field is begun, nor an end before the call returns;
* `PlaceOK`: a field goes to the region of its constructor, to a fresh one, or to
  one made for an earlier field or below it;
* `EndOK`: a value ends in the region it starts in or in one made below it;
* `AfterOK`: a field that was begun while an earlier one was not done starts in a
  region made after that one was begun.

It is inductive without a word about distant calls.  What follows for them is
derived by induction on the depth of the tree (with the least counterexample,
`Least`): a call writes to the region of the one it was made by, or to regions
of earlier siblings, or below itself (`StartsWithin`, `StartsAbove`,
`WritesWithin`).  Of two calls that write at the same time neither made the
other, directly or not, since a call that is building has nothing running below
it; so they are below different fields `i < j` of one call, and `AfterOK` puts
the later one into regions made after `i` was begun, which nothing below `i`
knows (`SiblingsApart`).

`ParMemoryProofs` proves that no cell is written twice (`ParWrittenOnce`), which
the absence of simultaneous writers does not give: a later step could still go
back.  `OffsetInv` says how fields lie within their regions, again of one call
and its fields at a time:

* `OrderOK`: a field starts at or behind the end of each earlier one, or in a
  region made after that;
* `FreshOK`: what follows a field with a region of its own does not go back to
  regions made before it;
* `FieldOK`, `ExtentOK`: fields leave room for the tag, and no value is empty;
* `LastOK`: a constructor ends where its last field does.

The cells a call writes (`Slot`) are its start and the ends of the fields before
those with fresh regions.  They lie behind the start and before the end of every
call that made it (`SlotBelow`, by induction from the call up; `SlotUp` is the
step), so a cell of one call is none of a call below (`SlotAbove`) nor of one
below another field (`SlotAside`): a cell belongs to one call (`SlotOnce`).
`WrittenOK` says that whatever is in memory was written by a call that is past
the step that writes it, and a call passes each such step once.

`ParReadProofs` proves that the pieces of a value are tied together, again for
any number of workers and fields, any tree of calls and any thefts: the readers
agree (`ParPointersReadBack`) and `ParRead` implements `TreeBuild`
(`ParImplementsTreeBuild`).  A reader is a function defined by its own next step,
whose existence is not given: `Iteration` shows that such a function exists for
every machine (of each start it takes the last state, where there is one).  What
a reader finds is then described without the function: `Leads(R, s, t)` says that
whatever contains `s` and is closed under the steps `R` contains `t`, and
`Reads(c, v)` that from any reader at `c` the steps lead behind the value with `v`
appended to what was read.  To the memory invariant it adds

* `AdjacentOK`: a field that has no region of its own starts where the field
  before it ended;
* `TieOK`: past the tie there is at the end of the field before each fresh region
  an indirection to where that region's field starts;
* `ReadOK`: a call that has returned reads as its own cell and what its children
  read as.

`TiesApart` shows that the indirections of one constructor do not fall on one
cell, so the tie, which writes them in one step, keeps them all.  Reading the
fields of a finished constructor one after the other (`NodeReadsInOrder`,
`NodeReadsByPointer`) ends where the constructor ends, and `CompleteReads` turns
this into the value.  Since nothing is written twice, what can be read stays
(`ReadsKept`, `ValueKept`): a step that returns a call is a step of `TreeBuild`
and every other step stutters (`StepReturns`).

`ParProgressProofs` proves that parallel calls never wait for each other for ever
(`ParSomeoneWorks`).  `IInv` says what is true of a call that is executed; here
the opposite is needed, that what could be executed is.  `ProgressInv` adds

* `IdleOK`: a worker without a call has nothing on its deque;
* `YoungestOK`, `YoungerOK`: what a worker executes was reached by ordinary calls
  only from the youngest continuation on its deque, and each continuation from
  the one before it, with nothing running beside them (`CalledFrom`, `Quiet`).
  So a worker that returns from a spawned call whose continuation was stolen has
  an empty deque, and loses nothing when it goes idle;
* `ActiveOK`: who has something to execute is executed or waits on a deque;
* `SuspendedOK`: who is suspended waits for a child that has not returned;
* `BegunOK`: the calls that have begun are of bounded depth.

What a step does to the calls is summarised once (`StepEffect`), what it leaves of
the order on the deques is shown per action (`SpawnOrder`, ..., `StealOrder`).  If
nobody worked, all deques would be empty, and every unfinished call would wait for
an unfinished call below it (`WaitsForDeeper`), which `BegunOK` excludes.

`GenGCProofs` proves of the generational heap that no pointer into the nursery
escapes the collector (`PointersRemembered`: `YoungPointersRemembered` holds always)
and that a collection ends (`EveryCollectionEnds`: `CollectionEnds`), for any
variables, constructors, sizes, budgets and number of collections, and for every
`Sharing`, the unrestricted one that the code fails under in other ways included
(section 5).  The assumptions are those the modules name:

* `InfoTable`, `TagsApart`: constructors have scalars and fields, and no tag of the
  run-time system's;
* `Layout`: `malloc` has addresses below the nursery, and knows no address 0;
* `ChunksFit`: the chunk made after a failed bounds check has room for what did not
  fit, and any region for a pointer and two footers (57 bytes) (`gib_grow_region` and `allocate_next_chunk` do not check again; the code has
  this by the sizes it is built with; without it a writer would run past its chunk);
* `ProgramAssumption`: finitely many variables, regions are asked for in a size that
  `Enough` describes, a pointer fits in the reserve, and one constructor is largest.

All theorems about `GenGC` have one hypothesis on the behaviour, `[]UndoneInPlace`:
an inlining that is undone finds room in its chunk for the indirection that takes
its place.  Where it does not, the copy moves to a new
chunk while `dst_end` stays behind (`gc.rs:1127`), `check_bounds` passes from then on
because it casts a negative difference to `usize`, and what is written is not bounded
by anything (section 5).

Neither property can be had by itself.  A collection copies to where it has found
room and burns what it has copied, and both would go wrong if a write fell on a
remembered pointer, on what another cursor is about to write, or on a forwarding
pointer.  So the inductive invariant `GInv` (`InvariantHolds`) is one of memory that
lies apart, and it is held in the middle of a collection too:

* `HeapOK`, `MemOK`: what lies below the nursery is below what `malloc` has handed
  out; a `GoodCell` outside the nursery is not a pointer into it unless its place is
  remembered; forwarding pointers lead to the old generation; footers tell sizes
  that are enough.  `RememberedOK`: what is remembered is there, an indirection into
  the nursery.  During a collection the remembered places are those of the roots it
  has not come to (`PendingRoots`), and they do not overlap (`Apart`);
* `ProgramOK`: the memory that write cursors in the old generation may still write
  to, their footers included (`Top`), lies apart from that of the others and from
  the remembered places;
* `RootOK`: the copy starts at `orig_dst`, above the remembered places and above all
  writers until it has met a hole, and `dst` and every `RestoreSrc` on the worklist
  (`Actions`) are places in it with room for a pointer.  So undoing an inlining may
  spoil the copy (section 5), but not what is remembered;
* `QueueOK`: the environments lead to the old generation, or back to data to copy.

`OldgenProofs` has what the operations on the heap keep of this (`LaterOld`: nothing
remembered is lost, nothing in the nursery comes back): writing, footers, chunks,
growth, the outsets, the barrier, freeing regions.  In `GenGCProofs` follow, for the
program and then for the collector, one lemma for each action (`AllocFastInv`, ...,
`ResumeInv`); `NextInv` joins them.  That a collection ends comes with it: each of the
lemmas about the evacuation shows that its step burns something intact or leaves a
shorter worklist (`SteppedInv`, `WorkPacked`), each about a root that there is a
root or writer less (`WorkRoots`).
The loop of `evacuate_packed_simpl` is a function on the number of its iterations
(`RunTo`, `SimplLoop`), so what one iteration (`SimplStep`) keeps the loop keeps, by
the least iteration that would not (`Least`).

`GenGCSafetyProofs` takes `GInv` as given and proves, under the same assumptions and
again for every `Sharing`, what a collection leaves behind.

*The nursery* (`NurseryIsLeft`: `NurseryLeft`).  When it has been cleared no read
cursor, no write cursor and no pointer of the old generation leads into it.  `RInv`
says why: until then a read cursor into the nursery is that of a root that is still
in the queue or being evacuated (`ReadersAwaited`).  Each root that is finished sets
its cursor to the copy (`RootReached`), and restoring the writers does the rest.

*The footers* (`FootersAreClear`).  Nothing in the code keeps a write from reaching
the footer of a chunk but the bounds checks before it, and what is overwritten there
(the region, the size, the next chunk) is read much later.  `FInv` says

* `Low`: a footer has its fields, and lies in what `malloc` has handed out;
* `PlacesClear`: a remembered place is clear of footers (`evacuate_copied` and
  `StartRoot` write there);
* `CopyEnds`: `dst_end` is a footer and what is written at `dst` stays below it, for
  the copy and for each `RestoreSrc` on the worklist that it may go back to when an
  inlining is undone.  `Clear(g, d, e)` leaves room for a pointer in front of `e`
  even if what was written before has used up all it asked for;
* `WritersEnd`: the same of the write cursors of the program, if `Wide`.

`OldgenProofs` has what each operation on the heap does to footers: new ones are in
new memory (`Footed`), the others stay (`FootKept`), and a write beside them
(`Beyond`) makes none.  There is one lemma for each action (`AllocFastFoot`, ...,
`ResumeFoot`), joined by `NextFoot`.  From `FInv` follow

* `CollectorLeavesFooters` (`CollectorKeepsFooters`): no step of a collection writes
  over a footer, for any type.  It does not go on where a write cursor of the program
  stopped, so no condition on the type is needed;
* `ProgramLeavesFooters` (`FootersIntact`) and `GrowthFindsFooters`
  (`EndsAreFooters`): nor does the program, and every end that is given to a bounds
  check or a growth in the old generation is a footer.  These two assume `Wide`: a
  bounds check asks for what an indirection *and* a redirection take, 18 bytes.  The
  check that the compiler emits asks for 10 and the scalars of the largest
  constructor, so `Wide` is a condition on the type: eight bytes of scalars somewhere,
  which one `Int` field gives.  The run `growth` has such a type; the run `reserve`
  shows that without the condition the property is false (section 5).

*The metadata of regions* (`MetadataStaysLinked`: `MetadataLinked`, again if `Wide`).
A footer has the `reg_info` of a region and leads to another footer or to none, a
region starts at a footer and has a count of sixteen bits, and outsets and zero-count
tables are of regions: whatever `free_region` and `collect_regions` follow is
metadata, also after two regions have been merged and after an inlining is undone.
The invariant is `Linked`, which adds that the regions are a sequence of records;
since a footer that is written over takes its links with it, each step keeps `Linked`
only because it keeps the footers, and the lemmas say both at once (`FootKept` is
`LinksKept` and that no footer is lost).  The order in which `collect_regions` visits
the zero-count table is not determined, and the fold that stands for it is defined by
a `CHOOSE`: `SweepExists` shows that there is such a sweep of every finite set of regions, and
`CollectLinks` that none of its visits breaks a link.

`FInv`, `RInv` and `Linked` were checked with TLC on the instances of the runs before they were
proved.

Only model-checked so far: of `GenGC`, the type of its state, `NoFault`, `StopsBehindUndone`,
`CursorsPromoted`, `IndirectionsTagged`, `OldPointersCounted`, `NothingLiveReleased`
and the values (`ImplementsValues`).  `TypeOK` is false for constants that the code
excludes only by the sizes it is built with (the distance in a tag may then be
negative), and `NoFault` for memory that runs out.  The others rest on the two
restricted kinds of sharing: under the third several are false (section 5), and
under those two they need that the copy of a value is correct, for every value.
`IndirectionsReadBack` is false (section 5), and `Termination` is a liveness
property.  Out of the prover's reach: what recursive functions such as the walk
over a value compute on every input (induction over data), and liveness.

## 5. Where code and documentation part

Each of these is a run that expects a violation; `PROJECT.json` has the quotes.

* `scoped_leak`: `gib_free_region` only frees a region whose count is one at
  that moment, and nothing comes back to it later.
* `shared_roots`: a value that two indirections lead to leaves a hole `so_env`
  does not know of; evacuation panics.
* `forwarding_env`: `fwd_env` is keyed by where a value ends, and gives where
  its copy ends, but it is read as if it held the starts.
* `reserve`: an indirection is written without a bounds check of its own and takes
  the 9 bytes that the last check reserved for a redirection.  When the type has less
  than 8 bytes of scalars, the next growth writes its redirection over the footer of
  the chunk, and what is known of the region is lost.
* `abort_shared`: undoing an inlining leaves forwarding pointers to the part of
  the buffer that is overwritten.
* `untagged`: `evacuate_copied` writes a pointer without a tag.
* `empty_writer`: a region made for a write cursor that nothing was written at
  yet is taken for dead by the next collection.

* `par_in_order`: after parallel calls the pieces of a value are chained by
  indirections, and each continues at the *end* of what the one before points
  to; the branch of an indirection in a compiled reader continues behind the
  pointer.  With a stolen continuation inside a stolen continuation (or three
  fields and two fresh regions in one call) an in-order reader finds memory
  nobody wrote.  Types with random access nodes are read through those and are
  not affected.  The parallel tests are skipped at present
  (`src/gibbon-compiler/tests/test-gibbon-examples.yaml`: Cilk is not supported
  on newer GCCs), so nothing exercises this.

More of the same kind have no run that expects a violation:

* Undoing an inlining does not reset `inlining_underway` (`gc.rs:1045`), so the flag
  is set for what follows.  At the next redirection of the same root the collector
  looks for an inlining to undo, finds none and panics (`gc.rs:1136`).  The run
  `growth` reaches this, and `StopsBehindUndone` says that linear programs stop the
  collector in no other way.
* Undoing an inlining checks for room at `old_dst` and opens a new chunk if there is
  none, but sets `dst_end` to `old_dst_end`, the footer of the chunk it has left
  (`gc.rs:1127`).  From then on `dst` is behind `dst_end`.  A debug build stops at the
  assertion in `check_bounds` (`gc.rs:1992`); in a release build the cast of the
  difference to `usize` wraps, each later check passes, and the copy may run over
  the footer of the new chunk; a write cursor that stops there is given the old
  end.  The model follows the release build.  In the run `growth` this does not happen
  (`UndoneInPlace`), since each check asks for 32 bytes and the scalars, and what is left
  there is one byte too few only if a chunk is filled exactly that far (or an indirection
  to the old generation has been copied).  With
  `RegionSizes = {57, 81}` and `heap_end = 50230` in `MCGenGCGrowth.cfg`, a node, an
  inlined leaf and an indirection to a region that redirects, TLC finds `UndoneInPlace`
  violated, and with it `CursorsPromoted`, after five writes.
* A merged region (`ReconcileRegions`) stays in the zero-count table and its chain may
  be freed by a second collection.
* Un-cauterizing needs 18 bytes where 9 are reserved (`MCGenGC!TightScalars`).
* A reference count that wraps (`gc.rs:1911`; `+=` on a `u16`, a panic in a debug
  build only) makes `gib_free_region` take a region that is referred to for one that
  is not.  With `RefcountMod` = 3 in `MCScopedRegions.cfg` and without `wrapped` in the
  properties TLC finds a cursor into a freed region, and a region of an outset that
  comes to count zero, which dereferences the null table.

## 6. Not modelled

* Without eager promotion: growth within the nursery, the collection inside a
  growth, and the arm for a redirection that stays in the nursery.
* Non-compact mode, shortcut pointers, cost-based evacuation: variants chosen
  when the run-time system is built.
* Duplicate frames of one write cursor.
* What `is_loc0` reads when it is given an old footer (`gc.rs:986`): the low 16 bits of
  the address `malloc` gave a `GibRegionInfo`.  Metadata has no addresses in the model,
  and the distance that would have to agree with them is taken not to.
* `free_region` returning memory (`EASY_OLDGEN_COLLECTION` off).
* Symbol table, vectors, lists, arenas, dictionaries: sequential helpers.
* Parallel programs of another shape: several spawns before the first field is
  placed, spawned calls that return scalars, vectors sorted in place; bounds
  checks and growth of the regions they write to; the thread-local nurseries of
  a parallel generational build, which the compiler does not enable.
* The compiler, other than the effect of the code it emits.

Most of the lines under `src/` are not implementation: benchmark programs, and C
that the compiler once generated for them (`src/gibbon-compiler/examples`), and
the passes of the compiler, pure functions on syntax trees.  What is stateful is
the run-time system (about 5000 lines in `gibbon_rts.{h,c}` and `gc.rs`, with
half of that helpers for vectors, dictionaries and I/O) and the code that some
passes emit; the models cover the parts of those that the table above names, so
their share of all lines is small and cannot be made large.

## 7. State and open work

Done: every component listed in section 2, with the two refinements
(`ImplementsValues`, `ImplementsTreeBuild`), and the proofs of section 4.

Open, in the order in which it would say most:

1. Proofs.  Counts above outsets after `add_old_to_old_indirection`, as an addition to
   `Linked`; then `OldPointersCounted` for programs without an
   aborted inlining; the shape of values in `Values` (a value ends in a hole exactly
   while it is incomplete).
2. Model.  Duplicate write frames; lazy promotion with its growth path; indirections
   that are a field, and constructors without a check; the symbol table's gensym
   rule; tagged pointers as bit fields, checked against their inverse; spawns that
   are not followed by a field.
