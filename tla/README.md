# A TLA+ verification of the hash-join engine

The repository is a column-oriented executor for join plans: it reads a plan
tree of scans and joins, runs the joins in parallel with a purpose-built hash
table, and returns a columnar result.  This directory holds TLA+ models of its
parts, TLC configurations that check them on small instances, and TLAPS proofs
of the facts the design rests on, for every size.

Paths below are relative to the repository.

## 1. Inventory

### Parts, their state and their operations

| Part | Source | State | Operations |
|---|---|---|---|
| Parallel hash join | `src/execute.cpp` | atomic `next_row`; per thread a collector and a local result; the map | `build_phase`, `merge_phase`, `probe_phase`, `merge_results`, `run_unchained` |
| Unchained hash map | `src/hashmap_unchained.hpp` | `directory` (count or range start + filter per slot), `tuples`, `tuple_count` | `resize`, `count_and_tag`, `prefix_sum`, `insert`, `finalize_directory`, `lookup_range`, `operator[]` |
| Slab allocator | `include/slab_allocator.hpp` | level 1 large chunks, level 2 cursor, level 3 small chunks per partition, `counts` | `consume`, `reset`, three allocators |
| Filter thread pool | `include/inner_column.h` | per worker a mutex, a condition variable and three flags; `function`, `num_tasks` | constructor, `run`, `run_loop`, destructor |
| Plan executor | `src/execute.cpp` | the plan tree, one `Context` for all joins | `execute_impl`, `execute_hash_join`, `execute_scan`, `execute` |
| Alternative hash maps | `src/hashmap_{robinhood,hopscotch,cuckoo}.hpp` | a bucket array (two for cuckoo) | `emplace`, `find`, `operator[]`, `reserve`, `rehash` |
| CSV parser | `src/csv_parser.cpp` | four flags and the current field, kept between chunks | `execute`, `finish`, callback `on_field` |
| Row-id pages | `include/column_store_utils.hpp` | columns of pages of 8-byte values or string references, or of the base table's own pages | `my_copy`, `insert`, `materialize`, bitmap helpers |
| Value pages | `include/plan.h`, `include/columnar_utils.hpp`, `src/build_table.cpp` | pages of values, end offsets, characters and a bitmap; runs of pages for long strings | `ColumnInserter`, `to_columnar`, `from_columnar`, `string_from_rep` |
| Loading and caching | `src/build_table.cpp`, `include/inner_column.h` | the caches `table_cache` and `result_cache`; inner tables | `from_csv`, `TableParser::on_field`, `from_inner_to_column`, `copy_scan` |
| Predicates | `src/statement.cpp`, `include/statement.h` | none | `eval` by bitmap and by record, `like_match` |
| Drivers, tests, data | `tests/`, `plans.json`, `job/` | none of their own | - |

### How they interact

`execute` builds a plan's columns (row-id pages that point into the base
tables), walks the plan and runs one join after the other in the thread that
called it.  `run_unchained` forks `NUM_PARTITIONS` threads three times and joins
them each time.  The phases communicate only through memory that the next phase
reads after the join: build threads write one `TupleCollector` each (slab
allocator); merge thread `p` reads partition `p` of all of them and writes its
part of the map; probe threads read the map and write one local result each;
the calling thread concatenates those.  The only shared word that is written
concurrently is the atomic `next_row`.  The `Context` with the collectors is
reused by the next join, after `reset`.  When the root is done, `materialize`
forks threads once more, each of which writes some columns of the answer.

Tables are loaded before that: `from_csv` feeds a file in chunks to the parser,
whose callback fills the columns of an inner table; the filter of the scan is
evaluated over those columns into a bitmap of rows, split over the
`FilterThreadPool` by `run`, a blocking call; then one thread per column writes
the rows that are left as pages.  The inner table, and the pages if there was no
filter, stay in caches for the next call.

### What is hard

* **Merge without locks.** All merge threads do plain read-modify-writes on one
  directory and one tuple array.  That is correct only if the slots of different
  partitions never overlap, which depends on the partition and the slot being
  taken from the same top bits of the hash and on the directory having at
  least as many buckets as there are partitions.
* **Counting before writing.** The scatter writes through cursors obtained from
  counts taken from memory; any disagreement between the two passes runs into
  the neighbour's range or out of the array.
* **Memory reuse.** `reset` frees nothing; the three allocator levels and the
  counters must be reset together or a later join writes into live chunks.
* **Handshakes of the pool.** `run` publishes the work without a lock, and one
  condition variable is used in both directions.
* **Formats.** Pages are written by three writers and read by several readers,
  which recompute lengths and positions from row counts; strings of 8 KB and more
  span pages; a reference to a string holds where it begins, not where it ends.
* **Caches.** Which cache answers a call depends on the calls before it and on
  their filters; the file may have changed.
* **Two evaluations** of one predicate, by bitmap in slices of bytes and by
  record, which differ in how they treat nulls and the bits past the last row.
* **Sequential data structures with displacement** (Robin Hood, hopscotch,
  cuckoo), whose lookups rely on invariants the insertion must restore, and
  **a CSV automaton** resumed at any character.

### What makes each part correct

* Join: the result lists every pair of rows with equal non-null keys exactly
  once, whatever the schedule, the size of morsels and directory, and the side
  the table is built on; every join ends.
* Unchained map: after the merge the directory cuts the tuple array into one
  range per slot; the filter of a slot never turns away a key that is present.
* Slab allocator: it is a family of growing sequences; chunks never overlap; a
  reused context does not allocate without need.
* Pool: `run` applies the function once to every index, and returns; the
  destructor returns; no notification is lost.
* Hash maps: a finite map, through any sequence of insertions and rehashes.
* CSV parser: the fields do not depend on how the input is cut into chunks.
* Executor: every intermediate result has the rows its node denotes, however its
  columns are represented, and the pages of the answer read back as the last one.
* Pages: the data of a page is clear of its bitmap, and no page of short values is
  taken for a part of a long string.
* Loading: a path has one version of its file, and a call answers with the
  records of that version for which the filter holds, record by record.

The hazards, each at its line, with the properties that would catch them, are
in `PROJECT.json`.

## 2. Modules and plan

1. `JoinSpec`, `ParallelJoin`, `MCParallelJoin` - the join and the part of the
   unchained map it uses; `ParallelJoin_proofs` in three parts: types, morsels and
   slots; what is collected and what the merge makes of it; the probe, the result
   and the refinement.
2. `CollectorSpec`, `SlabAllocator`, `MCSlabAllocator`, `SlabAllocator_proofs` -
   one collector with its memory.
3. `PoolSpec`, `FilterThreadPool`, `FilterThreadPool_proofs` - the thread pool.
4. `CSVSpec`, `CSVParser` - the automaton over classes of characters, against a
   definition that reads the whole text at once; all ways of cutting it;
   `CSVParser_proofs`.
5. `IndexSpec` with `RobinHoodMap`, `HopscotchMap`, `CuckooMap` and their MC
   modules - the maps the unchained one replaced; `HashMaps_proofs` for all three.
6. `Pages` - operators only: the writers and the readers of the pages of a column.
   `Pages_proofs` - what they write fits and is read back; for the next two.
7. `PlanExecutor`, `MCPlanExecutor`, `PlanExecutor_proofs` - the recursion over
   the plan, intermediate results, `materialize`.
8. `TableSpec`, `TableLoader`, `MCTableLoader`, `TableLoader_proofs` - `from_csv`
   with its caches, both evaluations of filters, and the column threads.

How they compose.  `ParallelJoin` uses of a collector exactly what
`CollectorSpec` promises (a sequence per partition, appended to by `consume`,
emptied by `reset`), and `SlabAllocator` implements `CollectorSpec`.
`PlanExecutor` takes a join to be one step of `JoinSpec`, which `ParallelJoin`
implements for any order of its output.  `TableLoader` takes an evaluation over
slices to be one step, which is what `PoolSpec`, implemented by
`FilterThreadPool`, promises of `run`, and a file to be the fields that `CSVSpec`
numbers, whatever the chunks.  `PlanExecutor` and `TableLoader` share `Pages`: what one
reads is what `to_columnar` and `ColumnInserter` write.

Nothing is left of this plan; section 5 ends with what is model-checked only.

## 3. The models and the code

### ParallelJoin

One action is one step of one thread on shared memory.  Loops on memory that
only this thread writes, or that nobody writes in the phase, are one action per
row: `Claim` is `next_row.fetch_add` with the test of its result, `ConsumeRow`
one row of `build_phase`, `ProbeRow`/`ProbeTuple` one row and one candidate of
`probe_phase`.  The merge is cut finer, because it is where threads write
shared arrays: `CountTuple` (first pass, `count_and_tag`), `SetRange`
(`prefix_sum` and the write cursor of one slot), `ScatterTuple` (second pass,
`insert`), with `NextCollector`, `EndOfCount` and `EndOfScatter` for the loop
ends.  `CountTuple` and `SetRange` are read-modify-writes that the code does
not make atomic.  They are one action each because the invariant
`MergeRaceFree` says that no two threads are ever about to touch the same cell;
without that invariant the granularity would not be justified.
`JoinBuild`, `Tally`, `ForkMerge`, `JoinMerge`, `JoinProbe`, `Gather` and
`Return` are the main thread between the phases.

| Variable | Code |
|---|---|
| `next_row` | the atomic of that name |
| `collectors[t][p]`, `counts[t][p]` | `con->collectors[t].level3[p]` and `.counts[p]` |
| `total`, `prefix` | `total`, `counts` after the exclusive prefix sum |
| `directory`, `tuples`, `tuple_count`, `write_cursor` | the members and the vector |
| `src`, `at`, `slot`, `cur`, `idx`, `row` ... | locals of the phase functions |

Abstractions.  The hash is a number below `HashSize`, and a shift that keeps the
top bits is a division; key columns are sequences of keys and nulls (their pages
are not modelled; `get_value` is the element).  A filter is the set of its bits.
The threads of a phase start together: a thread that starts late behaves as one
that has not been scheduled yet.  `insert` and `operator[]` throw out of bounds;
the step to `"thrown"` stands for the end of the process.  `Return` clears what
is local to `run_unchained`, so that it is no part of the state.

### SlabAllocator

Addresses are (large chunk, byte offset); memory is the set of stored tuples
with their addresses, and a store removes every tuple it overlaps, so that
aliasing shows as lost data and not as an error of the model.  `Consume` makes
all three levels' steps in the order of the code; `Reset` clears exactly what
`reset` clears, and in particular keeps memory and large chunks.
`ReadPartition` is the loop of `merge_phase` over a partition: from `start` to
`current` by the size of a tuple.

### FilterThreadPool

A critical section is one action, enabled when the mutex is free; a worker
keeps its mutex during its slice, as in the code (`Locked`).  Waiting releases
the mutex atomically; `notify_one` wakes the waiter or is lost; the bounded
`Spurious` wakes anybody for no reason.  `run`'s writes of `function` and
`num_tasks` without a lock are an action of their own, and so are the reads
(`Slice`).  `function` and `num_tasks` are written together, so the model keeps
the latter only.

### CSVParser

One action is one turn of the loop of `execute`, or one of the two resumptions
at its head; the chunk that is left is `rest`.  A text is a sequence of
character classes: the separator, the quote, the backslash, both halves of a
record separator, and `x` for the rest.  `escape` and `has_trailing_comma` are
chosen by `Init`, and handed to `CSVSpec`, whose state carries them.  `EndRecord` is the code that the source has twice, for a
separator in one chunk and for one that was cut.  Calls end with an error or go
on; after an error the callers throw, so the model stops.  The history variables
are the calls of `on_field` and the text.  `CSVSpec` reads the text one
character at a time and never looks ahead: what a quote or a carriage return
meant is decided by the next character.  Which error a faulty text is refused
with may depend on the chunks (a resumed separator does not clear
`after_field_sep_`), which is why `ChunkingInvisible` compares acceptance only.

### RobinHoodMap, HopscotchMap, CuckooMap

One action is one turn of a loop of `emplace`.  A bucket array is a function
whose domain is the buckets with a node, a node is its key (the value travels
with it), a hash is any function.  `rehash` of the first two maps calls
`emplace`, which may call `rehash`: `calls` is the stack of the calls still to
be made, so no recursive operator is needed and a rehash inside a rehash is a step
like any other (no run gets that far, see section 4).  In the cuckoo map `rehash` is a loop of its own, whose references
into the old tables are modelled (`LeaveInOld`, `Assign`): a node that was
inserted leaves there what was in hand last.  That is the behaviour for keys
that a move copies.  `Held` is every key that is in a bucket, in hand or in a
call to be made; mapped to `keys` of `IndexSpec`, it says that no step loses or
invents one.  Two preconditions are the callers': a key is emplaced once, and
only an empty map is reserved (`reserve` drops the nodes and keeps the size).

### Pages

A page is a record of its row count, its items (values, or end offsets), its
characters and its bitmap, the last as the indices of the bits that are set and
the number of bytes that were written; positions in bytes are computed from these
where the code computes them (`DataEnd`, `PageFull`, `PageFits`).  There are three
writers: `ColumnInserter` (`Insert`, `InsertNull`, `Finalize`), whose bitmap is a
buffer that is never cleared, and `to_columnar` and `materialize`, whose bitmap is
a vector; the copies of `unset_bitmap` differ in whether they make that vector
longer, the parameter `grows` (`grow_bitmap` is `to_columnar`'s).  A reader finds the bitmap by the row count alone;
where that is before the bitmap that was written, it takes bytes of the data,
or bytes nobody wrote, for a part of it: `junk`, over which the properties
quantify.  A row that such a bitmap places past the items reads as null in the
model and as whatever bytes follow in the code; `ResultExact` leaves these pages
(`ShortBitmap`) out and `ResultReadsBack` reports them.  Types are INT32 and VARCHAR, those of the workload.

### TableLoader

| Variable | Code |
|---|---|
| `files` | the files, which somebody else may write between calls (`Rewrite`) |
| `table_cache`, `result_cache` | the maps of those names |
| `phase`, `path`, `filter` | where in `from_csv` the call is, and its parameters |
| `field`, `last_record` | the field delivered next; `TableParser::last_record_` |
| `table` | `full_table`, then the `InnerTable` that is read |
| `results` | the bitmap the filter evaluates to |
| `writers`, `at` | per column thread its `ColumnInserter` and the row of its loop |
| `ret_rows`, `ret` | the atomic count of rows, the `ColumnarTable` |

`CopyResult`, `UseTable` and `OpenFile` are the three ways into `from_csv`;
`on_field` is one field, with `add_record` at the end of a record; `Eval` is the
filter, `ConvertRow` and `EndColumn` the steps of a column thread, `Return` the end.
`EvalColumns` is the evaluation by bitmap, for integers cut into the slices of the
pool (`CompareInts`), for strings written over the whole column (`CompareStrings`):
the code slices them too, and each slice reads and writes rows by their number in
the column, so that the slices together are the whole.  `EvalRecord` is the one
by record, which `Table::from_csv` does not use: it is what `Accepted` and thereby
`TableSpec` mean by a filter.  Statements are a set of which each names its
parts, so that the recursion is a function over them.  Strings are sequences of
numbers; RE2 is the relation `LikeMatch`.  A file is a sequence of records of
fields; what becomes of its characters is `CSVParser`.  A field that should be an
integer and is none ends the call (`EndsParse`, `ParseError`), and so does an error
that the parser reports, which is put at the field in whose place it comes.  That
every record has a field per attribute is the callers' precondition
(`LoaderAssumption`): `on_field` takes the type of a column without comparing its
number with the attributes, and the parser only compares the records with each other.

### PlanExecutor

`stack` holds the calls of `execute_impl` with the results of the children each
has so far; `CallChild`, `execute_scan`, `BeginJoin`, `FinishJoin` are their
steps.  An intermediate column is as in the code: pages of `PageValues` values, or,
if it holds integers and none is null, the pages of the base table
(`has_nulls`, `orig_col`), which `get_value` reads by dividing by the row count of
the first page.  A string is a reference (`StringRef`) to the page and the offset
at which it begins; `string_from_rep` looks for the end.  `materialize` is
`StartThreads`, `MaterializeColumn` (one column by one thread, which the invariant
`OneWriter` justifies: nobody else touches that column) and `JoinThreads`.
Values are not encoded into 64 bits: a reference is a record, with the numbers of
table, column and page cut to the ranges of their bit fields.

## 4. Runs

| Run | Instance | Shows |
|---|---|---|
| `join` | 2 threads, morsels of 2 rows, 4 keys (two with equal hash, one in the other partition, one sharing a slot but not a tag), 2 joins one after the other out of 100 pairs of columns of up to 4 rows, directories of 2 to 8 slots; `FairSpec` | all invariants of the join, also with fewer rows than threads; every cursor inside its array when it is used; the scatter never overwrites; nothing of the first join is seen by the second; the refinement of `JoinSpec`; both joins end |
| `slab` | 3 tuples in 2 partitions; chunks of 5 bytes hold two tuples of 2; two small chunks per large chunk; 7 tuples between resets | chunks disjoint, counters right, tails wasted only, no needless malloc, the refinement of `CollectorSpec` |
| `pool` | 3 workers, up to 4 tasks, 2 calls of run, a spurious wake-up, the destructor; `FairSpec` | no lost wake-up, unlocked writes safe, the refinement of `PoolSpec`; `run` and the destructor return |
| `csv_chunks` | texts of up to 5 characters of 6 classes, all chunks, both escapes, with and without trailing comma | the chunks do not matter: the same texts are accepted, with the same numbered fields |
| `loader` | 2 paths, 6 files (two with an error), 4 filters (one of them none), 3 calls, 1 rewriting; 2 pool threads; pages of 17 bytes, bytes of 2 bits | the pages fit, and `from_csv` implements `TableSpec`: whichever cache answers and whatever has become of the file, the pages hold the records of one version that the filter accepts |
| `executor` | 8 plans of up to 3 joins over 4 tables (one empty, one of nulls), 3 threads for up to 4 columns; pages as above, 2 values to a page of an intermediate result | every intermediate result has the rows of its node, columns have one writer, the answer is read back |
| `executor_nulls` | the same | *violated*: a page of the answer that ends in nulls whose byte of the bitmap is missing is read wrongly |
| `executor_long` | one scan of a column with two long strings in a row | *violated*: the first of them is materialised with the second appended |
| `robinhood` | 9 keys with 6 hashes, up to 6 emplaced, capacities from 1 to 16 | `find` is exact, the size counts the nodes, every probe ends, `IndexSpec` |
| `hopscotch` | 8 keys, five of one home in 8 buckets and four in 16; up to 6 emplaced | the hop bits are exact after every move, `find` is, `IndexSpec`, `emplace` returns |
| `cuckoo` | 8 keys, three of which share both buckets; up to 5 emplaced | `find` and the size are exact, nothing is lost while the kicks suffice, `rehash` never starts again |
| `cuckoo_loss` | the same | *violated*: an insertion that gives up loses the node in hand |

The three violated properties are disagreements of the code with its comments
and tests; `PROJECT.json` quotes them under `findings`.  The properties of the
passing run `executor` leave out exactly these cases (`ShortBitmap`,
`LongNeighbours`), which its plans contain or exclude, and say that there are no
others but the empty strings that no loaded table has (`EmptyStrings`).

Why the bounds are enough.  Two threads show every pairwise interleaving of the
phases, and the facts that keep more of them apart are proved for any number.
Four keys realise
the ways two keys can meet: equal, same hash, same slot, different partition.
Columns of up to four rows fill two morsels, the last of them in part.
A collector of 7 tuples fills small chunks, leaves tails, crosses large chunks
and, after a reset, reuses them in another order.  Two runs of the pool are the
least at which flags of an earlier run can be mistaken; three workers make the
caller pass a worker that is early and one that is late.  Five
characters hold a quoted field with an escape and a record separator, or two
records of two fields, and every way of cutting each.  Six keys of a bucket
array of 8 reach the load at which it is rehashed, with probes that wrap around;
the hash values are chosen so that keys that collide in one capacity separate in
the next, some of them only in the one after.  With these keys a rehash finds room
for every node it puts back: no run reaches a rehash inside a rehash, nor, in the
cuckoo map, one that starts again.  The models have these steps, and that they lose
and hide nothing is shown by the theorems alone (`IndexIsImplemented`,
`HopIndexIsImplemented`, `CuckooLosesOnlyInGiveUp` and those about `find`).  Fourteen
kicks are more than a walk over five nodes needs, as 512 are for the tables of
the tests; a walk that cannot end repeats after six kicks, so which node is in
hand when it is given up depends on the limit modulo six, which is the same for
14 and 512.  Pages of 17 bytes
hold two integers and bytes of two bits cut a bitmap every other row, so
that five rows meet every end of a page and of a byte that a page of 8192 bytes has;
a string of 14 characters is long, with a second page of one.  Two paths and three
calls let each cache answer after each kind of filter, for the path that was
rewritten and for the other.  Three threads for one to four columns are fewer
threads than columns, as many, and more.  What does not depend
on the size is proved for every size (section 5).

The runs of the loader and of the executor check no deadlock: a plan that is
done, or calls that are used up, is where they end.

Fairness.  `FairSpec` of the join assumes that every thread that can run
eventually runs, which is what the operating system's scheduler does; no thread
of a join waits for anything but, in the caller, the end of the workers.
`FairSpec` of the pool assumes the same of workers and caller, and that a mutex
contended by a worker and the caller is eventually granted; weak fairness is
enough because a worker releases its mutex for good before it needs the caller
again.  Nobody is assumed to call `run` or the destructor, or to wake up
spuriously.  The hash maps are sequential code: `FairSpec` of the hopscotch
map says that a call that has begun goes on.  Its `emplace` returns only if no
more keys than a neighbourhood holds agree in all bits of their hash, and that
of the cuckoo map only if no three agree in both hashes; otherwise they double
the tables without end.  The keys of the runs meet this.

## 5. Proofs

All proofs are for arbitrary constants that satisfy the modules' named
assumptions (`SizesAssumption`, `DataAssumption`, `PartOfAssumption`,
`PartitionsFinite`, `PoolAssumption`, `PageAssumption`, `PlansAssumption`,
`LoaderAssumption`, `StatementAssumption`, `HashAssumption`, `BoundsAssumption`).

**`ParallelJoin_proofs`, first part.**  The assumption on sizes is that the number of
partitions divides the number of buckets and that this divides the range of the
hash, which holds for powers of two in this order, and that a size of a directory
exists.  The inductive invariant is
`Types`, the part of `TypeOK` that has no bounds, with: which `pc` goes with which stage (`PcByStage`), the morsels in
hand are disjoint and below the cursor (`MorselsDisjoint`), the slot loop of a
thread stays inside its own range (`RangesInside`), every collected tuple lies in
the partition of its hash (`TuplesInPartition`), and a slot's count or cursor
(`CountStored`).  Theorems: `MorselsAreDisjoint`; `SlotsAreOwned`:
two merge threads never touch the same directory entry or write cursor.  The
last rests on an arithmetic lemma, that the slot of a hash lies in the slots of
its partition because both are quotients of the same number (`SlotOfPartition`,
`SlotOwner`).

**Second part.**  First `CollectInv`: every row below the cursor
with a key is collected once or lies in the rest of one morsel in hand; at the
join of the threads nobody has a morsel left, which gives `EachRowCollectedOnce`.
The counting of the merge is by cardinalities of sets of rows: the tuple array is
cut at `Start(s)`, the number of build rows whose slot is below `s` (`Below(s)`), so
that `Start(s + 1) - Start(s)` is the number of rows of slot `s`, and ranges of
different slots are disjoint because `Start` grows.  `TallyExact` says that the
prefix sums are `Start` of the first slot of each partition.  `ThreadExact` says
of one merge thread which tuples its two passes have seen (`src`, `at`), that a
count is the number of those seen in the slot, that a cursor is `Start(s)` and the
number written so far, and that the filter has exactly their tags;
`TableExact` that the cells below the cursors of finished slots hold the tuples
once each.  The invariant `TableInv` is the conjunction.  Theorems:
`MergeIsRaceFree` (no two threads are about to touch the same directory entry,
cursor or cell), `TuplesWrittenOnce`, `DirectoryIsExact`, `LookupsMissNothing`.

**Third part.**  After the merge the tuple array is a bijection
onto the build rows with a key: it has as many cells as there are rows, each row
is in one, and by the pigeonhole principle no cell is left.  `PairsExact` says of
a probe thread that it has emitted exactly the pairs of the rows it has done, and
of the row in hand those of the candidates passed; `Due` is what it still has to
emit; `Gathered` what the caller has concatenated.  Theorems: `NoThreadThrows`,
`EachMatchEmittedOnce`, and `JoinIsImplemented`: the parallel join implements
`JoinSpec`, for any number of threads, any sizes, rows and keys and any hash.

**The bounds.**  `TypeOK` adds to `Types` that every cursor is inside its array
whenever the next step uses it: the row of a morsel in the column (`RowsInside`),
the position of a merge thread in its collector, its slot in directory and
`write_cursor`, the write cursor of the tuple about to be scattered in the tuple array
(`MergeInside`), the compared range in the tuple array (`CompareInside`).  None of this
is tested by the code before the access but the index of `insert` and the end of the
probed range.  `TypeCorrect` follows from the invariants of all three parts: a write
cursor is below the end of its slot because a tuple of the slot is still to come
(`ThreadExact`), which is where the counting and the scattering pass have to agree.

**`SlabAllocator_proofs`.**  That chunks are disjoint is not inductive: a step
could cut a chunk where another lies.  The strengthening says that level 2 has
cut everything below its cursor (`ChunksCut`) and that chunks lie in large chunks
already handed out (part of `TypeOK`); a new chunk is then above all others or
in a large chunk nobody has (`FreshAboveKept`).  With `FilledInside` and
`OldChunksFull` this gives `TypeCorrect`, `ChunksAreDisjoint`, `OnlyTailsAreWasted`.
`ReadInv` adds that tuples in memory do not overlap, that each chunk holds whole
tuples from its start to its cursor, and that reading a partition gives the
sequence of what was stored: `CountsMatch`, and `CollectorIsImplemented`, the
refinement of `CollectorSpec`.  Reading is a concatenation (`FlattenSeq`) and the
counters are added up by a recursive function; both are shown to satisfy their
equations by induction over the natural numbers, taken in the form that every
non-empty set of them has a least element.  `CutInOrder` says that level 2 cuts
large chunks from their start to their end, one after the other, which gives
`MallocsWhenFull`.

**`FilterThreadPool_proofs`.**  `TypeCorrect`, `NoWakeupIsLost`,
`ConfigurationIsWrittenAlone`, from an invariant that relates the caller's place
in its loops to the flags of the workers before and after the loop index.
`PoolIsImplemented` is the refinement of `PoolSpec`: the slices tile the tasks
(`TilesRun`, `TaskInSlice`, `SlicesApart`), and `SliceInv` says that the slice of a
worker that is still to serve is untouched, that of a worker that serves is done up
to its next task, and that of any other worker is done once.

**`TableLoader_proofs`.**  `TypesAreKept`, `PagesAlwaysFit` and
`TablesAreImplemented`, the refinement of `TableSpec`, for any types, files,
statements, calls, sizes of pages and bytes and numbers of threads.  Assumed of sizes
(`PageAssumption`) is that a page has room for one value and that a page of nulls has
fewer rows than the smaller of the two headers; of statements (`StatementAssumption`)
that they are finite trees, that they compare columns there are, and that integers
are compared with literals in the range of `int32_t` (section 6 says why).

The argument follows a value from the file to the page.

* The record in the making is the beginning of the one in the file (`FieldsOK`), and
  the table, read as a list of records (`TableRecords`), is the beginning of the
  file (`ParseOK`).  A row that is pushed has the value pushed and leaves the others
  alone, although a null takes a place among the integers, a string starts where
  the last one ends, and rows share bytes of the bitmap (`PushBitOK`,
  `PushInt`, `PushString`, `AddRecordOK`).
* The bitmap of a statement marks the rows whose records pass it (`StatementMarks`),
  by induction over the height of a statement.  The slices of a comparison meet and,
  flattened, are the whole (`SlicesMeet`, `FlattenSlices`), and what the negation
  does to the bits past the last row is not asked for.
* A column thread at row `i` has inserted the values of its column in those of the
  first `i` records that the filter accepts (`ColumnDone`), and what a reader finds in
  its pages are these values, but for those on the page in hand (`InserterOK`).
  A page is saved as soon as the next row and its bit would not fit (`WriterOK`), and
  is then read as it was written (`SaveReads`), although the bitmap keeps the bits
  of the page before: every insertion sets or clears its own.
* When all threads have ended, every column read from its pages has as many values as
  `ret_rows` counts bits, and they are those of the records chosen (`Answers`).
  The cache keeps this for as long as it keeps the table (`ResultsOK`): the
  version that a path has been read in never changes, and only a call without filter is
  cached.

`EndOfFile` then is `Read`, `Return` and `CopyResult` are `Answer`, `ParseError` is
`Fail`, and every other step of a call stutters.

**`Pages_proofs`.**  Two independent facts about pages of any size.  For
`ColumnInserter`: a page that is saved fits (`WriterOK`); that it is read as it was
written is shown in `TableLoader_proofs`.  For the writers with vectors: `WriteReads`, what `from_columnar` reads is what was
written.  `VectorsOK` is what holds after every value: the values so far are those
read from the saved pages, followed by those of the page in hand (`Written`), whose
items are as many as the bits that are set (`Consistent`).  `DataBits`, the rank of a
row among those that are not null, is what both sides compute: the writer as the
number of its items, the reader by counting bits.  Long strings are cut into pages
and joined again (`ReadsLong`).  Folds are unrolled as in `CSVParser_proofs`.

**`PlanExecutor_proofs`.**  `ColumnsHaveOneWriter`, for any number of threads and
columns: the ranges of columns that `materialize` computes by division are disjoint
and cover all columns.

`ResultIsExact` rests on the two kinds of columns an intermediate result has.  A
column that was inserted value by value is read as those values (`ColumnOfExact`),
because its pages but the last are full; so is a column that was not copied
(`OrigColumnExact`), because pages of integers without nulls all have as many rows as
the first, whatever `PageFull` computes, except the last, which has no more (`IntsOK`).
References are good (`GoodRep`) if they name a column of strings and a page of it where
a string may begin; `my_copy` makes only such ones, and only for these does
`string_from_rep` return characters that `materialize` can write (`StringOfType`); the
references stay the same through joins.  The inductive invariant `ResultsInv` says
that the results on the stack are those of the children whose turn it was, that all
columns of a result are equally long, that the job that runs has the keys of the two
results on top, that a column of the answer has no pages until its thread writes
them, and those of `PagesFor` from then on; that a column has one writer is needed to
see that nothing is appended twice.  Of the plans is assumed what the constructors of
plans ensure (`WellFormed`): attributes name columns of the inputs, with their types;
keys are integers, which `execute.cpp` fixes in the type of its hash map; tables have
values of the types of their columns; references have enough bits; and a null is no
reference.

`IntermediateIsExact`: every result on the stack, and the one `materialize` gets, has
the rows its node denotes, each as often.  The argument has four parts.

* *References lead to strings.*  Where a writer puts a string on a page it ends at its
  offset, and the offsets of strings that are not empty increase, so the first offset
  past the beginning is the end (`ShortStringIs`); a long string is on its first page
  and those up to the next page of text, unless another long one follows
  (`LongStringIs`).  `TextColumn` says this of a column, and `WalkOK` carries it over
  the pages: after page n the references made so far lead to the values read so far,
  and where a long string goes on, the value is still to be completed.  The result is
  `CopyColumnExact`, by induction over the pages.
* *What a node denotes.*  `Denotation` is a recursive function, hence a choice; that
  there is one to choose (`DenotationExists`) is an induction over the nodes, of which
  children come first (`ChildrenBefore`).
* *Listing.*  `ListsBy(in, attrs, result, rows, m, h)`: `h` numbers the m rows of a
  result with the indices of the family `rows`, one to one and onto, and row k of the
  result, its references resolved, is `rows[h[k]]`.  A scan lists with the identity
  (`ScanLists`); a join with the pairs of numbers of its children (`JoinLists`), because
  a null or a key is the same in the result as in the family (`KeysListed`) and the
  output of `JoinSpec` has every pair of matching rows once (`PairsNumber`).  Numbered
  families have the same rows equally often (`NumberedRows`).  Counting rows directly
  would not pass through a join: what is invariant is the numbering.
* *Steps.*  `ListedInv` adds to `ResultsInv` that every result of every call lists the
  rows of its child, and the columns those of the root.  Only `execute_scan` and
  `FinishJoin` make results, and both hand them to `Return`.

The premise excludes two long strings in a row, where the code goes wrong
(`LongStringsApart`), and empty strings, which `TableParser` never makes.

**`HashMaps_proofs`, Robin Hood.**  The code compares and stores PSL as if it were the
distance of a node from its home.  It is only an upper bound of it: a displaced
key goes on from the bucket it is taken from.  The invariant
therefore says that each node is *found*: some probe of `find`, no later than its
PSL, is its bucket, and every bucket before that holds a node that does not end the
probe (`StoredFound`).  The key in hand has a target `t` no nearer than its PSL up
to which all buckets are taken in this way (`HandFound`).  Nor does `Swap` count the
node that it puts down in `max_PSL`; it need not, because the node that it takes up
comes to lie further away, and is counted.  `LoadInv` says that calls that no
longer test the load, those a `rehash` makes, have room, through rehashes inside
rehashes, so that a probe ends (`ProbeIsShort`, by the pigeonhole principle).  Theorems:
`FindIsExact`, `SizeIsExact`, `EveryProbeEnds`, `IndexIsImplemented`.

**Hopscotch.**  The module is instantiated as `Hop`, with the variables that the maps
have in common.  `HopInv` adds to `HopExact` that every node is in the neighbourhood of
its home (`NodesNear`), that the free bucket in hand is free, and the same `LoadInv`.
A move is described by four numbers (`MoveIs`): the home, the distance the node has and
the one it will have, and the free bucket; that two buckets which differ have different
distances from a home (`DistanceBeyond`, `BeyondDistance`) is what keeps the other bits
right in `DisplaceInv` and `HopPlaceInv`.  A move needs a table with more
buckets than a neighbourhood, which follows from the free bucket being further away.
Every rehash, whichever call it makes at the end, is `HopRehashed`.  Theorems:
`HopBitsAreExact`, `HopFindIsExact`, `HopIndexIsImplemented`.

**Cuckoo.**  Instantiated as `Cuckoo`, with two hashes and a bound on the kicks that meet
its assumption.  `TableOK` says that a node lies where the hash of its table says, under
the capacity the tables have now; `OldOK` that what `rehash` leaves in the old tables
stays in them; `CallsOK` when there is a key in hand.  What `rehash` has still to insert
is `Left`: the old buckets after the one it is at, whose node, once taken, is in hand,
and the key of the call.  No step but `GiveUp` takes a key out of the tables,
the hand and `Left`.  Theorems: `CuckooSizeIsExact`, `CuckooFindIsExact`,
`CuckooLosesOnlyInGiveUp`.

**`CSVParser_proofs`.**  `ChunksDoNotMatter`: for texts and chunks of any length.
The invariant says that some state of `CSVSpec` is the parser's (`Same`), and that
reading what is *left* of the text leads from it to where the whole text leads from
the start (`Leads`); left is the rest of the chunk, and before it what the last
chunk ended in the middle of, a carriage return or an escape (`Left`).  A step that
reads a character takes both along; a chunk that ends in the middle moves the
character back from the state to what is left; and the call of `finish` adds the
line feed that the last record lacks, for which `Leads` compares acceptance and
records only.  The separator that a chunk cut does not clear `after_field_sep_`, so
the flag may say more than `CSVSpec` knows: `Stale` says that then the next record
cannot be empty and be accepted, because the column count is not 0.  Reading a text
is a fold, which the library defines by recursion over sets of indices; that it
reads the last character last, and hence a concatenation in order (`FoldConcat`), is
shown by induction over the natural numbers, and so is what `CallsFor`
concatenates.

Model-checked only: liveness (`JoinTerminates`, `CallsReturn`, `EmplaceReturns`; out
of the prover's reach), and that a rehash of the cuckoo map finds a place for every node
(`RehashSucceeds`, which needs a bound on the length of a walk and cannot hold when a
walk over more nodes than there are kicks is possible).

## 6. Not modelled

`PROJECT.json` lists every part with its status.  Not modelled on principle:
file access (`MappedMemory`, and `from_cache`, which maps files of pages), the SQL
front end of the tests, type declarations, the values of the hash function (any
function will do for the properties here), and the weak memory of the C++ machine:
the threads of a phase are joined before anyone reads what they wrote, and inside
a phase `MergeRaceFree` and `OneWriter` leave nothing to be ordered.

Left out of parts that are modelled:

* Values of eight bytes (INT64, FP64), which no column of the workload has and which
  `my_copy` turns into nulls.  `ColumnInserter::insert` tests for four bytes whatever
  the type.
* The encoding of values into 64 bits.  References are records; tables, columns and
  pages with numbers past their bit fields are excluded by `StringsAddressable` and
  `PagesAddressable`, which state the comment on those fields (2^20 pages of a
  column are 8 GB).
* Empty strings.  A field without characters is a null, so no table has any;
  `string_from_rep` could not tell them from their successor.  `IntermediateExact`
  names their absence as a premise.
* Literals of a comparison outside the range of `int32_t` are cut to it by the
  evaluation over columns and compared as doubles by the one over records;
  `StatementAssumption` leaves them out.
* `my_copy` and `from_value_t_to_columnar` of `columnar_utils.hpp`, older copies of
  functions of `column_store_utils.hpp` that unit tests use.
* `emplace`, `reserve` and `create_directory` of the unchained map, which unit tests
  use to build a map from one thread.
* That `finish` of the CSV parser refuses a text whose last character is a closing
  quote: `CSVSpec` takes it over from the code; the run shows that the chunks do
  not matter to it.
* Where `unset_bitmap` of `materialize` writes when it goes past the size of its
  vector.  The byte is in no page, since `set_bitmap` clears what it appends.  For
  the first 2048 rows of a page of integers, or 4096 of strings, it lies in memory
  that the vector has reserved; a page that begins with more nulls than that clears
  bits of memory the vector does not own, with effects outside this model.
