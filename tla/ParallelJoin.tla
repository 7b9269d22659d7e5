---------------------------- MODULE ParallelJoin ----------------------------
(***************************************************************************)
(* MyJoinAlgorithm::run_unchained (src/src/execute.cpp): one hash join,    *)
(* executed by NumPartitions threads in three fork/join phases.            *)
(*                                                                         *)
(*   build  every thread claims morsels of the build column from the       *)
(*          shared cursor next_row and consumes their tuples into its own  *)
(*          TupleCollector, split by the top bits of the hash;             *)
(*   merge  thread p reads partition p of EVERY collector and fills its    *)
(*          part of the directory and of the tuple array, without a lock;  *)
(*   probe  every thread claims morsels of the probe column and writes the *)
(*          matches to its own local result.                               *)
(*                                                                         *)
(* Between the phases the main thread joins all workers.  One action is    *)
(* one step of one thread on shared memory; loops that touch only memory   *)
(* of the thread itself, or memory nobody writes in that phase, are one    *)
(* action per row.  The 64-bit hash is an element of 0..HashSize-1; the    *)
(* filter is the set of its bits.                                          *)
(***************************************************************************)
EXTENDS Integers, Sequences, FiniteSets

CONSTANTS
  NumPartitions,  \* NUM_PARTITIONS: threads, and partitions of the hash range
  PageRows,       \* ELEMENTS_PER_PAGE: rows of a morsel
  Keys,           \* the non-null join keys
  Null,
  HashSize,       \* number of hash values (2^64)
  Hash,           \* compute_hash, [Keys -> 0 .. HashSize - 1]
  FilterBits,     \* the bits of a directory filter
  Tag,            \* tag_from_hash, [0 .. HashSize - 1 -> SUBSET FilterBits]
  DirectorySizes, \* the powers of two from NUM_PARTITIONS on
  Jobs,           \* the joins a plan may ask for: [left, right, build_left]
  MaxJoins        \* bound: joins executed one after the other

Threads == 0 .. NumPartitions - 1

\* In the code NUM_PARTITIONS, the bucket count and the range of the hash are
\* powers of two, in this order: each divides the next.
ASSUME SizesAssumption ==
  /\ NumPartitions \in Nat \ {0}
  /\ PageRows \in Nat \ {0}
  /\ HashSize \in Nat \ {0}
  /\ DirectorySizes \subseteq Nat \ {0} /\ DirectorySizes # {}
  /\ \A b \in DirectorySizes :
       \E s, w \in 1 .. HashSize : b = NumPartitions * s /\ HashSize = b * w

ASSUME DataAssumption ==
  /\ Null \notin Keys
  /\ Hash \in [Keys -> 0 .. HashSize - 1]
  /\ Tag \in [0 .. HashSize - 1 -> SUBSET FilterBits]
  /\ Jobs \subseteq [left : Seq(Keys \cup {Null}), right : Seq(Keys \cup {Null}),
                     build_left : BOOLEAN]
  /\ MaxJoins \in Nat

VARIABLES
  stage,         \* of the main thread, named after the phase it has forked
  job,           \* the current (or last) join
  joins,         \* joins begun so far
  next_row,      \* the atomic morsel cursor
  pc,            \* what each thread does next
  row, row_end,  \* per thread: the rest of its morsel is row .. row_end - 1
  collectors,    \* collectors[t][p]: level3[p] of thread t, in insertion order
  counts,        \* counts[t][p]: TupleCollector::counts
  tally,         \* loop indices <<i, j>> of the main thread
  total, prefix, \* tuples in all, and before each partition
  bucket_cnt, directory, tuples, tuple_count, \* HashMapUnchained
  write_cursor,  \* per slot: where its next tuple goes
  src, at,       \* per thread: next tuple is collectors[src][p][at]
  slot, cur,     \* per thread: next slot of its range, and its first index
  idx, idx_end,  \* per thread: the rest of the range a probe is comparing
  local_results, \* per thread: pairs <<left row, right row>>
  results        \* the result of the join

jobVars    == <<job, joins>>
morselVars == <<next_row, row, row_end>>
slabVars   == <<collectors, counts>>
tallyVars  == <<tally, total, prefix>>
mapVars    == <<bucket_cnt, directory, tuples, tuple_count, write_cursor>>
mergeVars  == <<src, at, slot, cur>>
probeVars  == <<idx, idx_end, local_results>>
vars == <<stage, pc, jobVars, morselVars, slabVars, tallyVars, mapVars,
          mergeVars, probeVars, results>>
-----------------------------------------------------------------------------
(* Columns, hashes and tuples.                                             *)

get_value(column, r) == column[r + 1]

BuildColumn == IF job.build_left THEN job.left ELSE job.right
ProbeColumn == IF job.build_left THEN job.right ELSE job.left

Tuples == [key : Keys, value : Nat, hash : 0 .. HashSize - 1]

BuildTuple(r) ==
  LET key == get_value(BuildColumn, r)
  IN  [key |-> key, value |-> r, hash |-> Hash[key]]

\* The mark of a cell that resize(n) has made and insert has not yet filled.
\* The code has zeros there, and 0 is a possible key; the mark equals no tuple
\* of a column, so that a cell left unwritten shows.
DefaultTuple == [key |-> Null, value |-> 0, hash |-> 0]

\* hash >> shift, for the log2(NumPartitions) or log2(buckets) top bits.
partition_of(hash) == hash \div (HashSize \div NumPartitions)

bucket_index_from_hash(hash, buckets) == hash \div (HashSize \div buckets)

\* First slot of partition p: (p << k) / NUM_PARTITIONS.
FirstSlot(p) == (p * bucket_cnt) \div NumPartitions

EmptyEntry == [start |-> 0, filter |-> {}]

\* Per-thread values at the fork of a phase.
Each(v) == [t \in Threads |-> v]

-----------------------------------------------------------------------------
(* run_unchained up to the first fork.                                     *)

\* Faulty variant: the shared context is not cleared.
reset_Forgotten == UNCHANGED slabVars
\* Context::reset: every collector, its partitions and its counters.
reset ==
  /\ collectors' = Each(Each(<<>>))
  /\ counts' = Each(Each(0))

Begin(j) ==
  /\ stage \in {"idle", "done"}
  /\ joins < MaxJoins
  /\ joins' = joins + 1
  /\ job' = j
  /\ reset
  /\ next_row' = 0
  /\ results' = <<>>
  /\ stage' = "build"
  /\ pc' = Each("claim")
  /\ UNCHANGED <<row, row_end, tallyVars, mapVars, mergeVars, probeVars>>

(* Morsels: the same loop in build_phase and probe_phase.                  *)

MorselRows == Len(IF stage = "build" THEN BuildColumn ELSE ProbeColumn)

MorselEnd(start, rows) ==
  IF start + PageRows > rows THEN rows ELSE start + PageRows

\* Faulty variant: the cursor advances by one row, not by one morsel.
MorselStride_Row == 1
MorselStride == PageRows

\* next_row.fetch_add and the test of its result.
Claim(t) ==
  /\ stage \in {"build", "probe"}
  /\ pc[t] = "claim"
  /\ next_row' = next_row + MorselStride
  /\ IF next_row >= MorselRows
       THEN /\ pc' = [pc EXCEPT ![t] = "exit"]
            /\ UNCHANGED <<row, row_end>>
       ELSE /\ pc' = [pc EXCEPT ![t] = "rows"]
            /\ row' = [row EXCEPT ![t] = next_row]
            /\ row_end' = [row_end EXCEPT ![t] = MorselEnd(next_row, MorselRows)]
  /\ UNCHANGED <<stage, jobVars, slabVars, tallyVars, mapVars, mergeVars, probeVars, results>>

\* Faulty variants: the loop stops one row early; the loop does not advance.
NextRow_Short(t) ==
  /\ row' = [row EXCEPT ![t] = @ + 1]
  /\ pc' = [pc EXCEPT ![t] = IF row[t] + 2 < row_end[t] THEN "rows" ELSE "claim"]
  /\ UNCHANGED <<next_row, row_end>>
NextRow_Stuck(t) == UNCHANGED <<pc, morselVars>>
\* The loop header: on to the next row, or to the next morsel.
NextRow(t) ==
  /\ row' = [row EXCEPT ![t] = @ + 1]
  /\ pc' = [pc EXCEPT ![t] = IF row[t] + 1 < row_end[t] THEN "rows" ELSE "claim"]
  /\ UNCHANGED <<next_row, row_end>>

\* build_phase for one row: skip a null, else TupleCollector::consume.
ConsumeRow(t) ==
  /\ stage = "build"
  /\ pc[t] = "rows"
  /\ IF get_value(BuildColumn, row[t]) = Null
       THEN UNCHANGED slabVars
       ELSE LET tuple == BuildTuple(row[t])
                part  == partition_of(tuple.hash)
            IN  /\ collectors' = [collectors EXCEPT ![t][part] = Append(@, tuple)]
                /\ counts' = [counts EXCEPT ![t][part] = @ + 1]
  /\ NextRow(t)
  /\ UNCHANGED <<stage, jobVars, tallyVars, mapVars, mergeVars, probeVars, results>>
-----------------------------------------------------------------------------
(* The main thread between build and merge: prefix sums, directory size.   *)

Exited == \A t \in Threads : pc[t] = "exit"

JoinBuild ==
  /\ stage = "build"
  /\ Exited
  /\ stage' = "tally"
  /\ tally' = <<0, 0>>
  /\ total' = 0
  /\ prefix' = Each(0)
  /\ UNCHANGED <<pc, jobVars, morselVars, slabVars, mapVars, mergeVars, probeVars, results>>

\* Faulty variant: the two statements of the prefix loop are swapped.
PrefixOf_Swapped(i, j) ==
  IF j + 1 = NumPartitions THEN [prefix EXCEPT ![i] = total + counts[j][i]] ELSE prefix
\* prefix[i] = total, before the counts of partition i are added.
PrefixOf(i, j) == IF j = 0 THEN [prefix EXCEPT ![i] = total] ELSE prefix

\* One turn of "counts[i] += con->collectors[j].counts[i]", fused with the
\* loop that turns the counts into prefix sums.
Tally ==
  LET i == tally[1]
      j == tally[2]
  IN  /\ stage = "tally"
      /\ i < NumPartitions
      /\ total' = total + counts[j][i]
      /\ prefix' = PrefixOf(i, j)
      /\ tally' = IF j + 1 < NumPartitions THEN <<i, j + 1>> ELSE <<i + 1, 0>>
      /\ UNCHANGED <<stage, pc, jobVars, morselVars, slabVars, mapVars, mergeVars,
                     probeVars, results>>

\* size_t(total / LOAD_FACTOR) with LOAD_FACTOR = 0.65
LoadedSlots(n) == (n * 20) \div 13

\* Faulty variant: without "if (buckets < NUM_PARTITIONS)".
BucketCounts_NoFloor(n) ==
  { b \in {1} \cup DirectorySizes :
      /\ LoadedSlots(n) <= b
      /\ \A c \in {1} \cup DirectorySizes : LoadedSlots(n) <= c => b <= c }
\* The smallest power of two that is neither below the load nor below
\* NUM_PARTITIONS (a set of one element).
BucketCounts(n) ==
  { b \in DirectorySizes :
      /\ LoadedSlots(n) <= b
      /\ \A c \in DirectorySizes : LoadedSlots(n) <= c => b <= c }

\* HashMapUnchained(buckets), resize(total), write_cursor, fork of the merge.
ForkMerge ==
  /\ stage = "tally"
  /\ tally[1] = NumPartitions
  /\ \E b \in BucketCounts(total) :
       /\ bucket_cnt' = b
       /\ directory' = [s \in 0 .. b |-> EmptyEntry]
       /\ write_cursor' = [s \in 0 .. b - 1 |-> 0]
  /\ tuples' = [i \in 0 .. total - 1 |-> DefaultTuple]
  /\ tuple_count' = 0
  /\ stage' = "merge"
  /\ pc' = Each("count")
  /\ src' = Each(0)
  /\ at' = Each(1)
  /\ slot' = Each(0)
  /\ cur' = Each(0)
  /\ UNCHANGED <<jobVars, morselVars, slabVars, tallyVars, probeVars, results>>
-----------------------------------------------------------------------------
(* merge_phase of thread p.                                                *)

\* The tuple thread p reads next, while its loops over collectors run.
HasTuple(p) == at[p] <= Len(collectors[src[p]][p])
NextTuple(p) == collectors[src[p]][p][at[p]]
NextSlot(p) == bucket_index_from_hash(NextTuple(p).hash, bucket_cnt)

\* count_and_tag: two read-modify-writes of one directory entry.
CountTuple(p) ==
  /\ stage = "merge"
  /\ pc[p] = "count"
  /\ HasTuple(p)
  /\ directory' = [directory EXCEPT ![NextSlot(p)] =
                     [start  |-> @.start + 1,
                      filter |-> @.filter \cup Tag[NextTuple(p).hash]]]
  /\ at' = [at EXCEPT ![p] = @ + 1]
  /\ UNCHANGED <<stage, pc, jobVars, morselVars, slabVars, tallyVars, bucket_cnt,
                 tuples, tuple_count, write_cursor, src, slot, cur, probeVars, results>>

\* The tuples of this collector are done, and another collector follows.
NextCollector(p) ==
  /\ stage = "merge"
  /\ pc[p] \in {"count", "scatter"}
  /\ ~HasTuple(p)
  /\ src[p] + 1 < NumPartitions
  /\ src' = [src EXCEPT ![p] = @ + 1]
  /\ at' = [at EXCEPT ![p] = 1]
  /\ UNCHANGED <<stage, pc, jobVars, morselVars, slabVars, tallyVars, mapVars,
                 slot, cur, probeVars, results>>

LastCollectorDone(p) ==
  /\ stage = "merge"
  /\ ~HasTuple(p)
  /\ src[p] + 1 = NumPartitions
  /\ src' = [src EXCEPT ![p] = 0]
  /\ at' = [at EXCEPT ![p] = 1]
  /\ UNCHANGED <<stage, jobVars, morselVars, slabVars, tallyVars, mapVars,
                 probeVars, results>>

\* Faulty variant: the loop over the slots includes the next partition's first.
RangesOrScatter_Inclusive(p, s) ==
  IF s <= FirstSlot(p + 1) THEN "ranges" ELSE "scatter"
RangesOrScatter(p, s) == IF s < FirstSlot(p + 1) THEN "ranges" ELSE "scatter"

EndOfCount(p) ==
  /\ pc[p] = "count"
  /\ LastCollectorDone(p)
  /\ slot' = [slot EXCEPT ![p] = FirstSlot(p)]
  /\ cur' = [cur EXCEPT ![p] = prefix[p]]
  /\ pc' = [pc EXCEPT ![p] = RangesOrScatter(p, FirstSlot(p))]

\* prefix_sum: the count of a slot becomes the start of its range.
SetRange(p) ==
  LET s == slot[p]
  IN  /\ stage = "merge"
      /\ pc[p] = "ranges"
      /\ directory' = [directory EXCEPT ![s].start = cur[p]]
      /\ write_cursor' = [write_cursor EXCEPT ![s] = cur[p]]
      /\ cur' = [cur EXCEPT ![p] = @ + directory[s].start]
      /\ slot' = [slot EXCEPT ![p] = s + 1]
      /\ pc' = [pc EXCEPT ![p] = RangesOrScatter(p, s + 1)]
      /\ UNCHANGED <<stage, jobVars, morselVars, slabVars, tallyVars, bucket_cnt,
                     tuples, tuple_count, src, at, probeVars, results>>

\* HashMapUnchained::insert at the slot's cursor; it throws out of bounds, and
\* nothing in the thread catches.
ScatterTuple(p) ==
  LET s   == NextSlot(p)
      pos == write_cursor[s]
  IN  /\ stage = "merge"
      /\ pc[p] = "scatter"
      /\ HasTuple(p)
      /\ write_cursor' = [write_cursor EXCEPT ![s] = pos + 1]
      /\ IF pos < total
           THEN /\ tuples' = [tuples EXCEPT ![pos] = NextTuple(p)]
                /\ at' = [at EXCEPT ![p] = @ + 1]
                /\ UNCHANGED pc
           ELSE /\ pc' = [pc EXCEPT ![p] = "thrown"]
                /\ UNCHANGED <<tuples, at>>
      /\ UNCHANGED <<stage, jobVars, morselVars, slabVars, tallyVars, bucket_cnt,
                     directory, tuple_count, src, slot, cur, probeVars, results>>

EndOfScatter(p) ==
  /\ pc[p] = "scatter"
  /\ LastCollectorDone(p)
  /\ pc' = [pc EXCEPT ![p] = "exit"]
  /\ UNCHANGED <<slot, cur>>

\* Faulty variant: finalize_directory before set_tuple_count.
SentinelEntry_Stale(count) == [start |-> 0, filter |-> {}]
\* finalize_directory reads the count that set_tuple_count has just stored.
SentinelEntry(count) == [start |-> count, filter |-> {}]

\* Join of the merge threads, set_tuple_count, finalize_directory, fork of the probe.
JoinMerge ==
  /\ stage = "merge"
  /\ Exited
  /\ tuple_count' = total
  /\ directory' = [directory EXCEPT ![bucket_cnt] = SentinelEntry(tuple_count')]
  /\ next_row' = 0
  /\ local_results' = Each(<<>>)
  /\ stage' = "probe"
  /\ pc' = Each("claim")
  /\ UNCHANGED <<jobVars, row, row_end, slabVars, tallyVars, bucket_cnt, tuples,
                 write_cursor, mergeVars, idx, idx_end, results>>
-----------------------------------------------------------------------------
(* probe_phase.                                                            *)

\* Faulty variant: the filter must equal the tag instead of containing it.
could_contain_Equal(filter, hash) == filter = Tag[hash]
could_contain(filter, hash) == Tag[hash] \subseteq filter

bucket_range(s) == <<directory[s].start, directory[s + 1].start>>

\* The indices a lookup looks at: from the first up to, not including, the second.
lookup_range(key) ==
  LET s == bucket_index_from_hash(Hash[key], bucket_cnt)
  IN  IF tuple_count > 0 /\ could_contain(directory[s].filter, Hash[key])
        THEN bucket_range(s)
        ELSE <<0, 0>>

\* One probe row: skip a null, else look its key up.
ProbeRow(t) ==
  LET key   == get_value(ProbeColumn, row[t])
      range == lookup_range(key)
  IN  /\ stage = "probe"
      /\ pc[t] = "rows"
      /\ IF key # Null /\ range[1] < range[2]
           THEN /\ pc' = [pc EXCEPT ![t] = "compare"]
                /\ idx' = [idx EXCEPT ![t] = range[1]]
                /\ idx_end' = [idx_end EXCEPT ![t] = range[2]]
                /\ UNCHANGED morselVars
           ELSE /\ NextRow(t)
                /\ UNCHANGED <<idx, idx_end>>
      /\ UNCHANGED <<stage, jobVars, slabVars, tallyVars, mapVars, mergeVars,
                     local_results, results>>

\* Faulty variant: the side of the build table is ignored.
OutputPair_Unswapped(build_row, probe_row) == <<build_row, probe_row>>
OutputPair(build_row, probe_row) ==
  IF job.build_left THEN <<build_row, probe_row>> ELSE <<probe_row, build_row>>

\* Faulty variant: equal hashes are taken for equal keys.
SameKey_ByHash(tuple, key) == tuple.hash = Hash[key]
SameKey(tuple, key) == tuple.key = key

\* One tuple of the range: operator[] throws past tuple_count; the pair is
\* inserted if the keys agree (a bucket holds other keys too).
ProbeTuple(t) ==
  LET tuple == tuples[idx[t]]
      hit   == SameKey(tuple, get_value(ProbeColumn, row[t]))
  IN  /\ stage = "probe"
      /\ pc[t] = "compare"
      /\ IF idx[t] < tuple_count
           THEN /\ local_results' =
                     [local_results EXCEPT ![t] =
                        IF hit THEN Append(@, OutputPair(tuple.value, row[t])) ELSE @]
                /\ idx' = [idx EXCEPT ![t] = @ + 1]
                /\ IF idx[t] + 1 < idx_end[t]
                     THEN UNCHANGED <<pc, morselVars>>
                     ELSE NextRow(t)
           ELSE /\ pc' = [pc EXCEPT ![t] = "thrown"]
                /\ UNCHANGED <<morselVars, idx, local_results>>
      /\ UNCHANGED <<stage, jobVars, slabVars, tallyVars, mapVars, mergeVars,
                     idx_end, results>>

\* Join of the probe threads.
JoinProbe ==
  /\ stage = "probe"
  /\ Exited
  /\ stage' = "gather"
  /\ tally' = <<0, 0>>
  /\ UNCHANGED <<pc, jobVars, morselVars, slabVars, total, prefix, mapVars, mergeVars,
                 probeVars, results>>

Part(i) == local_results[i]

\* merge_results appends the rows of one thread after those of the other.
Gather ==
  /\ stage = "gather"
  /\ tally[1] < NumPartitions
  /\ results' = results \o Part(tally[1])
  /\ tally' = <<tally[1] + 1, 0>>
  /\ UNCHANGED <<stage, pc, jobVars, morselVars, slabVars, total, prefix, mapVars,
                 mergeVars, probeVars>>

\* run_unchained returns: the end of every local.
Return ==
  /\ stage = "gather"
  /\ tally[1] = NumPartitions
  /\ stage' = "done"
  /\ row' = Each(0) /\ row_end' = Each(0)
  /\ tally' = <<0, 0>> /\ total' = 0 /\ prefix' = Each(0)
  /\ bucket_cnt' = 0 /\ directory' = <<>> /\ tuples' = <<>> /\ tuple_count' = 0
  /\ write_cursor' = <<>>
  /\ src' = Each(0) /\ at' = Each(1) /\ slot' = Each(0) /\ cur' = Each(0)
  /\ idx' = Each(0) /\ idx_end' = Each(0) /\ local_results' = Each(<<>>)
  /\ UNCHANGED <<pc, jobVars, next_row, slabVars, results>>
-----------------------------------------------------------------------------
Init ==
  /\ stage = "idle"
  /\ job \in Jobs
  /\ joins = 0
  /\ next_row = 0
  /\ pc = Each("exit")
  /\ collectors = Each(Each(<<>>))
  /\ counts = Each(Each(0))
  /\ results = <<>>
  /\ row = Each(0) /\ row_end = Each(0)
  /\ tally = <<0, 0>> /\ total = 0 /\ prefix = Each(0)
  /\ bucket_cnt = 0 /\ directory = <<>> /\ tuples = <<>> /\ tuple_count = 0
  /\ write_cursor = <<>>
  /\ src = Each(0) /\ at = Each(1) /\ slot = Each(0) /\ cur = Each(0)
  /\ idx = Each(0) /\ idx_end = Each(0) /\ local_results = Each(<<>>)

BuildStep(t) == Claim(t) \/ ConsumeRow(t)

MergeStep(p) ==
  \/ CountTuple(p)
  \/ NextCollector(p)
  \/ EndOfCount(p)
  \/ SetRange(p)
  \/ ScatterTuple(p)
  \/ EndOfScatter(p)

ProbeStep(t) == ProbeRow(t) \/ ProbeTuple(t)

Thread(t) == BuildStep(t) \/ MergeStep(t) \/ ProbeStep(t)

\* The main thread, once a join has begun.
Main == JoinBuild \/ Tally \/ ForkMerge \/ JoinMerge \/ JoinProbe \/ Gather \/ Return

Finished ==
  /\ stage \in {"idle", "done"}
  /\ joins = MaxJoins
  /\ UNCHANGED vars

Next ==
  \/ \E j \in Jobs : Begin(j)
  \/ Main
  \/ \E t \in Threads : Thread(t)
  \/ Finished

Spec == Init /\ [][Next]_vars

\* std::thread::join waits for the worker and the operating system schedules
\* every runnable thread; no thread of a join ever blocks on another worker.
FairSpec ==
  /\ Spec
  /\ WF_vars(Main)
  /\ \A t \in Threads : WF_vars(Thread(t))
-----------------------------------------------------------------------------
(* Properties.                                                             *)

Steps == {"claim", "rows", "count", "ranges", "scatter", "compare", "exit", "thrown"}

MainTypes ==
  /\ stage \in {"idle", "build", "tally", "merge", "probe", "gather", "done"}
  /\ job \in Jobs
  /\ joins \in 0 .. MaxJoins
  /\ tally \in (0 .. NumPartitions) \X Threads
  /\ total \in Nat
  /\ prefix \in [Threads -> Nat]
  /\ results \in Seq(Nat \X Nat)

MorselTypes ==
  /\ next_row \in Nat
  /\ pc \in [Threads -> Steps]
  /\ row \in [Threads -> Nat]
  /\ row_end \in [Threads -> Nat]

SlabTypes ==
  /\ collectors \in [Threads -> [Threads -> Seq(Tuples)]]
  /\ counts \in [Threads -> [Threads -> Nat]]

MapTypes ==
  /\ tuple_count \in Nat
  /\ bucket_cnt \in DirectorySizes \cup {0}
  /\ stage \in {"merge", "probe"} =>
       /\ bucket_cnt \in DirectorySizes
       /\ directory \in [0 .. bucket_cnt -> [start : Nat, filter : SUBSET FilterBits]]
       /\ tuples \in [0 .. total - 1 -> Tuples \cup {DefaultTuple}]
       /\ write_cursor \in [0 .. bucket_cnt - 1 -> Nat]

MergeTypes ==
  /\ src \in [Threads -> Threads]
  /\ at \in [Threads -> Nat \ {0}]
  /\ slot \in [Threads -> 0 .. bucket_cnt]
  /\ cur \in [Threads -> Nat]

ProbeTypes ==
  /\ idx \in [Threads -> Nat]
  /\ idx_end \in [Threads -> Nat]
  /\ local_results \in [Threads -> Seq(Nat \X Nat)]

Types ==
  /\ MainTypes
  /\ MorselTypes
  /\ SlabTypes
  /\ MapTypes
  /\ MergeTypes
  /\ ProbeTypes

\* The cells of shared memory that the next step of merge thread p touches.
Access(p) ==
  CASE pc[p] = "count" /\ HasTuple(p)   -> {<<"directory", NextSlot(p)>>}
    [] pc[p] = "ranges"                 -> {<<"directory", slot[p]>>,
                                            <<"write_cursor", slot[p]>>}
    [] pc[p] = "scatter" /\ HasTuple(p) -> {<<"write_cursor", NextSlot(p)>>,
                                            <<"tuples", write_cursor[NextSlot(p)]>>}
    [] OTHER -> {}

\* The indices of an array of shared memory, the directory without its sentinel.
Indices(array) == IF array = "tuples" THEN 0 .. total - 1 ELSE 0 .. bucket_cnt - 1

RowsInside ==
  \A t \in Threads : pc[t] \in {"rows", "compare"} => row[t] < MorselRows

MergeInside ==
  stage = "merge" =>
    \A p \in Threads :
      /\ at[p] <= Len(collectors[src[p]][p]) + 1
      /\ pc[p] = "ranges" => cur[p] <= total
      /\ \A cell \in Access(p) : cell[2] \in Indices(cell[1])

CompareInside ==
  stage = "probe" =>
    /\ tuple_count = total
    /\ \A t \in Threads :
         pc[t] = "compare" => idx[t] < idx_end[t] /\ idx_end[t] <= tuple_count

\* Every variable holds a value of its kind, and every cursor points into its
\* array when it is used: a morsel's row into the column, a merge thread's
\* position into its collector, its slot into the directory and write_cursor,
\* the write cursor of its tuple's slot into the tuple array (so that insert
\* does not throw), a range's start and a compared index into the tuple array
\* (run_unchained and the three phase functions).
TypeOK ==
  /\ Types
  /\ RowsInside
  /\ MergeInside
  /\ CompareInside

InMorsel(t, r) == pc[t] \in {"rows", "compare"} /\ row[t] <= r /\ r < row_end[t]

\* The morsels in hand are disjoint, lie inside the column and below the
\* cursor: no row is handled by two threads (Claim in both phases).
MorselsDisjoint ==
  \A t \in Threads : pc[t] \in {"rows", "compare"} =>
    /\ row[t] < row_end[t]
    /\ row_end[t] <= MorselRows
    /\ row_end[t] <= next_row
    /\ \A u \in Threads \ {t} :
         pc[u] \in {"rows", "compare"} =>
           row_end[t] <= row[u] \/ row_end[u] <= row[t]

\* Row r of the column of this phase needs no more work.
Handled(r) == r < next_row /\ \A t \in Threads : ~InMorsel(t, r)

\* A place <<t, p, i>> is the i-th tuple of partition p of thread t.
Places == { x \in Threads \X Threads \X (1 .. Len(BuildColumn)) :
              x[3] <= Len(collectors[x[1]][x[2]]) }
Collected(x) == collectors[x[1]][x[2]][x[3]]

\* A build row with a key is in exactly one collector once a thread has
\* handled it, in the partition of its hash; null rows, unhandled rows and rows
\* of an earlier join are in none, and the counters agree (build_phase,
\* consume, Context::reset).
CollectedExactlyOnce ==
  stage \in {"build", "tally", "merge", "probe", "gather", "done"} =>
    /\ \A t, p \in Threads :
         /\ counts[t][p] = Len(collectors[t][p])
         /\ counts[t][p] <= Len(BuildColumn)
    /\ \A x \in Places :
         LET tuple == Collected(x)
         IN  /\ tuple.value < Len(BuildColumn)
             /\ get_value(BuildColumn, tuple.value) # Null
             /\ tuple = BuildTuple(tuple.value)
             /\ x[2] = partition_of(tuple.hash)
             /\ stage = "build" => Handled(tuple.value)
    /\ \A x, y \in Places : Collected(x).value = Collected(y).value => x = y
    /\ \A r \in 0 .. Len(BuildColumn) - 1 :
         get_value(BuildColumn, r) # Null /\ (stage = "build" => Handled(r)) =>
           \E x \in Places : Collected(x).value = r

\* merge_phase takes no lock and needs none: two merge threads are never about
\* to touch the same cell, so that its plain read-modify-writes do not race.
MergeRaceFree ==
  stage = "merge" =>
    \A p, q \in Threads : p # q => Access(p) \cap Access(q) = {}

\* The scatter writes every tuple index at most once (write_cursor[slot]++).
NoOverwrite ==
  [][stage = "merge" /\ stage' = "merge" =>
       \A i \in 0 .. total - 1 : tuples[i] # DefaultTuple => tuples'[i] = tuples[i]]_vars

\* After the merge the directory cuts 0..total-1 into one range per slot, in
\* order; the range of a slot holds tuples of that slot, whose tags its filter
\* contains; and the array holds every collected tuple exactly once.
DirectoryExact ==
  stage = "probe" =>
    /\ directory[0].start = 0
    /\ directory[bucket_cnt].start = total
    /\ \A s \in 0 .. bucket_cnt - 1 :
         /\ directory[s].start <= directory[s + 1].start
         /\ \A i \in directory[s].start .. directory[s + 1].start - 1 :
              /\ bucket_index_from_hash(tuples[i].hash, bucket_cnt) = s
              /\ Tag[tuples[i].hash] \subseteq directory[s].filter
    /\ Cardinality(Places) = total
    /\ { tuples[i] : i \in 0 .. total - 1 } = { Collected(x) : x \in Places }

\* A lookup never misses: the range it returns, filter included, covers every
\* tuple of the key (lookup_range).
NoFalseNegative ==
  stage = "probe" =>
    \A key \in Keys : \A i \in 0 .. tuple_count - 1 :
      tuples[i].key = key => i \in lookup_range(key)[1] .. lookup_range(key)[2] - 1

Emissions == { x \in Threads \X (1 .. Len(BuildColumn) * Len(ProbeColumn)) :
                 x[2] <= Len(local_results[x[1]]) }
Emitted(x) == local_results[x[1]][x[2]]

ProbeRowOf(pair) == IF job.build_left THEN pair[2] ELSE pair[1]

Abstract == INSTANCE JoinSpec WITH
  status <- CASE stage = "idle" -> "idle" [] stage = "done" -> "done"
              [] OTHER -> "running",
  output <- IF stage = "done" THEN results ELSE <<>>

\* While the probe runs, each match of a handled probe row has been emitted by
\* exactly one thread, once, and no pair that is not a match (probe_phase).
EmittedExactlyOnce ==
  stage = "probe" =>
    /\ \A x, y \in Emissions : Emitted(x) = Emitted(y) => x = y
    /\ \A x \in Emissions : Emitted(x) \in Abstract!Matches(job)
    /\ \A m \in Abstract!Matches(job) :
         Handled(ProbeRowOf(m)) => \E x \in Emissions : Emitted(x) = m

\* run_unchained implements the abstract join: its result enumerates the pairs
\* of rows with equal non-null keys, whatever the schedule and the build side.
ImplementsJoin == Abstract!Spec

\* A join that has begun ends.
JoinTerminates == stage = "build" ~> stage = "done"
=============================================================================
