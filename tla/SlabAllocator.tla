--------------------------- MODULE SlabAllocator ---------------------------
(***************************************************************************)
(* One TupleCollector of src/include/slab_allocator.hpp: the memory behind *)
(* the per-partition sequences of a build thread.                          *)
(*                                                                         *)
(*   level1  large chunks from malloc; reset makes them free again but     *)
(*           returns none of them;                                         *)
(*   level2  cuts the current large chunk into small chunks;               *)
(*   level3  per partition, a list of small chunks that tuples fill.       *)
(*                                                                         *)
(* An address is a large chunk (numbered from 1, in the order of level1's  *)
(* vector) and a byte offset.  Memory is the set of the stored tuples with *)
(* their addresses; a store destroys every tuple it overlaps.              *)
(***************************************************************************)
EXTENDS Integers, FiniteSets, SequencesExt

CONSTANTS
  Partitions, Tuples, PartOf, \* as in CollectorSpec; PartOf is compute_hash >> shift
  TupleSize,   \* sizeof(Tuple), 24
  SmallSize,   \* SMALL_CHUNK_SIZE, 128 KB: not a multiple of TupleSize
  LargeSize,   \* LARGE_CHUNK_SIZE, 1024 small chunks
  MaxTuples    \* bound: tuples consumed between two resets

ASSUME SizesAssumption ==
  /\ TupleSize \in Nat \ {0}
  /\ SmallSize \in Nat
  /\ LargeSize \in Nat
  /\ TupleSize <= SmallSize
  /\ SmallSize <= LargeSize
  /\ MaxTuples \in Nat

ASSUME PartOfAssumption == PartOf \in [Tuples -> Partitions]

ASSUME PartitionsFinite == IsFiniteSet(Partitions)

VARIABLES
  chunks,          \* level1.chunks.size(): large chunks ever allocated
  free_chunk_idx,  \* level1: large chunks handed out since the reset
  chunk, current,  \* level2.current: large chunk (0 for nullptr) and offset
  remaining,       \* level2.remaining
  level3,          \* level3[p].chunks: [chunk, start, current, end]
  counts,          \* counts[p]
  memory           \* the tuples stored: [chunk, at, tuple]

vars == <<chunks, free_chunk_idx, chunk, current, remaining, level3, counts, memory>>

level1Vars == <<chunks, free_chunk_idx>>
level2Vars == <<chunk, current, remaining>>
-----------------------------------------------------------------------------
\* Faulty variant: a large chunk is allocated although one is free.
allocate_large_chunk_Always ==
  /\ chunks' = chunks + 1
  /\ free_chunk_idx' = chunks + 1

\* The large chunk returned is number free_chunk_idx'.
allocate_large_chunk ==
  /\ chunks' = IF free_chunk_idx = chunks THEN chunks + 1 ELSE chunks
  /\ free_chunk_idx' = free_chunk_idx + 1

\* Where the next small chunk is cut, given that level2 has room.
CutFrom(c, offset, left) ==
  /\ chunk' = c
  /\ current' = offset + SmallSize
  /\ remaining' = left - SmallSize

allocate_small_chunk ==
  IF remaining < SmallSize
    THEN /\ allocate_large_chunk
         /\ CutFrom(free_chunk_idx', 0, LargeSize)
    ELSE /\ UNCHANGED level1Vars
         /\ CutFrom(chunk, current, remaining)

\* Faulty variant: any byte that is left is taken for space enough.
NeedsSpace_AnyByte(p) ==
  \/ level3[p] = <<>>
  \/ Last(level3[p]).end - Last(level3[p]).current <= 0

\* free_space() < sizeof(Tuple)
NeedsSpace(p) ==
  \/ level3[p] = <<>>
  \/ Last(level3[p]).end - Last(level3[p]).current < TupleSize

\* add_space for the small chunk that allocate_small_chunk has just cut.
NewChunk ==
  [chunk |-> chunk', start |-> current' - SmallSize,
   current |-> current' - SmallSize, end |-> current']

Overlaps(stored, c, offset) ==
  /\ stored.chunk = c
  /\ stored.at < offset + TupleSize
  /\ offset < stored.at + TupleSize

\* *allocate_tuple() = tuple, into the last of the chunks cs.
Store(cs, p, tuple) ==
  LET last == Last(cs)
  IN  /\ memory' = { m \in memory : ~Overlaps(m, last.chunk, last.current) }
                     \cup {[chunk |-> last.chunk, at |-> last.current, tuple |-> tuple]}
      /\ level3' = [level3 EXCEPT ![p] = [cs EXCEPT ![Len(cs)].current = @ + TupleSize]]

\* consume: tuples consumed by one collector come from one thread.
Consume(tuple) ==
  LET p == PartOf[tuple]
  IN  /\ counts' = [counts EXCEPT ![p] = @ + 1]
      /\ IF NeedsSpace(p)
           THEN /\ allocate_small_chunk
                /\ Store(Append(level3[p], NewChunk), p, tuple)
           ELSE /\ UNCHANGED <<level1Vars, level2Vars>>
                /\ Store(level3[p], p, tuple)

\* Faulty variants: a part of the collector is not reset.
ResetCounts_Kept == counts' = counts
ResetCounts == counts' = [p \in Partitions |-> 0]

ResetLevel2_Kept == UNCHANGED level2Vars
ResetLevel2 == chunk' = 0 /\ current' = 0 /\ remaining' = 0

\* reset: nothing is freed and no byte is cleared.
Reset ==
  /\ ResetCounts
  /\ level3' = [p \in Partitions |-> <<>>]
  /\ free_chunk_idx' = 0
  /\ ResetLevel2
  /\ UNCHANGED <<chunks, memory>>
-----------------------------------------------------------------------------
Init ==
  /\ chunks = 0 /\ free_chunk_idx = 0
  /\ chunk = 0 /\ current = 0 /\ remaining = 0
  /\ level3 = [p \in Partitions |-> <<>>]
  /\ counts = [p \in Partitions |-> 0]
  /\ memory = {}

\* The join bounds what it consumes by the rows of the build column.
Next ==
  \/ Reset
  \/ /\ SumFunction(counts) < MaxTuples
     /\ \E tuple \in Tuples : Consume(tuple)

Spec == Init /\ [][Next]_vars
-----------------------------------------------------------------------------
(* What merge_phase reads.                                                 *)

\* memcpy from an address: the tuple stored there, unless overwritten since.
Load(c, offset) ==
  IF \E m \in memory : m.chunk = c /\ m.at = offset
    THEN (CHOOSE m \in memory : m.chunk = c /\ m.at = offset).tuple
    ELSE "garbage"

\* ptr runs from start up to current in steps of a tuple.
ReadChunk(small) ==
  [n \in 1 .. (small.current - small.start) \div TupleSize |->
     Load(small.chunk, small.start + (n - 1) * TupleSize)]

ReadPartition(p) ==
  FlattenSeq([k \in DOMAIN level3[p] |-> ReadChunk(level3[p][k])])
-----------------------------------------------------------------------------
(* Properties.                                                             *)

SmallChunks == [chunk : 1 .. free_chunk_idx, start : 0 .. LargeSize,
                current : 0 .. LargeSize, end : 0 .. LargeSize]

\* The three levels and the shared cursor agree on where memory ends: level2
\* cuts from the large chunk handed out last, and small chunks lie inside
\* large chunks that are handed out.
TypeOK ==
  /\ chunks \in Nat
  /\ free_chunk_idx \in 0 .. chunks
  /\ chunk = free_chunk_idx
  /\ current \in 0 .. LargeSize
  /\ remaining = IF chunk = 0 THEN 0 ELSE LargeSize - current
  /\ level3 \in [Partitions -> Seq(SmallChunks)]
  /\ counts \in [Partitions -> Nat]
  /\ \A m \in memory : m.chunk \in 1 .. chunks /\ m.tuple \in Tuples

Disjoint(x, y) == x.chunk # y.chunk \/ x.end <= y.start \/ y.end <= x.start

\* No two small chunks, of one partition or of two, share a byte, across any
\* number of resets: a tuple is never overwritten while merge_phase may read it.
ChunksDisjoint ==
  \A p, q \in Partitions :
    \A i \in DOMAIN level3[p], j \in DOMAIN level3[q] :
      <<p, i>> # <<q, j>> => Disjoint(level3[p][i], level3[q][j])

\* The read loop of merge_phase (ptr < current) sees as many whole tuples as
\* counts, from which the prefix sums are computed, says there are.
CountsMatchMemory ==
  \A p \in Partitions :
    /\ counts[p] = Len(ReadPartition(p))
    /\ \A i \in DOMAIN level3[p] :
         (level3[p][i].current - level3[p][i].start) % TupleSize = 0

\* A chunk is given up only when less than one tuple fits: the waste is the
\* tail of a small chunk, and only the last chunk of a partition is open.
OnlyTailsWasted ==
  \A p \in Partitions : \A i \in DOMAIN level3[p] :
    /\ level3[p][i].current <= level3[p][i].end
    /\ i < Len(level3[p]) => level3[p][i].end - level3[p][i].current < TupleSize

\* malloc is called only when every small chunk of every large chunk is in
\* use: joins that reuse a context do not grow its memory without need.
MallocOnlyWhenFull ==
  [][chunks' > chunks =>
       /\ free_chunk_idx = chunks
       /\ SumFunction([p \in Partitions |-> Len(level3[p])])
            = chunks * (LargeSize \div SmallSize)]_vars

AbstractCollector == INSTANCE CollectorSpec WITH
  content <- [p \in Partitions |-> ReadPartition(p)]

\* Read back through memory, the collector is the abstract one: each partition
\* holds the tuples consumed for it since the reset, in order, unharmed.
ImplementsCollector == AbstractCollector!Spec
=============================================================================
