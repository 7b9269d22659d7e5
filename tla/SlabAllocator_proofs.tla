------------------------ MODULE SlabAllocator_proofs ------------------------
(***************************************************************************)
(* Proofs about SlabAllocator for any sizes of tuples and chunks, any      *)
(* number of partitions, and any sequence of consume and reset: no two     *)
(* small chunks share a byte, no chunk is filled past its end, reading the *)
(* chunks of a partition back gives what was consumed into it (the         *)
(* refinement of CollectorSpec), and memory is allocated only when what    *)
(* is held is used up.                                                     *)
(***************************************************************************)
EXTENDS SlabAllocator, FiniteSetTheorems, SequenceTheorems, WellFoundedInduction, TLAPS

-----------------------------------------------------------------------------
(* The inductive invariant.                                                *)

\* Level 2 has cut everything below current from its large chunk; a small chunk
\* is whole and was cut before.
SmallChunkInside(small) ==
  /\ small.end = small.start + SmallSize
  /\ small.chunk = chunk => small.end <= current

ChunksCut == \A p \in Partitions : \A k \in DOMAIN level3[p] : SmallChunkInside(level3[p][k])

\* Tuples are stored inside their small chunk.
FilledInside ==
  \A p \in Partitions : \A k \in DOMAIN level3[p] :
    level3[p][k].start <= level3[p][k].current /\ level3[p][k].current <= level3[p][k].end

\* A chunk that is not the last of its partition is full.
OldChunksFull ==
  \A p \in Partitions : \A k \in DOMAIN level3[p] :
    k < Len(level3[p]) => level3[p][k].end - level3[p][k].current < TupleSize

IInv ==
  /\ TypeOK
  /\ ChunksCut
  /\ FilledInside
  /\ OldChunksFull
  /\ ChunksDisjoint
-----------------------------------------------------------------------------
(* What consume does to the three levels.                                  *)

LEMMA Sizes ==
  /\ TupleSize \in Nat \ {0} /\ SmallSize \in Nat /\ LargeSize \in Nat
  /\ TupleSize <= SmallSize /\ SmallSize <= LargeSize
BY SizesAssumption

\* A small chunk comes from what is left of the current large chunk, or from a
\* large chunk that nobody has since the reset.
LEMMA Allocation ==
  ASSUME TypeOK, allocate_small_chunk
  PROVE  /\ chunks' \in Nat /\ free_chunk_idx' \in 0 .. chunks' /\ chunks <= chunks'
         /\ chunk' = free_chunk_idx' /\ chunk' \in 1 .. free_chunk_idx'
         /\ free_chunk_idx <= free_chunk_idx'
         /\ current' - SmallSize \in 0 .. LargeSize /\ current' \in 0 .. LargeSize
         /\ remaining' = LargeSize - current'
         /\ \/ chunk' > free_chunk_idx
            \/ chunk' = chunk /\ current' = current + SmallSize
<1>1. /\ chunks \in Nat /\ free_chunk_idx \in 0 .. chunks /\ chunk = free_chunk_idx
      /\ current \in 0 .. LargeSize
      /\ remaining = IF chunk = 0 THEN 0 ELSE LargeSize - current
  BY DEF TypeOK
<1>2. CASE remaining < SmallSize
  <2>1. /\ chunks' = IF free_chunk_idx = chunks THEN chunks + 1 ELSE chunks
        /\ free_chunk_idx' = free_chunk_idx + 1
        /\ chunk' = free_chunk_idx' /\ current' = SmallSize
        /\ remaining' = LargeSize - SmallSize
    BY <1>2, Sizes DEF allocate_small_chunk, allocate_large_chunk, CutFrom
  <2> QED
    BY <1>1, <2>1, Sizes
<1>3. CASE ~(remaining < SmallSize)
  <2>1. /\ chunks' = chunks /\ free_chunk_idx' = free_chunk_idx
        /\ chunk' = chunk /\ current' = current + SmallSize
        /\ remaining' = remaining - SmallSize
    BY <1>3 DEF allocate_small_chunk, CutFrom, level1Vars
  <2>2. chunk # 0 /\ remaining = LargeSize - current /\ remaining >= SmallSize
    BY <1>1, <1>3, Sizes
  <2> QED
    BY <1>1, <2>1, <2>2, Sizes
<1> QED
  BY <1>2, <1>3

LEMMA AppendExcept ==
  ASSUME NEW S, NEW s \in Seq(S), NEW x \in S, NEW y \in S
  PROVE  [Append(s, x) EXCEPT ![Len(s) + 1] = y] = Append(s, y)
<1>1. /\ Append(s, x) \in Seq(S) /\ Append(s, y) \in Seq(S) /\ Len(s) \in Nat
      /\ Len(Append(s, x)) = Len(s) + 1 /\ Len(Append(s, y)) = Len(s) + 1
  OBVIOUS
<1>2. ASSUME NEW k \in 1 .. Len(s) + 1
      PROVE  /\ Append(s, x)[k] = IF k = Len(s) + 1 THEN x ELSE s[k]
             /\ Append(s, y)[k] = IF k = Len(s) + 1 THEN y ELSE s[k]
  OBVIOUS
<1> DEFINE t == Append(s, x)
           e == [t EXCEPT ![Len(s) + 1] = y]
<1>3. t \in Seq(S) /\ Len(t) = Len(s) + 1
  BY <1>1
<1> HIDE DEF t
<1>4. Len(s) + 1 \in 1 .. Len(t)
  BY <1>1, <1>3
<1>5. /\ e \in Seq(S) /\ Len(e) = Len(t)
      /\ \A k \in 1 .. Len(t) : e[k] = IF k = Len(s) + 1 THEN y ELSE t[k]
  BY <1>3, <1>4, ExceptSeq
<1> HIDE DEF e
<1>6. \A k \in 1 .. Len(e) : e[k] = Append(s, y)[k]
  BY <1>2, <1>3, <1>5 DEF t
<1>7. e = Append(s, y)
  BY <1>1, <1>3, <1>5, <1>6, SeqEqual
<1> QED
  BY <1>7 DEF e, t

\* The tuple goes into the last chunk of its partition ...
LEMMA ConsumeInPlace ==
  ASSUME TypeOK, NEW tuple \in Tuples, NEW p \in Partitions, p = PartOf[tuple],
         Consume(tuple), ~NeedsSpace(p)
  PROVE  LET n == Len(level3[p])
         IN  /\ UNCHANGED <<chunks, free_chunk_idx, chunk, current, remaining>>
             /\ n \in DOMAIN level3[p]
             /\ level3[p][n].end - level3[p][n].current >= TupleSize
             /\ level3' = [level3 EXCEPT ![p] =
                             [level3[p] EXCEPT ![n].current = @ + TupleSize]]
<1>1. level3[p] \in Seq(SmallChunks) /\ level3[p] # <<>>
  BY DEF TypeOK, NeedsSpace
<1>2. Len(level3[p]) \in DOMAIN level3[p]
  BY <1>1
<1>3. level3[p][Len(level3[p])] \in SmallChunks
  BY <1>1, <1>2
<1>4. level3[p][Len(level3[p])].end - level3[p][Len(level3[p])].current >= TupleSize
  BY <1>1, <1>3, Sizes, SMTT(30) DEF NeedsSpace, Last, SmallChunks
<1>5. /\ UNCHANGED <<chunks, free_chunk_idx, chunk, current, remaining>>
      /\ level3' = [level3 EXCEPT ![p] =
                      [level3[p] EXCEPT ![Len(level3[p])].current = @ + TupleSize]]
  BY DEF Consume, Store, level1Vars, level2Vars
<1> QED
  BY <1>2, <1>4, <1>5

\* ... or into a new one.
LEMMA ConsumeInNew ==
  ASSUME TypeOK, NEW tuple \in Tuples, NEW p \in Partitions, p = PartOf[tuple],
         Consume(tuple), NeedsSpace(p)
  PROVE  LET n == Len(level3[p])
         IN  /\ allocate_small_chunk
             /\ n > 0 => level3[p][n].end - level3[p][n].current < TupleSize
             /\ level3' = [level3 EXCEPT ![p] = Append(level3[p],
                  [chunk |-> chunk', start |-> current' - SmallSize,
                   current |-> current' - SmallSize + TupleSize, end |-> current'])]
<1>1. level3[p] \in Seq(SmallChunks)
  BY DEF TypeOK
<1>2. Len(level3[p]) > 0 =>
        level3[p][Len(level3[p])].end - level3[p][Len(level3[p])].current < TupleSize
  BY <1>1 DEF NeedsSpace, Last
<1>3. allocate_small_chunk /\ Store(Append(level3[p], NewChunk), p, tuple)
  BY DEF Consume
<1> DEFINE cs == Append(level3[p], NewChunk)
           filled == [chunk |-> chunk', start |-> current' - SmallSize,
                      current |-> current' - SmallSize + TupleSize, end |-> current']
<1>4. level3' = [level3 EXCEPT ![p] = [cs EXCEPT ![Len(cs)].current = @ + TupleSize]]
  BY <1>3 DEF Store
<1>5. Len(cs) = Len(level3[p]) + 1 /\ cs[Len(cs)] = NewChunk
  BY <1>1
<1>6. [NewChunk EXCEPT !.current = @ + TupleSize] = filled
  BY DEF NewChunk
<1>7. PICK s, x, y : s = level3[p] /\ x = NewChunk /\ y = filled
  OBVIOUS
<1> DEFINE T == SmallChunks \cup {x, y}
<1>8. s \in Seq(T) /\ x \in T /\ y \in T
  BY <1>1, <1>7
<1>9. [Append(s, x) EXCEPT ![Len(s) + 1] = y] = Append(s, y)
  <2> HIDE DEF T
  <2> QED
    BY <1>8, AppendExcept
<1>10. [cs EXCEPT ![Len(cs)].current = @ + TupleSize]
         = [cs EXCEPT ![Len(level3[p]) + 1] = filled]
  BY <1>5, <1>6
<1> QED
  BY <1>2, <1>3, <1>4, <1>7, <1>9, <1>10

Rec == [chunk : Nat, start : Int, current : Int, end : Int]

\* Either way the small chunks stay where they are: one may be filled further,
\* one may be new, and a new one lies above all that were cut before.
Kept(q, k) ==
  /\ k \in DOMAIN level3[q]
  /\ level3'[q][k].chunk = level3[q][k].chunk
  /\ level3'[q][k].start = level3[q][k].start
  /\ level3'[q][k].end = level3[q][k].end
  /\ \/ level3'[q][k].current = level3[q][k].current
     \/ /\ level3'[q][k].current = level3[q][k].current + TupleSize
        /\ level3'[q][k].current <= level3[q][k].end
        /\ k = Len(level3[q])

Fresh(q, k) ==
  /\ level3'[q][k] = [chunk |-> chunk', start |-> current' - SmallSize,
                      current |-> current' - SmallSize + TupleSize, end |-> current']
  /\ k = Len(level3[q]) + 1
  /\ k > 1 => level3[q][k - 1].end - level3[q][k - 1].current < TupleSize
  /\ allocate_small_chunk

LEMMA ConsumePointwise ==
  ASSUME IInv, NEW tuple \in Tuples, NEW p \in Partitions, p = PartOf[tuple], Consume(tuple)
  PROVE  /\ level3' \in [Partitions -> Seq(Rec)]
         /\ \A q \in Partitions : \A k \in DOMAIN level3'[q] :
              Kept(q, k) \/ (q = p /\ Fresh(q, k))
         /\ \A q \in Partitions : Len(level3'[q]) # Len(level3[q]) => q = p /\ allocate_small_chunk
         /\ \/ allocate_small_chunk
            \/ UNCHANGED <<chunks, free_chunk_idx, chunk, current, remaining>>
<1> DEFINE n == Len(level3[p])
<1>1. TypeOK /\ FilledInside
  BY DEF IInv
<1>2. level3 \in [Partitions -> Seq(SmallChunks)] /\ free_chunk_idx \in Nat
  BY <1>1 DEF TypeOK
<1>3. \A q \in Partitions : level3[q] \in Seq(Rec)
  <2>1. SmallChunks \subseteq Rec
    BY <1>2, Sizes DEF SmallChunks, Rec
  <2> QED
    BY <1>2, <2>1, SeqMonotonic
<1>4. CASE NeedsSpace(p)
  <2> DEFINE filled == [chunk |-> chunk', start |-> current' - SmallSize,
                        current |-> current' - SmallSize + TupleSize, end |-> current']
  <2>1. /\ allocate_small_chunk
        /\ n > 0 => level3[p][n].end - level3[p][n].current < TupleSize
        /\ level3' = [level3 EXCEPT ![p] = Append(level3[p], filled)]
    BY <1>1, <1>4, ConsumeInNew
  <2>2. filled \in Rec
    BY <1>1, <2>1, Allocation, Sizes DEF Rec
  <2>3. /\ level3'[p] = Append(level3[p], filled)
        /\ \A q \in Partitions \ {p} : level3'[q] = level3[q]
        /\ DOMAIN level3' = Partitions
    BY <1>2, <2>1
  <2>4. /\ level3'[p] \in Seq(Rec) /\ Len(level3'[p]) = n + 1 /\ n \in Nat
        /\ DOMAIN level3'[p] = 1 .. n + 1 /\ DOMAIN level3[p] = 1 .. n
        /\ level3'[p][n + 1] = filled
        /\ \A k \in 1 .. n : level3'[p][k] = level3[p][k]
    <3> HIDE DEF filled
    <3> QED
      BY <1>3, <2>2, <2>3
  <2>5. \A k \in DOMAIN level3'[p] : Kept(p, k) \/ Fresh(p, k)
    <3> TAKE k \in DOMAIN level3'[p]
    <3>1. CASE k \in 1 .. n
      BY <2>4, <3>1 DEF Kept
    <3>2. CASE k = n + 1
      BY <2>1, <2>4, <3>2 DEF Fresh
    <3>3. k \in 1 .. n \/ k = n + 1
      <4> HIDE DEF filled
      <4> QED
        BY <2>4
    <3> QED
      BY <3>1, <3>2, <3>3
  <2>6. \A q \in Partitions \ {p} : \A k \in DOMAIN level3'[q] : Kept(q, k)
    BY <2>3 DEF Kept
  <2>7. \A q \in Partitions : level3'[q] \in Seq(Rec)
    BY <1>3, <2>3, <2>4
  <2>8. \A q \in Partitions : \A k \in DOMAIN level3'[q] :
          Kept(q, k) \/ (q = p /\ Fresh(q, k))
    BY <2>5, <2>6
  <2>9. \A q \in Partitions : Len(level3'[q]) # Len(level3[q]) => q = p
    BY <2>3
  <2>10. level3' \in [Partitions -> Seq(Rec)]
    BY <1>2, <2>1, <2>7
  <2> QED
    BY <2>1, <2>8, <2>9, <2>10
<1>5. CASE ~NeedsSpace(p)
  <2>1. /\ UNCHANGED <<chunks, free_chunk_idx, chunk, current, remaining>>
        /\ n \in DOMAIN level3[p]
        /\ level3[p][n].end - level3[p][n].current >= TupleSize
        /\ level3' = [level3 EXCEPT ![p] = [level3[p] EXCEPT ![n].current = @ + TupleSize]]
    BY <1>1, <1>5, ConsumeInPlace
  <2> DEFINE more == [level3[p][n] EXCEPT !.current = @ + TupleSize]
  <2>2. /\ level3'[p] = [level3[p] EXCEPT ![n] = more]
        /\ \A q \in Partitions \ {p} : level3'[q] = level3[q]
        /\ DOMAIN level3' = Partitions
    BY <1>2, <2>1
  <2>3. n \in 1 .. Len(level3[p]) /\ level3[p][n] \in Rec
    BY <1>3, <2>1
  <2>4. /\ more \in Rec
        /\ more.chunk = level3[p][n].chunk /\ more.start = level3[p][n].start
        /\ more.end = level3[p][n].end
        /\ more.current = level3[p][n].current + TupleSize
        /\ more.current <= level3[p][n].end
    <3>1. PICK old \in Rec : old = level3[p][n] /\ old.end - old.current >= TupleSize
      BY <2>1, <2>3
    <3>2. /\ [old EXCEPT !.current = @ + TupleSize] \in Rec
          /\ [old EXCEPT !.current = @ + TupleSize].chunk = old.chunk
          /\ [old EXCEPT !.current = @ + TupleSize].start = old.start
          /\ [old EXCEPT !.current = @ + TupleSize].end = old.end
          /\ [old EXCEPT !.current = @ + TupleSize].current = old.current + TupleSize
          /\ old.current + TupleSize <= old.end
      BY <3>1, Sizes, SMTT(30) DEF Rec
    <3> QED
      BY <3>1, <3>2
  <2>5. /\ level3'[p] \in Seq(Rec) /\ Len(level3'[p]) = n
        /\ \A k \in 1 .. n : level3'[p][k] = IF k = n THEN more ELSE level3[p][k]
        /\ DOMAIN level3'[p] = 1 .. n /\ DOMAIN level3[p] = 1 .. n
    <3> HIDE DEF more
    <3> QED
      BY <1>3, <2>2, <2>3, <2>4, ExceptSeq
  <2>6. \A k \in DOMAIN level3'[p] : Kept(p, k)
    <3> HIDE DEF more
    <3> QED
      BY <2>4, <2>5 DEF Kept
  <2>7. \A q \in Partitions \ {p} : \A k \in DOMAIN level3'[q] : Kept(q, k)
    BY <2>2 DEF Kept
  <2>8. \A q \in Partitions : level3'[q] \in Seq(Rec) /\ Len(level3'[q]) = Len(level3[q])
    BY <1>3, <2>2, <2>5
  <2>9. level3' \in [Partitions -> Seq(Rec)]
    BY <1>2, <2>1, <2>8
  <2> QED
    BY <2>1, <2>6, <2>7, <2>8, <2>9
<1> QED
  BY <1>4, <1>5

\* Where the levels stand after a consume.
LEMMA ConsumeLevels ==
  ASSUME IInv, NEW tuple \in Tuples, NEW p \in Partitions, p = PartOf[tuple], Consume(tuple)
  PROVE  /\ chunks' \in Nat /\ free_chunk_idx' \in 0 .. chunks' /\ chunks <= chunks'
         /\ chunk' = free_chunk_idx' /\ free_chunk_idx <= free_chunk_idx'
         /\ current' \in 0 .. LargeSize
         /\ remaining' = IF chunk' = 0 THEN 0 ELSE LargeSize - current'
         /\ chunk' = chunk => current <= current'
<1>1. TypeOK
  BY DEF IInv
<1>2. /\ chunks \in Nat /\ free_chunk_idx \in 0 .. chunks /\ chunk = free_chunk_idx
      /\ current \in 0 .. LargeSize
      /\ remaining = IF chunk = 0 THEN 0 ELSE LargeSize - current
  BY <1>1 DEF TypeOK
<1>3. CASE allocate_small_chunk
  BY <1>1, <1>2, <1>3, Allocation, Sizes
<1>4. CASE UNCHANGED <<chunks, free_chunk_idx, chunk, current, remaining>>
  BY <1>2, <1>4, Sizes
<1> QED
  BY <1>3, <1>4, ConsumePointwise

LEMMA ConsumeMemory ==
  ASSUME TypeOK, NEW tuple \in Tuples, NEW p \in Partitions, p = PartOf[tuple], Consume(tuple)
  PROVE  \A m \in memory' :
           m \in memory \/ (m.tuple = tuple /\ m.chunk \in 1 .. free_chunk_idx')
<1>1. level3[p] \in Seq(SmallChunks) /\ free_chunk_idx \in Nat
  BY DEF TypeOK
<1>2. CASE NeedsSpace(p)
  <2> DEFINE cs == Append(level3[p], NewChunk)
  <2>1. allocate_small_chunk /\ Store(cs, p, tuple)
    BY <1>2 DEF Consume
  <2>2. Last(cs) = NewChunk
    BY <1>1 DEF Last
  <2>3. Last(cs).chunk \in 1 .. free_chunk_idx'
    BY <2>1, <2>2, Allocation DEF NewChunk
  <2> HIDE DEF cs
  <2> QED
    BY <2>1, <2>3 DEF Store
<1>3. CASE ~NeedsSpace(p)
  <2>1. UNCHANGED free_chunk_idx /\ Store(level3[p], p, tuple) /\ level3[p] # <<>>
    BY <1>3 DEF Consume, level1Vars, NeedsSpace
  <2>2. Last(level3[p]) \in SmallChunks
    BY <1>1, <2>1 DEF Last
  <2>3. Last(level3[p]).chunk \in 1 .. free_chunk_idx'
    BY <2>1, <2>2 DEF SmallChunks
  <2> QED
    BY <2>1, <2>3 DEF Store
<1> QED
  BY <1>2, <1>3

LEMMA SeqElements ==
  ASSUME NEW S, NEW T, NEW s \in Seq(S), \A k \in DOMAIN s : s[k] \in T
  PROVE  s \in Seq(T)
<1>1. Len(s) \in Nat /\ s \in [1 .. Len(s) -> S] /\ DOMAIN s = 1 .. Len(s)
  BY LenProperties
<1>2. s \in [1 .. Len(s) -> T]
  BY <1>1
<1> QED
  BY <1>1, <1>2, SeqDef
-----------------------------------------------------------------------------
(* The invariant is preserved.                                             *)

LEMMA InitInv == Init => IInv
<1> SUFFICES ASSUME Init PROVE IInv
  OBVIOUS
<1>1. level3 = [p \in Partitions |-> <<>>]
  BY DEF Init
<1>2. level3 \in [Partitions -> Seq(SmallChunks)] /\ \A p \in Partitions : DOMAIN level3[p] = {}
  BY <1>1
<1>3. TypeOK
  BY <1>2, Sizes DEF Init, TypeOK
<1> QED
  BY <1>2, <1>3 DEF IInv, ChunksCut, FilledInside, OldChunksFull, ChunksDisjoint

LEMMA ResetStep == IInv /\ Reset => IInv'
<1> SUFFICES ASSUME IInv, Reset PROVE IInv'
  OBVIOUS
<1>1. /\ level3' = [p \in Partitions |-> <<>>]
      /\ chunks' = chunks /\ memory' = memory
      /\ free_chunk_idx' = 0 /\ chunk' = 0 /\ current' = 0 /\ remaining' = 0
      /\ counts' = [p \in Partitions |-> 0]
  BY DEF Reset, ResetLevel2, ResetCounts
<1>2. /\ level3' \in [Partitions -> Seq(SmallChunks')]
      /\ \A p \in Partitions : DOMAIN level3'[p] = {}
  BY <1>1
<1>3. TypeOK'
  BY <1>1, <1>2, Sizes DEF IInv, TypeOK
<1> QED
  BY <1>2, <1>3 DEF IInv, ChunksCut, FilledInside, OldChunksFull, ChunksDisjoint

\* A new small chunk shares no byte with one that stays.
LEMMA FreshAboveKept ==
  ASSUME IInv, NEW tuple \in Tuples, NEW p \in Partitions, p = PartOf[tuple], Consume(tuple),
         NEW q \in Partitions, NEW k \in DOMAIN level3'[q], Kept(q, k),
         NEW j \in DOMAIN level3'[p], Fresh(p, j)
  PROVE  /\ Disjoint(level3'[q][k], level3'[p][j])
         /\ Disjoint(level3'[p][j], level3'[q][k])
<1>1. level3[q][k] \in SmallChunks /\ SmallChunkInside(level3[q][k])
  BY DEF IInv, TypeOK, ChunksCut, Kept
<1>2. chunk = free_chunk_idx /\ free_chunk_idx \in Nat /\ current \in Nat /\ TypeOK
  BY DEF IInv, TypeOK
<1>3. /\ chunk' \in Nat /\ current' \in Nat
      /\ \/ chunk' > free_chunk_idx
         \/ chunk' = chunk /\ current' - SmallSize = current
  BY <1>2, Allocation, Sizes DEF Fresh
<1>4. \/ level3'[q][k].chunk # chunk'
      \/ level3'[q][k].end <= current' - SmallSize
  BY <1>1, <1>2, <1>3, Sizes DEF SmallChunkInside, SmallChunks, Kept
<1> QED
  BY <1>4 DEF Disjoint, Fresh

LEMMA ConsumeStep ==
  ASSUME IInv, NEW tuple \in Tuples, Consume(tuple)
  PROVE  IInv'
<1> DEFINE p == PartOf[tuple]
<1>1. p \in Partitions
  BY PartOfAssumption
<1> HIDE DEF p
<1>2. p = PartOf[tuple]
  BY DEF p
<1>3. /\ level3' \in [Partitions -> Seq(Rec)]
      /\ \A q \in Partitions : \A k \in DOMAIN level3'[q] :
           Kept(q, k) \/ (q = p /\ Fresh(q, k))
  BY <1>1, <1>2, ConsumePointwise
<1>4. /\ chunks' \in Nat /\ free_chunk_idx' \in 0 .. chunks' /\ chunks <= chunks'
      /\ chunk' = free_chunk_idx' /\ free_chunk_idx <= free_chunk_idx'
      /\ current' \in 0 .. LargeSize
      /\ remaining' = IF chunk' = 0 THEN 0 ELSE LargeSize - current'
      /\ chunk' = chunk => current <= current'
  BY <1>1, <1>2, ConsumeLevels
<1>5. /\ level3 \in [Partitions -> Seq(SmallChunks)]
      /\ chunks \in Nat /\ chunk = free_chunk_idx /\ free_chunk_idx \in Nat /\ current \in Nat
      /\ TypeOK
  BY DEF IInv, TypeOK
<1>6. ASSUME NEW q \in Partitions, NEW k \in DOMAIN level3'[q], Fresh(q, k)
      PROVE  /\ chunk' \in 1 .. free_chunk_idx'
             /\ current' - SmallSize \in 0 .. LargeSize
             /\ current' - SmallSize + TupleSize <= current'
  <2>1. allocate_small_chunk
    BY <1>6 DEF Fresh
  <2>2. /\ chunk' \in 1 .. free_chunk_idx'
        /\ current' - SmallSize \in 0 .. LargeSize
    BY <1>5, <2>1, Allocation
  <2>3. current' \in Nat /\ SmallSize \in Nat /\ TupleSize \in Nat /\ TupleSize <= SmallSize
    BY <1>4, Sizes
  <2>4. \A c, m, t \in Nat : t <= m => c - m + t <= c
    OBVIOUS
  <2> QED
    BY <2>2, <2>3, <2>4
<1>7. FilledInside'
  <2>1. ASSUME NEW q \in Partitions, NEW k \in DOMAIN level3'[q]
        PROVE  level3'[q][k].start <= level3'[q][k].current
                 /\ level3'[q][k].current <= level3'[q][k].end
    <3>1. CASE Kept(q, k)
      <4>1. /\ level3[q][k] \in SmallChunks
            /\ level3[q][k].start <= level3[q][k].current
            /\ level3[q][k].current <= level3[q][k].end
        BY <1>5, <3>1 DEF Kept, IInv, FilledInside
      <4> QED
        <5>1. level3[q][k].current \in Int /\ level3[q][k].start \in Int
          BY <4>1 DEF SmallChunks
        <5>2. /\ level3'[q][k].start = level3[q][k].start
              /\ level3'[q][k].end = level3[q][k].end
          BY <3>1 DEF Kept
        <5>3. CASE level3'[q][k].current = level3[q][k].current
          BY <4>1, <5>2, <5>3
        <5>4. CASE /\ level3'[q][k].current = level3[q][k].current + TupleSize
                   /\ level3'[q][k].current <= level3[q][k].end
          BY <4>1, <5>1, <5>2, <5>4, Sizes
        <5> QED
          BY <3>1, <5>3, <5>4 DEF Kept
    <3>2. CASE Fresh(q, k)
      BY <1>4, <1>6, <3>2, Sizes DEF Fresh
    <3> QED
      BY <1>3, <3>1, <3>2
  <2> QED
    BY <2>1 DEF FilledInside
<1>8. ChunksCut'
  <2>1. ASSUME NEW q \in Partitions, NEW k \in DOMAIN level3'[q]
        PROVE  /\ level3'[q][k].end = level3'[q][k].start + SmallSize
               /\ level3'[q][k].chunk = chunk' => level3'[q][k].end <= current'
    <3>1. CASE Kept(q, k)
      <4>1. level3[q][k] \in SmallChunks /\ SmallChunkInside(level3[q][k])
        BY <1>5, <3>1 DEF Kept, IInv, ChunksCut
      <4> QED
        BY <1>4, <1>5, <3>1, <4>1, Sizes DEF Kept, SmallChunks, SmallChunkInside
    <3>2. CASE Fresh(q, k)
      BY <1>4, <3>2, Sizes DEF Fresh
    <3> QED
      BY <1>3, <3>1, <3>2
  <2> QED
    BY <2>1 DEF ChunksCut, SmallChunkInside
<1>9. level3' \in [Partitions -> Seq(SmallChunks')]
  <2>1. ASSUME NEW q \in Partitions, NEW k \in DOMAIN level3'[q]
        PROVE  level3'[q][k] \in SmallChunks'
    <3>1. /\ level3'[q][k] \in Rec
          /\ level3'[q][k].start <= level3'[q][k].current
          /\ level3'[q][k].current <= level3'[q][k].end
      BY <1>3, <1>7 DEF FilledInside
    <3>2. CASE Kept(q, k)
      <4>1. level3[q][k] \in SmallChunks
        BY <1>5, <3>2 DEF Kept
      <4>2. /\ level3'[q][k].chunk \in 1 .. free_chunk_idx'
            /\ level3'[q][k].start \in 0 .. LargeSize
            /\ level3'[q][k].end \in 0 .. LargeSize
        BY <1>4, <1>5, <3>2, <4>1 DEF Kept, SmallChunks
      <4> QED
        BY <3>1, <4>2, Sizes DEF SmallChunks, Rec
    <3>3. CASE Fresh(q, k)
      <4>1. /\ level3'[q][k].chunk \in 1 .. free_chunk_idx'
            /\ level3'[q][k].start \in 0 .. LargeSize
            /\ level3'[q][k].end \in 0 .. LargeSize
        BY <1>4, <1>6, <3>3 DEF Fresh
      <4> QED
        BY <3>1, <4>1, Sizes DEF SmallChunks, Rec
    <3> QED
      BY <1>3, <3>2, <3>3
  <2>2. \A q \in Partitions : level3'[q] \in Seq(SmallChunks')
    <3> TAKE q \in Partitions
    <3>1. level3'[q] \in Seq(Rec) /\ \A k \in DOMAIN level3'[q] : level3'[q][k] \in SmallChunks'
      BY <1>3, <2>1
    <3>2. PICK s, T : s = level3'[q] /\ T = SmallChunks'
      OBVIOUS
    <3>3. s \in Seq(Rec) /\ \A k \in DOMAIN s : s[k] \in T
      BY <3>1, <3>2
    <3>4. s \in Seq(T)
      BY <3>3, SeqElements
    <3> QED
      BY <3>2, <3>4
  <2> QED
    BY <1>3, <2>2
<1>10. TypeOK'
  <2>1. counts' \in [Partitions -> Nat]
    <3>1. counts' = [counts EXCEPT ![p] = @ + 1]
      BY <1>2 DEF Consume
    <3>2. counts \in [Partitions -> Nat]
      BY <1>5 DEF TypeOK
    <3> QED
      BY <1>1, <3>1, <3>2
  <2>2. \A m \in memory' : m.chunk \in 1 .. chunks' /\ m.tuple \in Tuples
    <3> TAKE m \in memory'
    <3>1. m \in memory \/ (m.tuple = tuple /\ m.chunk \in 1 .. free_chunk_idx')
      BY <1>1, <1>2, <1>5, ConsumeMemory
    <3>2. m \in memory => m.chunk \in 1 .. chunks /\ m.tuple \in Tuples
      BY <1>5 DEF TypeOK
    <3> QED
      BY <1>4, <1>5, <3>1, <3>2
  <2> QED
    BY <1>4, <1>9, <2>1, <2>2 DEF TypeOK
<1>11. OldChunksFull'
  <2>1. ASSUME NEW q \in Partitions, NEW k \in DOMAIN level3'[q], k < Len(level3'[q])
        PROVE  level3'[q][k].end - level3'[q][k].current < TupleSize
    <3>1. /\ DOMAIN level3'[q] = 1 .. Len(level3'[q]) /\ Len(level3'[q]) \in Nat
          /\ DOMAIN level3[q] = 1 .. Len(level3[q]) /\ Len(level3[q]) \in Nat
      BY <1>3, <1>5, LenProperties
    <3>2. k + 1 \in DOMAIN level3'[q] /\ k \in Nat
      BY <2>1, <3>1
    <3>3. Kept(q, k)
      <4>1. ~Fresh(q, k)
        <5> SUFFICES ASSUME Fresh(q, k) PROVE FALSE
          OBVIOUS
        <5>1. k = Len(level3[q]) + 1
          BY DEF Fresh
        <5>2. ~Kept(q, k + 1) /\ ~Fresh(q, k + 1)
          BY <3>1, <5>1 DEF Kept, Fresh
        <5> QED
          BY <1>3, <3>2, <5>2
      <4> QED
        BY <1>3, <4>1
    <3>4. level3[q][k] \in SmallChunks
      BY <1>5, <3>3 DEF Kept
    <3>5. level3[q][k].end - level3[q][k].current < TupleSize
      <4>1. CASE k < Len(level3[q])
        BY <3>3, <4>1 DEF IInv, OldChunksFull, Kept
      <4>2. CASE k = Len(level3[q])
        <5>1. ~Kept(q, k + 1)
          BY <3>1, <4>2 DEF Kept
        <5>2. Fresh(q, k + 1)
          BY <1>3, <3>2, <5>1
        <5> QED
          BY <3>1, <3>2, <5>2, <3>3 DEF Fresh, Kept
      <4> QED
        BY <3>1, <3>3, <4>1, <4>2 DEF Kept
    <3>6. level3[q][k].end \in Int /\ level3[q][k].current \in Int
      BY <3>4 DEF SmallChunks
    <3>7. /\ level3'[q][k].end = level3[q][k].end
          /\ \/ level3'[q][k].current = level3[q][k].current
             \/ level3'[q][k].current = level3[q][k].current + TupleSize
      BY <3>3 DEF Kept
    <3> QED
      BY <3>5, <3>6, <3>7, Sizes
  <2> QED
    BY <2>1 DEF OldChunksFull
<1>12. ChunksDisjoint'
  <2>1. ASSUME NEW a \in Partitions, NEW b \in Partitions,
               NEW i \in DOMAIN level3'[a], NEW j \in DOMAIN level3'[b], <<a, i>> # <<b, j>>
        PROVE  Disjoint(level3'[a][i], level3'[b][j])
    <3>1. CASE Kept(a, i) /\ Kept(b, j)
      <4>1. Disjoint(level3[a][i], level3[b][j])
        BY <2>1, <3>1 DEF IInv, ChunksDisjoint, Kept
      <4> QED
        BY <3>1, <4>1 DEF Disjoint, Kept
    <3>2. CASE Kept(a, i) /\ b = p /\ Fresh(b, j)
      BY <1>1, <1>2, <3>2, FreshAboveKept
    <3>3. CASE a = p /\ Fresh(a, i) /\ Kept(b, j)
      BY <1>1, <1>2, <3>3, FreshAboveKept
    <3>4. CASE a = p /\ Fresh(a, i) /\ b = p /\ Fresh(b, j)
      BY <2>1, <3>4 DEF Fresh
    <3> QED
      BY <1>3, <3>1, <3>2, <3>3, <3>4
  <2> QED
    BY <2>1 DEF ChunksDisjoint
<1> QED
  BY <1>7, <1>8, <1>10, <1>11, <1>12 DEF IInv

LEMMA InvStep == IInv /\ [Next]_vars => IInv'
<1> SUFFICES ASSUME IInv, [Next]_vars PROVE IInv'
  OBVIOUS
<1>1. CASE Reset
  BY <1>1, ResetStep
<1>2. CASE \E tuple \in Tuples : Consume(tuple)
  BY <1>2, ConsumeStep
<1>3. CASE UNCHANGED vars
  BY <1>3 DEF vars, IInv, TypeOK, SmallChunks, ChunksCut, SmallChunkInside, FilledInside,
              OldChunksFull, ChunksDisjoint, Disjoint
<1> QED
  BY <1>1, <1>2, <1>3 DEF Next
-----------------------------------------------------------------------------
(* The theorems.                                                           *)

\* The inductive invariant holds for any sizes, partitions and tuples.
THEOREM Invariant == Spec => []IInv
<1> QED
  BY InitInv, InvStep, PTL DEF Spec

\* The three levels and the shared cursor of the collector agree.
THEOREM TypeCorrect == Spec => []TypeOK
<1>1. IInv => TypeOK
  BY DEF IInv
<1> QED
  BY <1>1, Invariant, PTL

\* No two small chunks share a byte, whatever the sizes of chunks and tuples and
\* however often the collector is reset and filled again.
THEOREM ChunksAreDisjoint == Spec => []ChunksDisjoint
<1>1. IInv => ChunksDisjoint
  BY DEF IInv
<1> QED
  BY <1>1, Invariant, PTL

\* A tuple never crosses the end of its small chunk, and a chunk is left only
\* when no tuple fits any more.
THEOREM OnlyTailsAreWasted == Spec => []OnlyTailsWasted
<1>1. IInv => OnlyTailsWasted
  BY DEF IInv, FilledInside, OldChunksFull, OnlyTailsWasted
<1> QED
  BY <1>1, Invariant, PTL
-----------------------------------------------------------------------------
(* Sequences of sequences put one after the other.                         *)

\* Every set of naturals has a least element, so that induction holds.
LEMMA LeastNat ==
  ASSUME NEW T, T \subseteq Nat, T # {}
  PROVE  \E m \in T : \A k \in T : m <= k
<1> DEFINE R == OpToRel(<, Nat)
<1>1. IsWellFoundedOn(R, Nat)
  BY NatLessThanWellFounded
<1>2. \A x, y \in Nat : <<y, x>> \in R <=> y < x
  BY DEF OpToRel
<1> HIDE DEF R
<1>3. PICK m \in T : \A k \in T : ~(<<k, m>> \in R)
  BY <1>1, WFMin
<1>4. \A k \in T : ~(k < m) /\ k \in Nat /\ m \in Nat
  BY <1>2, <1>3
<1>5. \A k \in T : m <= k
  BY <1>4
<1> QED
  BY <1>5

LEMMA Induction ==
  ASSUME NEW T, 0 \in T, \A n \in Nat : n \in T => n + 1 \in T
  PROVE  \A n \in Nat : n \in T
<1> SUFFICES ASSUME NEW n \in Nat, n \notin T PROVE FALSE
  OBVIOUS
<1> DEFINE U == { k \in Nat : k \notin T }
<1>1. PICK m \in U : \A k \in U : m <= k
  BY LeastNat
<1>2. m # 0 /\ m \in Nat
  BY <1>1
<1>3. m - 1 \in Nat /\ ~(m <= m - 1)
  BY <1>2
<1>4. m - 1 \in T
  BY <1>1, <1>3
<1>5. (m - 1) + 1 \in T
  BY <1>3, <1>4
<1>6. (m - 1) + 1 = m
  BY <1>2
<1> QED
  BY <1>5, <1>6

\* f[i] is what the first i sequences of ss are, one after the other.
Flattens(f, ss, n) ==
  f = [i \in 1 .. n |-> IF i = 1 THEN ss[i] ELSE f[i - 1] \o ss[i]]

LEMMA FlattenExists ==
  ASSUME NEW ss
  PROVE  \A n \in Nat : \E f : Flattens(f, ss, n)
<1> DEFINE T == { n \in Nat : \E f : Flattens(f, ss, n) }
<1>1. 0 \in T
  <2>1. Flattens([i \in {} |-> 0], ss, 0)
    BY DEF Flattens
  <2> QED BY <2>1
<1>2. ASSUME NEW n \in Nat, n \in T PROVE n + 1 \in T
  <2>1. PICK f : Flattens(f, ss, n)
    BY <1>2
  <2> DEFINE last == IF n = 0 THEN ss[1] ELSE f[n] \o ss[n + 1]
             g == [i \in 1 .. n + 1 |-> IF i = n + 1 THEN last ELSE f[i]]
  <2>2. \A i \in 1 .. n : f[i] = IF i = 1 THEN ss[i] ELSE f[i - 1] \o ss[i]
    BY <2>1 DEF Flattens
  <2>3. ASSUME NEW i \in 1 .. n + 1
        PROVE  g[i] = IF i = 1 THEN ss[i] ELSE g[i - 1] \o ss[i]
    <3>1. CASE i = n + 1 /\ n = 0
      BY <3>1
    <3>2. CASE i = n + 1 /\ n # 0
      <4>1. g[i - 1] = f[n] /\ i # 1
        BY <3>2
      <4> QED BY <3>2, <4>1
    <3>3. CASE i # n + 1
      <4>1. i \in 1 .. n /\ g[i] = f[i]
        BY <3>3
      <4>2. i # 1 => g[i - 1] = f[i - 1]
        BY <4>1
      <4> QED BY <2>2, <4>1, <4>2
    <3> QED BY <3>1, <3>2, <3>3
  <2>4. g = [i \in 1 .. n + 1 |-> IF i = 1 THEN ss[i] ELSE g[i - 1] \o ss[i]]
    <3>1. PICK gg : gg = g
      OBVIOUS
    <3>2. gg = [i \in 1 .. n + 1 |-> gg[i]]
      BY <3>1
    <3>3. \A i \in 1 .. n + 1 : gg[i] = IF i = 1 THEN ss[i] ELSE gg[i - 1] \o ss[i]
      BY <2>3, <3>1
    <3>4. gg = [i \in 1 .. n + 1 |-> IF i = 1 THEN ss[i] ELSE gg[i - 1] \o ss[i]]
      BY <3>2, <3>3
    <3> QED BY <3>1, <3>4
  <2>5. Flattens(g, ss, n + 1)
    BY <2>4 DEF Flattens
  <2> QED BY <2>5
<1> HIDE DEF T
<1>3. \A n \in Nat : n \in T
  BY <1>1, <1>2, Induction
<1> QED
  BY <1>3 DEF T

\* The recursive function in FlattenSeq is one of these.
LEMMA FlattenIs ==
  ASSUME NEW ss, Len(ss) \in Nat, Len(ss) # 0
  PROVE  \E f : Flattens(f, ss, Len(ss)) /\ FlattenSeq(ss) = f[Len(ss)]
<1> DEFINE f == CHOOSE h : Flattens(h, ss, Len(ss))
<1>1. Flattens(f, ss, Len(ss))
  BY FlattenExists
<1>2. FlattenSeq(ss) = f[Len(ss)]
  BY DEF FlattenSeq, Flattens
<1> QED
  BY <1>1, <1>2

LEMMA FlattenUnique ==
  ASSUME NEW r, NEW s, NEW f, NEW g, NEW n \in Nat, NEW m \in Nat, NEW k \in Nat,
         Flattens(f, r, n), Flattens(g, s, m), k <= n, k <= m,
         \A i \in 1 .. k : r[i] = s[i]
  PROVE  \A i \in 1 .. k : f[i] = g[i]
<1> DEFINE T == { i \in Nat : i \in 1 .. k => f[i] = g[i] }
<1>1. \A i \in 1 .. n : f[i] = IF i = 1 THEN r[i] ELSE f[i - 1] \o r[i]
  BY DEF Flattens
<1>2. \A i \in 1 .. m : g[i] = IF i = 1 THEN s[i] ELSE g[i - 1] \o s[i]
  BY DEF Flattens
<1>3. 0 \in T
  OBVIOUS
<1>4. ASSUME NEW i \in Nat, i \in T PROVE i + 1 \in T
  <2> SUFFICES ASSUME i + 1 \in 1 .. k PROVE f[i + 1] = g[i + 1]
    OBVIOUS
  <2>1. i + 1 \in 1 .. n /\ i + 1 \in 1 .. m /\ (i + 1) - 1 = i
    OBVIOUS
  <2>2. r[i + 1] = s[i + 1]
    OBVIOUS
  <2>3. CASE i = 0
    BY <1>1, <1>2, <2>1, <2>2, <2>3
  <2>4. CASE i # 0
    <3>1. f[i] = g[i]
      BY <1>4, <2>4
    <3>2. /\ f[i + 1] = f[(i + 1) - 1] \o r[i + 1]
          /\ g[i + 1] = g[(i + 1) - 1] \o s[i + 1]
      <4>1. i + 1 # 1
        BY <2>4
      <4> QED BY <1>1, <1>2, <2>1, <4>1
    <3> QED BY <2>1, <2>2, <3>1, <3>2
  <2> QED BY <2>3, <2>4
<1> HIDE DEF T
<1>5. \A i \in Nat : i \in T
  BY <1>3, <1>4, Induction
<1> QED
  BY <1>5 DEF T

LEMMA FlattenLonger ==
  ASSUME NEW s, NEW t, NEW n \in Nat, n # 0, Len(s) = n, Len(t) = n + 1,
         \A i \in 1 .. n : t[i] = s[i]
  PROVE  FlattenSeq(t) = FlattenSeq(s) \o t[n + 1]
<1>1. /\ n + 1 \in Nat /\ n <= n /\ n <= n + 1 /\ n \in 1 .. n
      /\ n + 1 \in 1 .. n + 1 /\ n + 1 # 0 /\ n + 1 # 1 /\ (n + 1) - 1 = n
  OBVIOUS
<1>2. PICK f : Flattens(f, s, n) /\ FlattenSeq(s) = f[n]
  BY <1>1, FlattenIs
<1>3. PICK g : Flattens(g, t, n + 1) /\ FlattenSeq(t) = g[n + 1]
  BY <1>1, FlattenIs
<1>4. \A i \in 1 .. n : f[i] = g[i]
  BY <1>1, <1>2, <1>3, FlattenUnique, SMTT(30)
<1>5. g[n + 1] = g[(n + 1) - 1] \o t[n + 1]
  BY <1>1, <1>3 DEF Flattens
<1> QED
  BY <1>1, <1>2, <1>3, <1>4, <1>5

\* What sequences of sequences are, one after the other, is a sequence.
LEMMA FlattenType ==
  ASSUME NEW S, NEW ss \in Seq(Seq(S))
  PROVE  FlattenSeq(ss) \in Seq(S)
<1>1. Len(ss) \in Nat /\ \A i \in 1 .. Len(ss) : ss[i] \in Seq(S)
  OBVIOUS
<1>2. CASE Len(ss) = 0
  <2>1. FlattenSeq(ss) = ss /\ ss = <<>>
    BY <1>2 DEF FlattenSeq
  <2> QED BY <2>1
<1>3. CASE Len(ss) # 0
  <2>1. PICK f : Flattens(f, ss, Len(ss)) /\ FlattenSeq(ss) = f[Len(ss)]
    BY <1>1, <1>3, FlattenIs
  <2>2. \A i \in 1 .. Len(ss) : f[i] = IF i = 1 THEN ss[i] ELSE f[i - 1] \o ss[i]
    BY <2>1 DEF Flattens
  <2> DEFINE T == { i \in Nat : i \in 1 .. Len(ss) => f[i] \in Seq(S) }
  <2>3. 0 \in T
    OBVIOUS
  <2>4. ASSUME NEW i \in Nat, i \in T PROVE i + 1 \in T
    <3> SUFFICES ASSUME i + 1 \in 1 .. Len(ss) PROVE f[i + 1] \in Seq(S)
      OBVIOUS
    <3>1. ss[i + 1] \in Seq(S) /\ (i + 1) - 1 = i
      BY <1>1
    <3>2. CASE i = 0
      BY <2>2, <3>1, <3>2
    <3>3. CASE i # 0
      <4>1. f[i] \in Seq(S)
        BY <1>1, <2>4, <3>3
      <4>2. f[i + 1] = f[(i + 1) - 1] \o ss[i + 1]
        <5>1. i + 1 # 1
          BY <3>3
        <5> QED BY <2>2, <5>1
      <4> QED BY <3>1, <4>1, <4>2
    <3> QED BY <3>2, <3>3
  <2> HIDE DEF T
  <2>5. \A i \in Nat : i \in T
    BY <2>3, <2>4, Induction
  <2>6. f[Len(ss)] \in Seq(S)
    BY <1>1, <1>3, <2>5 DEF T
  <2> QED BY <2>1, <2>6
<1> QED
  BY <1>2, <1>3

LEMMA FlattenEmpty == FlattenSeq(<<>>) = <<>>
BY DEF FlattenSeq

LEMMA FlattenSingle ==
  ASSUME NEW t, Len(t) = 1
  PROVE  FlattenSeq(t) = t[1]
<1>1. Len(t) \in Nat /\ Len(t) # 0 /\ 1 \in 1 .. 1
  OBVIOUS
<1>2. PICK f : Flattens(f, t, Len(t)) /\ FlattenSeq(t) = f[Len(t)]
  BY <1>1, FlattenIs
<1>3. f[1] = t[1]
  BY <1>1, <1>2 DEF Flattens
<1> QED
  BY <1>2, <1>3

\* One more sequence at the end.
LEMMA FlattenAppend ==
  ASSUME NEW S, NEW ss \in Seq(Seq(S)), NEW x \in Seq(S)
  PROVE  FlattenSeq(Append(ss, x)) = FlattenSeq(ss) \o x
<1>1. PICK n, t : n = Len(ss) /\ t = Append(ss, x)
  OBVIOUS
<1>2. /\ n \in Nat /\ Len(t) = n + 1 /\ t[n + 1] = x
      /\ \A i \in 1 .. n : t[i] = ss[i]
  BY <1>1
<1>3. CASE n = 0
  <2>1. ss = <<>> /\ Len(t) = 1
    BY <1>1, <1>2, <1>3, EmptySeq
  <2>2. FlattenSeq(ss) = <<>> /\ FlattenSeq(t) = t[1]
    BY <2>1, FlattenEmpty, FlattenSingle
  <2>3. <<>> \o x = x
    BY ConcatEmptySeq
  <2> QED BY <1>1, <1>2, <1>3, <2>2, <2>3
<1>4. CASE n # 0
  BY <1>1, <1>2, <1>4, FlattenLonger
<1> QED
  BY <1>3, <1>4

LEMMA FunctionIsSeq ==
  ASSUME NEW S, NEW n \in Nat, NEW f \in [1 .. n -> S]
  PROVE  f \in Seq(S) /\ Len(f) = n
<1>1. f \in Seq(S)
  BY SeqDef
<1> QED
  BY <1>1, LenProperties

LEMMA AppendIs ==
  ASSUME NEW S, NEW s, NEW t, NEW n \in Nat, NEW x \in S, s \in Seq(S), Len(s) = n,
         t \in [1 .. n + 1 -> S],
         \A j \in 1 .. n : t[j] = s[j], t[n + 1] = x
  PROVE  t = Append(s, x)
<1>1. /\ Append(s, x) \in Seq(S) /\ Len(Append(s, x)) = n + 1
      /\ \A j \in 1 .. n + 1 : Append(s, x)[j] = IF j = n + 1 THEN x ELSE s[j]
  OBVIOUS
<1>2. t \in Seq(S) /\ Len(t) = n + 1
  BY FunctionIsSeq
<1>3. ASSUME NEW j \in 1 .. n + 1
      PROVE  t[j] = IF j = n + 1 THEN x ELSE s[j]
  <2>1. j # n + 1 => j \in 1 .. n
    OBVIOUS
  <2> QED BY <2>1
<1> QED
  BY <1>1, <1>2, <1>3, SeqEqual

LEMMA Associative ==
  ASSUME NEW S, NEW a \in Seq(S), NEW b \in Seq(S), NEW c \in Seq(S)
  PROVE  (a \o b) \o c = a \o (b \o c)
BY ConcatAssociative

LEMMA SameFront ==
  ASSUME NEW U, NEW r \in Seq(U), NEW s \in Seq(U), Len(r) # 0, Len(s) = Len(r),
         \A i \in 1 .. Len(r) - 1 : s[i] = r[i]
  PROVE  \E q \in Seq(U) : /\ r = Append(q, r[Len(r)])
                           /\ s = Append(q, s[Len(r)])
<1>1. PICK n : n \in Nat /\ n = Len(r) - 1
  <2>1. Len(r) - 1 \in Nat
    BY LenProperties
  <2> QED BY <2>1
<1>2. /\ Len(r) = n + 1 /\ r[n + 1] \in U /\ s[n + 1] \in U
      /\ \A i \in 1 .. n : s[i] = r[i] /\ r[i] \in U
  BY <1>1
<1> DEFINE q == [i \in 1 .. n |-> r[i]]
<1>3. q \in Seq(U) /\ Len(q) = n /\ \A i \in 1 .. n : q[i] = r[i]
  <2>1. q \in [1 .. n -> U]
    BY <1>2
  <2> QED BY <1>1, <2>1, FunctionIsSeq
<1> HIDE DEF q
<1>4. r = Append(q, r[n + 1])
  <2>1. /\ Append(q, r[n + 1]) \in Seq(U) /\ Len(Append(q, r[n + 1])) = n + 1
        /\ \A i \in 1 .. n + 1 : Append(q, r[n + 1])[i] = r[i]
    BY <1>1, <1>2, <1>3
  <2> QED BY <1>2, <2>1, SeqEqual
<1>5. s = Append(q, s[n + 1])
  <2>1. /\ Append(q, s[n + 1]) \in Seq(U) /\ Len(Append(q, s[n + 1])) = n + 1
        /\ \A i \in 1 .. n + 1 : Append(q, s[n + 1])[i] = s[i]
    BY <1>1, <1>2, <1>3
  <2> QED BY <1>2, <2>1, SeqEqual
<1> QED
  BY <1>2, <1>3, <1>4, <1>5

LEMMA GrownLast ==
  ASSUME NEW S, NEW a, NEW b, NEW c, NEW x, NEW r, NEW s,
         a \in Seq(S), b \in Seq(S), x \in Seq(S),
         r = a \o b, s = a \o c, c = b \o x
  PROVE  s = r \o x
<1>1. s = a \o (b \o x)
  OBVIOUS
<1>2. r \o x = (a \o b) \o x
  OBVIOUS
<1>3. (a \o b) \o x = a \o (b \o x)
  BY Associative
<1> QED
  BY ONLY <1>1, <1>2, <1>3

\* The last sequence of r goes on with x in s, the others are the same.
GrownBy(S, r, s, x) ==
  /\ r \in Seq(Seq(S)) /\ s \in Seq(Seq(S)) /\ x \in Seq(S)
  /\ Len(r) # 0 /\ Len(s) = Len(r) /\ s[Len(r)] = r[Len(r)] \o x
  /\ \A i \in 1 .. Len(r) - 1 : s[i] = r[i]

LEMMA FlattenGrown ==
  \A S, r, s, x : GrownBy(S, r, s, x) => FlattenSeq(s) = FlattenSeq(r) \o x
<1> TAKE S, r, s, x
<1>1. ASSUME r \in Seq(Seq(S)), s \in Seq(Seq(S)), x \in Seq(S),
             Len(r) # 0, Len(s) = Len(r), s[Len(r)] = r[Len(r)] \o x,
             \A i \in 1 .. Len(r) - 1 : s[i] = r[i]
      PROVE  FlattenSeq(s) = FlattenSeq(r) \o x
  <2>1. PICK U : U = Seq(S)
    OBVIOUS
  <2>2. r \in Seq(U) /\ s \in Seq(U)
    BY <1>1, <2>1
  <2>8. /\ x \in Seq(S) /\ Len(r) # 0 /\ Len(s) = Len(r) /\ s[Len(r)] = r[Len(r)] \o x
        /\ \A i \in 1 .. Len(r) - 1 : s[i] = r[i]
    BY <1>1
  <2>3. PICK q : q \in Seq(U) /\ r = Append(q, r[Len(r)]) /\ s = Append(q, s[Len(r)])
    <3>1. PICK n : n = Len(r)
      OBVIOUS
    <3>2. n # 0 /\ Len(s) = n /\ \A i \in 1 .. n - 1 : s[i] = r[i]
      BY <2>8, <3>1
    <3> QED
      BY <2>2, <3>1, <3>2, SameFront
  <2>4. PICK a, b, c : a = FlattenSeq(q) /\ b = r[Len(r)] /\ c = s[Len(r)]
    OBVIOUS
  <2>5. b \in U /\ c \in U
    <3>1. PICK n : n = Len(r)
      OBVIOUS
    <3>2. n \in 1 .. Len(r) /\ n \in 1 .. Len(s)
      BY <1>1, <2>2, <3>1, LenProperties
    <3> QED BY <2>2, <2>4, <3>1, <3>2, ElementOfSeq
  <2>6. FlattenSeq(r) = a \o b /\ FlattenSeq(s) = a \o c /\ a \in Seq(S)
    BY <2>1, <2>3, <2>4, <2>5, FlattenAppend, FlattenType
  <2>7. c = b \o x
    BY <2>8, <2>4
  <2>9. b \in Seq(S)
    BY <2>1, <2>5
  <2> QED
    <3>1. x \in Seq(S)
      BY <1>1
    <3>2. PICK rr, ss : rr = FlattenSeq(r) /\ ss = FlattenSeq(s)
      OBVIOUS
    <3>3. rr = a \o b /\ ss = a \o c /\ a \in Seq(S)
      BY <2>6, <3>2
    <3>4. ss = rr \o x
      BY <2>7, <2>9, <3>1, <3>3, GrownLast
    <3> QED BY <3>2, <3>4
<1> QED
  BY <1>1 DEF GrownBy
-----------------------------------------------------------------------------
(* What merge_phase reads back from memory.                                *)

\* No byte belongs to two stored tuples.
MemoryApart ==
  /\ \A m \in memory : m.at \in Nat
  /\ \A m, o \in memory : Overlaps(m, o.chunk, o.at) => m = o

\* The first n tuples of a small chunk are in memory, and it holds no more.
Holds(small, n) ==
  /\ small.current = small.start + n * TupleSize
  /\ \A j \in 1 .. n :
       \E m \in memory : m.chunk = small.chunk /\ m.at = small.start + (j - 1) * TupleSize

AllStored ==
  \A p \in Partitions : \A k \in DOMAIN level3[p] : \E n \in Nat : Holds(level3[p][k], n)

CountsExact == \A p \in Partitions : counts[p] = Len(ReadPartition(p))

ReadInv ==
  /\ IInv
  /\ MemoryApart
  /\ AllStored
  /\ CountsExact

\* A load from where a tuple is stored returns that tuple.
LoadsBack == \A m \in memory : Load(m.chunk, m.at) = m.tuple

LEMMA LoadIs == MemoryApart => LoadsBack
<1> SUFFICES ASSUME MemoryApart, NEW m \in memory PROVE Load(m.chunk, m.at) = m.tuple
  BY DEF LoadsBack
<1> DEFINE o == CHOOSE o \in memory : o.chunk = m.chunk /\ o.at = m.at
<1>1. o \in memory /\ o.chunk = m.chunk /\ o.at = m.at
  OBVIOUS
<1>2. Load(m.chunk, m.at) = o.tuple
  BY DEF Load
<1> HIDE DEF o
<1>3. Overlaps(o, m.chunk, m.at)
  BY <1>1, Sizes DEF Overlaps, MemoryApart
<1>4. o = m
  BY <1>1, <1>3 DEF MemoryApart
<1> QED
  BY <1>2, <1>4

LEMMA Multiples ==
  ASSUME NEW n \in Nat
  PROVE  /\ n * TupleSize \in Nat
         /\ (n * TupleSize) \div TupleSize = n
         /\ (n * TupleSize) % TupleSize = 0
         /\ (n + 1) * TupleSize = n * TupleSize + TupleSize
<1>1. TupleSize \in Nat \ {0}
  BY Sizes
<1> QED
  BY <1>1

\* The read loop of merge_phase sees the tuples a small chunk holds.
LEMMA ReadIs ==
  ASSUME LoadsBack, TypeOK, NEW small, small.start \in Nat, NEW n \in Nat, Holds(small, n)
  PROVE  /\ (small.current - small.start) \div TupleSize = n
         /\ (small.current - small.start) % TupleSize = 0
         /\ ReadChunk(small) \in Seq(Tuples)
         /\ Len(ReadChunk(small)) = n
         /\ \A j \in 1 .. n :
              ReadChunk(small)[j] = Load(small.chunk, small.start + (j - 1) * TupleSize)
<1>1. /\ n * TupleSize \in Nat /\ (n * TupleSize) \div TupleSize = n
      /\ (n * TupleSize) % TupleSize = 0
  BY Multiples
<1>2. small.current - small.start = n * TupleSize
  BY <1>1 DEF Holds
<1>3. ReadChunk(small) = [j \in 1 .. n |-> Load(small.chunk, small.start + (j - 1) * TupleSize)]
  BY <1>1, <1>2 DEF ReadChunk
<1>4. ASSUME NEW j \in 1 .. n
      PROVE  Load(small.chunk, small.start + (j - 1) * TupleSize) \in Tuples
  <2>1. PICK m \in memory : m.chunk = small.chunk /\ m.at = small.start + (j - 1) * TupleSize
    BY DEF Holds
  <2>2. m.tuple \in Tuples /\ Load(m.chunk, m.at) = m.tuple
    BY DEF TypeOK, LoadsBack
  <2> QED
    BY <2>1, <2>2
<1>5. ReadChunk(small) \in [1 .. n -> Tuples]
  BY <1>3, <1>4
<1>6. ReadChunk(small) \in Seq(Tuples) /\ Len(ReadChunk(small)) = n
  BY <1>5, FunctionIsSeq
<1> QED
  BY <1>1, <1>2, <1>3, <1>6

\* Where consume stores the tuple: at the end of small chunk n of partition p, the
\* last one, which it fills further or has just cut.
StoredIn(p, tuple, n) ==
  /\ n \in Nat \ {0}
  /\ Len(level3'[p]) = n
  /\ memory' = { m \in memory :
                   ~Overlaps(m, level3'[p][n].chunk, level3'[p][n].current - TupleSize) }
                 \cup {[chunk |-> level3'[p][n].chunk,
                        at |-> level3'[p][n].current - TupleSize, tuple |-> tuple]}
  /\ counts' = [counts EXCEPT ![p] = @ + 1]
  /\ \A q \in Partitions \ {p} : level3'[q] = level3[q]
  /\ \A k \in 1 .. n - 1 : level3'[p][k] = level3[p][k]
  /\ \/ /\ Len(level3[p]) = n
        /\ level3'[p][n].chunk = level3[p][n].chunk
        /\ level3'[p][n].start = level3[p][n].start
        /\ level3'[p][n].current = level3[p][n].current + TupleSize
     \/ /\ Len(level3[p]) = n - 1
        /\ level3'[p][n].current = level3'[p][n].start + TupleSize

LEMMA ConsumeStores ==
  ASSUME IInv, NEW tuple \in Tuples, NEW p \in Partitions, p = PartOf[tuple], Consume(tuple)
  PROVE  \E n : StoredIn(p, tuple, n)
<1>1. /\ TypeOK /\ level3 \in [Partitions -> Seq(SmallChunks)]
      /\ level3[p] \in Seq(SmallChunks) /\ free_chunk_idx \in Nat
  BY DEF IInv, TypeOK
<1>2. counts' = [counts EXCEPT ![p] = @ + 1]
  BY DEF Consume
<1>3. CASE NeedsSpace(p)
  <2> DEFINE cs == Append(level3[p], NewChunk)
             filled == [chunk |-> chunk', start |-> current' - SmallSize,
                        current |-> current' - SmallSize + TupleSize, end |-> current']
  <2>1. allocate_small_chunk /\ level3' = [level3 EXCEPT ![p] = Append(level3[p], filled)]
    BY <1>1, <1>3, ConsumeInNew
  <2>2. current' - SmallSize \in Int /\ TupleSize \in Int
    BY <1>1, <2>1, Allocation, Sizes
  <2>3. Store(cs, p, tuple) /\ Last(cs) = NewChunk
    BY <1>1, <1>3 DEF Consume, Last
  <2>4. /\ level3'[p] = Append(level3[p], filled)
        /\ \A q \in Partitions \ {p} : level3'[q] = level3[q]
    BY <1>1, <2>1
  <2>5. PICK n : n = Len(level3[p]) + 1
    OBVIOUS
  <2>6. /\ n \in Nat \ {0} /\ Len(level3'[p]) = n /\ Len(level3[p]) = n - 1
        /\ level3'[p][n] = filled
        /\ \A k \in 1 .. n - 1 : level3'[p][k] = level3[p][k]
    <3> HIDE DEF filled
    <3> QED
      BY <1>1, <2>4, <2>5
  <2>7. /\ filled.chunk = chunk' /\ filled.start = current' - SmallSize
        /\ filled.current = filled.start + TupleSize
        /\ filled.current - TupleSize = current' - SmallSize
    BY <2>2
  <2>8. memory' = { m \in memory : ~Overlaps(m, filled.chunk, filled.current - TupleSize) }
                    \cup {[chunk |-> filled.chunk,
                           at |-> filled.current - TupleSize, tuple |-> tuple]}
    <3>1. Last(cs).chunk = filled.chunk /\ Last(cs).current = filled.current - TupleSize
      BY <2>3, <2>7 DEF NewChunk
    <3> HIDE DEF cs, filled
    <3> QED
      BY <2>3, <3>1 DEF Store
  <2> HIDE DEF filled
  <2>9. StoredIn(p, tuple, n)
    BY <1>2, <2>4, <2>6, <2>7, <2>8 DEF StoredIn
  <2> QED BY <2>9
<1>4. CASE ~NeedsSpace(p)
  <2>1. PICK n : n = Len(level3[p])
    OBVIOUS
  <2>2. /\ n \in DOMAIN level3[p]
        /\ level3' = [level3 EXCEPT ![p] = [level3[p] EXCEPT ![n].current = @ + TupleSize]]
    BY <1>1, <1>4, <2>1, ConsumeInPlace
  <2>3. PICK old \in SmallChunks : old = level3[p][n]
    BY <1>1, <2>2
  <2> DEFINE more == [old EXCEPT !.current = @ + TupleSize]
  <2>4. /\ more.chunk = old.chunk /\ more.start = old.start
        /\ more.current = old.current + TupleSize
        /\ more.current - TupleSize = old.current
    BY <2>3, Sizes DEF SmallChunks
  <2>5. /\ level3'[p] = [level3[p] EXCEPT ![n] = more]
        /\ \A q \in Partitions \ {p} : level3'[q] = level3[q]
    BY <1>1, <2>2, <2>3
  <2>6. /\ n \in Nat \ {0} /\ Len(level3'[p]) = n /\ level3'[p][n] = more
        /\ \A k \in 1 .. n - 1 : level3'[p][k] = level3[p][k]
    <3> HIDE DEF more
    <3> QED
      BY <1>1, <2>1, <2>2, <2>5
  <2>7. Store(level3[p], p, tuple) /\ Last(level3[p]) = old
    BY <1>1, <1>4, <2>1, <2>3 DEF Consume, Last
  <2>8. memory' = { m \in memory : ~Overlaps(m, more.chunk, more.current - TupleSize) }
                    \cup {[chunk |-> more.chunk,
                           at |-> more.current - TupleSize, tuple |-> tuple]}
    <3> HIDE DEF more
    <3> QED
      BY <2>4, <2>7 DEF Store
  <2> HIDE DEF more
  <2>9. StoredIn(p, tuple, n)
    BY <1>2, <2>1, <2>3, <2>4, <2>5, <2>6, <2>8 DEF StoredIn
  <2> QED BY <2>9
<1> QED
  BY <1>3, <1>4

\* The small chunk that takes the tuple has room for it.
LEMMA LastChunk ==
  ASSUME IInv, IInv', NEW tuple \in Tuples, NEW p \in Partitions, NEW n, StoredIn(p, tuple, n)
  PROVE  /\ n \in DOMAIN level3'[p]
         /\ level3'[p][n] \in SmallChunks'
         /\ level3'[p][n].start \in Nat /\ level3'[p][n].current \in Nat
         /\ level3'[p][n].end \in Nat
         /\ level3'[p][n].start + TupleSize <= level3'[p][n].current
         /\ level3'[p][n].current <= level3'[p][n].end
<1>1. level3'[p] \in Seq(SmallChunks') /\ n \in 1 .. Len(level3'[p])
  BY DEF IInv, TypeOK, StoredIn
<1>2. level3'[p][n] \in SmallChunks' /\ n \in DOMAIN level3'[p]
  BY <1>1
<1>3. /\ level3'[p][n].start \in Nat /\ level3'[p][n].current \in Nat
      /\ level3'[p][n].end \in Nat
  BY <1>2, Sizes DEF SmallChunks
<1>4. level3'[p][n].start + TupleSize <= level3'[p][n].current
  <2>1. CASE Len(level3[p]) = n
    <3>1. n \in DOMAIN level3[p]
      BY <2>1 DEF IInv, TypeOK, StoredIn
    <3>2. /\ level3[p][n].start <= level3[p][n].current
          /\ level3[p][n] \in SmallChunks
      BY <3>1 DEF IInv, TypeOK, FilledInside
    <3>3. /\ level3'[p][n].start = level3[p][n].start
          /\ level3'[p][n].current = level3[p][n].current + TupleSize
      BY <2>1 DEF StoredIn
    <3> QED
      BY <3>2, <3>3, Sizes DEF SmallChunks
  <2>2. CASE Len(level3[p]) # n
    <3>1. level3'[p][n].current = level3'[p][n].start + TupleSize
      BY <2>2 DEF StoredIn
    <3> QED BY <1>3, <3>1, Sizes
  <2> QED BY <2>1, <2>2
<1>5. level3'[p][n].current <= level3'[p][n].end
  BY <1>2 DEF IInv, FilledInside
<1> QED
  BY <1>2, <1>3, <1>4, <1>5

\* Overlap is mutual.
LEMMA OverlapsSym ==
  ASSUME NEW m, NEW o, Overlaps(m, o.chunk, o.at)
  PROVE  Overlaps(o, m.chunk, m.at)
BY DEF Overlaps

LEMMA ConsumeKeepsApart ==
  ASSUME IInv, IInv', MemoryApart, NEW tuple \in Tuples, NEW p \in Partitions,
         NEW n, StoredIn(p, tuple, n)
  PROVE  MemoryApart'
<1> DEFINE c == level3'[p][n].chunk
           a == level3'[p][n].current - TupleSize
           new == [chunk |-> c, at |-> a, tuple |-> tuple]
<1>1. a \in Nat
  <2>1. /\ level3'[p][n].start \in Nat /\ level3'[p][n].current \in Nat
        /\ level3'[p][n].start + TupleSize <= level3'[p][n].current
    BY LastChunk
  <2> QED BY <2>1, Sizes
<1>2. memory' = { m \in memory : ~Overlaps(m, c, a) } \cup {new}
  BY DEF StoredIn
<1>3. new.chunk = c /\ new.at = a
  OBVIOUS
<1> HIDE DEF c, a, new
<1>4. ASSUME NEW m \in memory' PROVE m.at \in Nat
  BY <1>1, <1>2, <1>3 DEF MemoryApart
<1>5. ASSUME NEW m \in memory', NEW o \in memory', Overlaps(m, o.chunk, o.at)
      PROVE  m = o
  <2>1. CASE m = new /\ o = new
    BY <2>1
  <2>2. CASE m = new /\ o \in memory /\ ~Overlaps(o, c, a)
    <3>1. Overlaps(o, m.chunk, m.at)
      BY <1>5, OverlapsSym
    <3> QED BY <1>3, <2>2, <3>1
  <2>3. CASE m \in memory /\ ~Overlaps(m, c, a) /\ o = new
    BY <1>3, <1>5, <2>3
  <2>4. CASE m \in memory /\ o \in memory
    BY <1>5, <2>4 DEF MemoryApart
  <2> QED BY <1>2, <2>1, <2>2, <2>3, <2>4
<1> QED
  BY <1>4, <1>5 DEF MemoryApart

LEMMA StepsApart ==
  ASSUME NEW n \in Nat, NEW j \in 1 .. n
  PROVE  /\ (j - 1) * TupleSize \in Nat
         /\ (j - 1) * TupleSize + TupleSize <= n * TupleSize
<1>1. TupleSize \in Nat /\ j - 1 \in Nat /\ j \in Nat /\ j <= n
  BY Sizes
<1>2. (j - 1) * TupleSize \in Nat /\ (j - 1) * TupleSize + TupleSize = j * TupleSize
  BY <1>1
<1>3. j * TupleSize <= n * TupleSize
  BY <1>1
<1> QED
  BY <1>2, <1>3

\* A small chunk whose tuples stay in memory is read as before ...
LEMMA ChunkKept ==
  ASSUME LoadsBack, LoadsBack', NEW small, NEW n \in Nat, Holds(small, n), small.start \in Nat,
         \A m \in memory : /\ m.chunk = small.chunk
                           /\ small.start <= m.at /\ m.at + TupleSize <= small.current
                           => m \in memory'
  PROVE  /\ Holds(small, n)'
         /\ ReadChunk(small)' = ReadChunk(small)
<1>1. ASSUME NEW j \in 1 .. n
      PROVE  \E m \in memory : /\ m.chunk = small.chunk
                               /\ m.at = small.start + (j - 1) * TupleSize
                               /\ m \in memory'
  <2>1. PICK m \in memory : m.chunk = small.chunk /\ m.at = small.start + (j - 1) * TupleSize
    BY DEF Holds
  <2>2. /\ (j - 1) * TupleSize \in Nat
        /\ (j - 1) * TupleSize + TupleSize <= n * TupleSize
        /\ n * TupleSize \in Nat
    BY StepsApart, Multiples
  <2>3. small.current = small.start + n * TupleSize
    BY DEF Holds
  <2>4. PICK a, b : a = (j - 1) * TupleSize /\ b = n * TupleSize
    OBVIOUS
  <2>5. small.start <= m.at /\ m.at + TupleSize <= small.current
    BY <2>1, <2>2, <2>3, <2>4, Sizes
  <2> QED
    BY <2>1, <2>5
<1>2. Holds(small, n)'
  BY <1>1 DEF Holds
<1>3. ASSUME NEW j \in 1 .. n
      PROVE  Load(small.chunk, small.start + (j - 1) * TupleSize)'
               = Load(small.chunk, small.start + (j - 1) * TupleSize)
  <2>1. PICK m \in memory : /\ m.chunk = small.chunk
                            /\ m.at = small.start + (j - 1) * TupleSize
                            /\ m \in memory'
    BY <1>1
  <2>2. PICK c, a : c = small.chunk /\ a = small.start + (j - 1) * TupleSize
    OBVIOUS
  <2>3. m.chunk = c /\ m.at = a
    BY <2>1, <2>2
  <2>4. Load(c, a) = m.tuple
    BY <2>3 DEF LoadsBack
  <2>5. Load(c, a)' = m.tuple
    BY <2>1, <2>3 DEF LoadsBack
  <2> QED
    BY <2>2, <2>4, <2>5
<1>4. (small.current - small.start) \div TupleSize = n
  <2>1. n * TupleSize \in Nat /\ (n * TupleSize) \div TupleSize = n
    BY Multiples
  <2>2. small.current - small.start = n * TupleSize
    BY <2>1 DEF Holds
  <2> QED BY <2>1, <2>2
<1>5. ReadChunk(small)' = ReadChunk(small)
  BY <1>3, <1>4 DEF ReadChunk
<1> QED
  BY <1>2, <1>5

\* ... and one that takes a tuple more is read with that tuple at its end.
LEMMA ChunkGrown ==
  ASSUME LoadsBack, LoadsBack', TypeOK, NEW small, NEW n \in Nat, Holds(small, n),
         small.start \in Nat,
         \A m \in memory : /\ m.chunk = small.chunk
                           /\ small.start <= m.at /\ m.at + TupleSize <= small.current
                           => m \in memory',
         NEW big, big.chunk = small.chunk, big.start = small.start,
         big.current = small.current + TupleSize,
         NEW o \in memory', o.chunk = small.chunk, o.at = small.current, o.tuple \in Tuples
  PROVE  /\ Holds(big, n + 1)'
         /\ ReadChunk(big)' = Append(ReadChunk(small), o.tuple)
<1>1. Holds(small, n)' /\ ReadChunk(small)' = ReadChunk(small)
  BY ChunkKept
<1>2. /\ n * TupleSize \in Nat
      /\ (n + 1) * TupleSize = n * TupleSize + TupleSize
      /\ (n + 1) * TupleSize \in Nat
      /\ ((n + 1) * TupleSize) \div TupleSize = n + 1
      /\ (n * TupleSize) \div TupleSize = n
  BY Multiples
<1>3. small.current = small.start + n * TupleSize
  BY DEF Holds
<1>4. big.current = big.start + (n + 1) * TupleSize
  BY <1>2, <1>3, Sizes
<1>5. Holds(big, n + 1)'
  <2>1. ASSUME NEW j \in 1 .. n + 1
        PROVE  \E m \in memory' :
                 m.chunk = big.chunk /\ m.at = big.start + (j - 1) * TupleSize
    <3>1. CASE j = n + 1
      <4>1. j - 1 = n
        BY <3>1
      <4> QED BY <1>3, <4>1
    <3>2. CASE j # n + 1
      <4>1. j \in 1 .. n
        BY <3>2
      <4> QED BY <1>1, <4>1 DEF Holds
    <3> QED BY <3>1, <3>2
  <2> QED BY <1>4, <2>1 DEF Holds
<1>6. ReadChunk(big)' = [j \in 1 .. n + 1 |-> Load(small.chunk, small.start + (j - 1) * TupleSize)']
  <2>1. big.current - big.start = (n + 1) * TupleSize
    BY <1>2, <1>4
  <2>2. (big.current - big.start) \div TupleSize = n + 1
    BY <1>2, <2>1
  <2> QED BY <2>2 DEF ReadChunk
<1>7. ReadChunk(small)' = [j \in 1 .. n |-> Load(small.chunk, small.start + (j - 1) * TupleSize)']
  <2>1. small.current - small.start = n * TupleSize
    BY <1>2, <1>3
  <2>2. (small.current - small.start) \div TupleSize = n
    BY <1>2, <2>1
  <2> QED BY <2>2 DEF ReadChunk
<1>8. Load(small.chunk, small.start + n * TupleSize)' = o.tuple
  <2>1. PICK c, a : c = small.chunk /\ a = small.start + n * TupleSize
    OBVIOUS
  <2>2. Load(c, a)' = o.tuple
    BY <1>3, <2>1 DEF LoadsBack
  <2> QED BY <2>1, <2>2
<1>9. ReadChunk(small) \in Seq(Tuples) /\ Len(ReadChunk(small)) = n
  BY ReadIs
<1> DEFINE old == ReadChunk(small)
           new == ReadChunk(big)'
<1>10. /\ \A j \in 1 .. n : new[j] = old[j]
       /\ new[n + 1] = o.tuple
       /\ new \in [1 .. n + 1 -> Tuples]
  <2>1. \A j \in 1 .. n : j \in 1 .. n + 1
    OBVIOUS
  <2>2. n + 1 \in 1 .. n + 1 /\ (n + 1) - 1 = n
    OBVIOUS
  <2>3. \A j \in 1 .. n : new[j] = old[j]
    BY <1>1, <1>6, <1>7, <2>1
  <2>4. new[n + 1] = Load(small.chunk, small.start + ((n + 1) - 1) * TupleSize)'
    BY <1>6, <2>2
  <2>5. new \in [1 .. n + 1 -> Tuples]
    <3>1. \A j \in 1 .. n : old[j] \in Tuples
      BY <1>9, ElementOfSeq
    <3>2. \A j \in 1 .. n + 1 : j = n + 1 \/ j \in 1 .. n
      OBVIOUS
    <3>3. new[n + 1] = o.tuple
      BY <1>8, <2>2, <2>4
    <3>4. \A j \in 1 .. n + 1 : new[j] \in Tuples
      BY <2>3, <3>1, <3>2, <3>3
    <3>5. PICK f : f = new
      OBVIOUS
    <3>6. f = [j \in 1 .. n + 1 |-> f[j]]
      BY <1>6, <3>5
    <3>7. \A j \in 1 .. n + 1 : f[j] \in Tuples
      BY <3>4, <3>5
    <3>8. f \in [1 .. n + 1 -> Tuples]
      BY <3>6, <3>7
    <3> QED BY <3>5, <3>8
  <2> QED BY <1>8, <2>2, <2>3, <2>4, <2>5
<1> HIDE DEF old, new
<1>11. new = Append(old, o.tuple)
  BY <1>9, <1>10, AppendIs DEF old
<1> QED
  BY <1>5, <1>11 DEF old, new

\* Every small chunk of partition p, read.
Rows(p) == [k \in DOMAIN level3[p] |-> ReadChunk(level3[p][k])]

RowsRead ==
  \A p \in Partitions :
    /\ Rows(p) \in Seq(Seq(Tuples))
    /\ Len(Rows(p)) = Len(level3[p])
    /\ DOMAIN level3[p] = 1 .. Len(level3[p]) /\ Len(level3[p]) \in Nat
    /\ ReadPartition(p) = FlattenSeq(Rows(p))

LEMMA RowsAre == IInv /\ MemoryApart /\ AllStored => RowsRead
<1> SUFFICES ASSUME IInv, MemoryApart, AllStored, NEW p \in Partitions
             PROVE  /\ Rows(p) \in Seq(Seq(Tuples))
                    /\ Len(Rows(p)) = Len(level3[p])
                    /\ DOMAIN level3[p] = 1 .. Len(level3[p]) /\ Len(level3[p]) \in Nat
                    /\ ReadPartition(p) = FlattenSeq(Rows(p))
  BY DEF RowsRead
<1>1. TypeOK /\ LoadsBack
  BY LoadIs DEF IInv
<1>2. level3[p] \in Seq(SmallChunks)
  BY <1>1 DEF TypeOK
<1>3. PICK n \in Nat : n = Len(level3[p]) /\ DOMAIN level3[p] = 1 .. n
  BY <1>2, LenProperties
<1>4. ASSUME NEW k \in 1 .. n PROVE ReadChunk(level3[p][k]) \in Seq(Tuples)
  <2>1. PICK m \in Nat : Holds(level3[p][k], m)
    BY <1>3 DEF AllStored
  <2>2. level3[p][k] \in SmallChunks
    BY <1>2, <1>3
  <2>3. level3[p][k].start \in Nat
    BY <2>2, Sizes DEF SmallChunks
  <2> QED
    BY <1>1, <2>1, <2>3, ReadIs
<1>5. Rows(p) \in [1 .. n -> Seq(Tuples)]
  BY <1>3, <1>4 DEF Rows
<1>6. Rows(p) \in Seq(Seq(Tuples)) /\ Len(Rows(p)) = n
  BY <1>5, FunctionIsSeq
<1> QED
  BY <1>3, <1>6 DEF ReadPartition, Rows

\* A tuple in another small chunk, or before in the same, stays in memory.
LEMMA OthersKept ==
  ASSUME IInv, IInv', MemoryApart, NEW tuple \in Tuples, NEW p \in Partitions,
         NEW n, StoredIn(p, tuple, n), NEW m \in memory, NEW q \in Partitions,
         NEW k \in DOMAIN level3'[q], m.chunk = level3'[q][k].chunk,
         level3'[q][k].start <= m.at, m.at + TupleSize <= level3'[q][k].current,
         <<q, k>> = <<p, n>> => m.at + TupleSize <= level3'[p][n].current - TupleSize
  PROVE  m \in memory'
<1>1. /\ n \in DOMAIN level3'[p]
      /\ level3'[p][n].start \in Nat /\ level3'[p][n].current \in Nat
      /\ level3'[p][n].end \in Nat
      /\ level3'[p][n].start + TupleSize <= level3'[p][n].current
      /\ level3'[p][n].current <= level3'[p][n].end
  BY LastChunk
<1>2. level3'[q][k] \in SmallChunks' /\ level3'[q][k].current <= level3'[q][k].end
  BY DEF IInv, TypeOK, FilledInside
<1>3. /\ level3'[q][k].start \in Nat /\ level3'[q][k].current \in Nat
      /\ level3'[q][k].end \in Nat /\ m.at \in Nat /\ TupleSize \in Nat \ {0}
  BY <1>2, Sizes DEF SmallChunks, MemoryApart
<1>4. ~Overlaps(m, level3'[p][n].chunk, level3'[p][n].current - TupleSize)
  <2>1. CASE <<q, k>> = <<p, n>>
    BY <1>1, <1>3, <2>1 DEF Overlaps
  <2>2. CASE <<q, k>> # <<p, n>>
    <3>1. Disjoint(level3'[q][k], level3'[p][n])
      BY <1>1, <2>2 DEF IInv, ChunksDisjoint
    <3>2. CASE level3'[q][k].chunk # level3'[p][n].chunk
      BY <3>2 DEF Overlaps
    <3>3. CASE level3'[q][k].end <= level3'[p][n].start
      BY <1>1, <1>2, <1>3, <3>3 DEF Overlaps
    <3>4. CASE level3'[p][n].end <= level3'[q][k].start
      BY <1>1, <1>2, <1>3, <3>4 DEF Overlaps
    <3> QED BY <3>1, <3>2, <3>3, <3>4 DEF Disjoint
  <2> QED BY <2>1, <2>2
<1> QED
  BY <1>4 DEF StoredIn

\* Small chunk k of partition q is read after a step as before it.
SameRead(q, k) ==
  /\ k \in DOMAIN level3[q]
  /\ \E m \in Nat : Holds(level3[q][k], m)'
  /\ ReadChunk(level3[q][k])' = ReadChunk(level3[q][k])

LEMMA OthersRead ==
  ASSUME IInv, IInv', MemoryApart, AllStored, LoadsBack, LoadsBack',
         NEW tuple \in Tuples, NEW p \in Partitions, NEW n, StoredIn(p, tuple, n),
         NEW q \in Partitions, NEW k \in DOMAIN level3'[q], <<q, k>> # <<p, n>>
  PROVE  SameRead(q, k)
<1>1. level3[p] \in Seq(SmallChunks) /\ level3'[p] \in Seq(SmallChunks') /\ n \in Nat \ {0}
  BY DEF IInv, TypeOK, StoredIn
<1>2. k \in DOMAIN level3[q] /\ level3'[q][k] = level3[q][k]
  <2>1. CASE q # p
    BY <2>1 DEF StoredIn
  <2>2. CASE q = p
    <3>1. k \in 1 .. n - 1
      BY <1>1, <2>2 DEF StoredIn
    <3>2. Len(level3[p]) \in Nat /\ n - 1 <= Len(level3[p])
      BY <1>1 DEF StoredIn
    <3>3. k \in DOMAIN level3[p]
      BY <1>1, <3>1, <3>2
    <3> QED BY <2>2, <3>1, <3>3 DEF StoredIn
  <2> QED BY <2>1, <2>2
<1>3. PICK small : small = level3[q][k] /\ small = level3'[q][k]
  BY <1>2
<1>4. PICK m \in Nat : Holds(level3[q][k], m)
  BY <1>2 DEF AllStored
<1>5. Holds(small, m)
  BY <1>3, <1>4
<1>6. small.start \in Nat
  <2>1. level3[q][k] \in SmallChunks
    BY <1>2 DEF IInv, TypeOK
  <2> QED BY <1>3, <2>1, Sizes DEF SmallChunks
<1>7. ASSUME NEW o \in memory, o.chunk = small.chunk,
             small.start <= o.at, o.at + TupleSize <= small.current
      PROVE  o \in memory'
  BY <1>3, <1>7, OthersKept
<1>8. Holds(small, m)' /\ ReadChunk(small)' = ReadChunk(small)
  BY <1>5, <1>6, <1>7, ChunkKept
<1>9. Holds(level3[q][k], m)'
  BY <1>3, <1>8 DEF Holds
<1>10. ReadChunk(level3[q][k])' = ReadChunk(level3[q][k])
  BY <1>3, <1>8 DEF ReadChunk, Load
<1> QED
  BY <1>2, <1>9, <1>10 DEF SameRead

\* The chunk that takes the tuple is read with the tuple at its end.
LEMMA LastRead ==
  ASSUME IInv, IInv', MemoryApart, AllStored, LoadsBack, LoadsBack',
         NEW tuple \in Tuples, NEW p \in Partitions, NEW n, StoredIn(p, tuple, n)
  PROVE  /\ \E m \in Nat : Holds(level3[p][n], m)'
         /\ Len(level3[p]) = n =>
              /\ ReadChunk(level3[p][n]) \in Seq(Tuples)
              /\ ReadChunk(level3[p][n])' = Append(ReadChunk(level3[p][n]), tuple)
         /\ Len(level3[p]) # n =>
              /\ Len(level3[p]) = n - 1
              /\ ReadChunk(level3[p][n])' = Append(<<>>, tuple)
<1>1. PICK big : big = level3'[p][n]
  OBVIOUS
<1>2. /\ n \in DOMAIN level3'[p] /\ big.start \in Nat /\ big.current \in Nat
      /\ big.start + TupleSize <= big.current
  BY <1>1, LastChunk
<1>3. TypeOK /\ level3[p] \in Seq(SmallChunks) /\ n \in Nat \ {0}
  BY DEF IInv, TypeOK, StoredIn
<1> DEFINE o == [chunk |-> big.chunk, at |-> big.current - TupleSize, tuple |-> tuple]
<1>4. /\ o \in memory' /\ o.chunk = big.chunk /\ o.at = big.current - TupleSize
      /\ o.tuple = tuple
  BY <1>1 DEF StoredIn
<1> HIDE DEF o
<1>5. ASSUME NEW small, NEW m \in Nat, Holds(small, m), small.chunk = big.chunk,
             small.start = big.start, big.current = small.current + TupleSize
      PROVE  Holds(big, m + 1)' /\ ReadChunk(big)' = Append(ReadChunk(small), tuple)
  <2>1. m * TupleSize \in Nat /\ small.current = small.start + m * TupleSize
    BY <1>5, Multiples DEF Holds
  <2>2. small.current \in Nat /\ small.current = big.current - TupleSize
    BY <1>2, <1>5, <2>1, Sizes
  <2>3. ASSUME NEW x \in memory, x.chunk = small.chunk,
               small.start <= x.at, x.at + TupleSize <= small.current
        PROVE  x \in memory'
    <3>1. x.at \in Nat
      BY DEF MemoryApart
    <3>2. /\ x.chunk = level3'[p][n].chunk /\ level3'[p][n].start <= x.at
          /\ x.at + TupleSize <= level3'[p][n].current - TupleSize
          /\ x.at + TupleSize <= level3'[p][n].current
      BY <1>1, <1>2, <1>5, <2>2, <2>3, <3>1, Sizes
    <3> QED
      BY <1>2, <3>2, OthersKept
  <2>4. o.chunk = small.chunk /\ o.at = small.current /\ o.tuple \in Tuples
    BY <1>4, <1>5, <2>2
  <2>5. big.chunk = small.chunk /\ big.start = small.start /\ small.start \in Nat
    BY <1>2, <1>5
  <2> QED
    BY <1>3, <1>4, <1>5, <2>3, <2>4, <2>5, ChunkGrown
<1>6. CASE Len(level3[p]) = n
  <2>1. n \in DOMAIN level3[p]
    BY <1>3, <1>6
  <2>2. PICK small : small = level3[p][n]
    OBVIOUS
  <2>3. PICK m \in Nat : Holds(small, m)
    BY <2>1, <2>2 DEF AllStored
  <2>4. /\ small.chunk = big.chunk /\ small.start = big.start
        /\ big.current = small.current + TupleSize
    BY <1>1, <1>3, <1>6, <2>2 DEF StoredIn
  <2>5. Holds(big, m + 1)' /\ ReadChunk(big)' = Append(ReadChunk(small), tuple)
    BY <1>5, <2>3, <2>4
  <2>6. ReadChunk(small) \in Seq(Tuples)
    BY <1>2, <1>3, <2>3, <2>4, ReadIs
  <2>7. Holds(level3[p][n], m + 1)'
    BY <1>1, <2>5 DEF Holds
  <2>8. ReadChunk(level3[p][n])' = ReadChunk(big)'
    BY <1>1 DEF ReadChunk, Load
  <2> QED
    BY <1>6, <2>2, <2>5, <2>6, <2>7, <2>8
<1>7. CASE Len(level3[p]) # n
  <2>1. Len(level3[p]) = n - 1 /\ big.current = big.start + TupleSize
    BY <1>1, <1>7 DEF StoredIn
  <2> DEFINE small == [chunk |-> big.chunk, start |-> big.start, current |-> big.start]
  <2>2. /\ small.chunk = big.chunk /\ small.start = big.start
        /\ small.current = big.start
    OBVIOUS
  <2> HIDE DEF small
  <2>3. Holds(small, 0)
    <3>1. big.start = big.start + 0 * TupleSize
      BY <1>2, Sizes
    <3> QED BY <2>2, <3>1 DEF Holds
  <2>4. Holds(big, 0 + 1)' /\ ReadChunk(big)' = Append(ReadChunk(small), tuple)
    BY <1>5, <2>1, <2>2, <2>3
  <2>5. ReadChunk(small) = <<>>
    <3>1. ReadChunk(small) \in Seq(Tuples) /\ Len(ReadChunk(small)) = 0
      BY <1>2, <1>3, <2>2, <2>3, ReadIs
    <3> QED BY <3>1, EmptySeq
  <2>7. Holds(level3[p][n], 0 + 1)'
    BY <1>1, <2>4 DEF Holds
  <2>8. ReadChunk(level3[p][n])' = ReadChunk(big)'
    BY <1>1 DEF ReadChunk, Load
  <2> QED
    BY <1>7, <2>1, <2>4, <2>5, <2>7, <2>8
<1> QED
  BY <1>6, <1>7

LEMMA SeqsEqual ==
  ASSUME NEW U, NEW r, NEW s, r \in Seq(U), s \in Seq(U), NEW n \in Nat, Len(r) = n, Len(s) = n,
         \A k \in 1 .. n : r[k] = s[k]
  PROVE  r = s
BY SeqEqual

LEMMA AppendSeqs ==
  ASSUME NEW U, NEW r, NEW s, r \in Seq(U), s \in Seq(U), NEW n \in Nat, n # 0,
         Len(r) = n - 1, Len(s) = n, \A k \in 1 .. n - 1 : s[k] = r[k]
  PROVE  s = Append(r, s[n])
<1>1. s[n] \in U
  BY ElementOfSeq
<1>2. /\ Append(r, s[n]) \in Seq(U) /\ Len(Append(r, s[n])) = n
      /\ \A k \in 1 .. n : Append(r, s[n])[k] = s[k]
  BY <1>1
<1> QED
  BY <1>2, SeqEqual

\* The n small chunks of a partition are read as r, and then as s: the last one with
\* x at its end, and it may be new.
ReadWith(S, r, s, n, x) ==
  /\ r \in Seq(Seq(S)) /\ s \in Seq(Seq(S)) /\ x \in S
  /\ n \in Nat /\ n # 0 /\ Len(s) = n
  /\ \A k \in 1 .. n - 1 : s[k] = r[k]
  /\ \/ Len(r) = n /\ r[n] \in Seq(S) /\ s[n] = Append(r[n], x)
     \/ Len(r) = n - 1 /\ s[n] = Append(<<>>, x)

LEMMA PartitionRead ==
  ASSUME NEW S, NEW r, NEW s, NEW n, NEW x, ReadWith(S, r, s, n, x)
  PROVE  FlattenSeq(s) = Append(FlattenSeq(r), x)
<1>1. /\ r \in Seq(Seq(S)) /\ s \in Seq(Seq(S))
      /\ <<x>> \in Seq(S) /\ n \in Nat /\ n # 0 /\ Len(s) = n
      /\ \A k \in 1 .. n - 1 : s[k] = r[k]
  BY DEF ReadWith
<1>2. PICK y : y = <<x>>
  OBVIOUS
<1>3. FlattenSeq(s) = FlattenSeq(r) \o y
  <2>1. CASE Len(r) = n
    <3>1. r[n] \in Seq(S) /\ s[n] = Append(r[n], x)
      BY <1>1, <2>1 DEF ReadWith
    <3>2. s[n] = r[n] \o y
      <4>1. x \in S
        BY DEF ReadWith
      <4> QED BY <1>2, <3>1, <4>1, AppendIsConcat
    <3>3. GrownBy(S, r, s, y)
      BY <1>1, <1>2, <2>1, <3>2 DEF GrownBy
    <3> QED BY <3>3, FlattenGrown
  <2>2. CASE Len(r) = n - 1 /\ s[n] = Append(<<>>, x)
    <3>1. s[n] = y
      BY <1>2, <2>2
    <3>2. s = Append(r, y)
      <4>1. PICK U : U = Seq(S)
        OBVIOUS
      <4>2. r \in Seq(U) /\ s \in Seq(U)
        BY <1>1, <4>1
      <4>3. n \in Nat /\ n # 0 /\ Len(s) = n /\ \A k \in 1 .. n - 1 : s[k] = r[k]
        BY <1>1
      <4>4. s = Append(r, s[n])
        BY <2>2, <4>2, <4>3, AppendSeqs
      <4> QED BY <3>1, <4>4
    <3>3. FlattenSeq(Append(r, y)) = FlattenSeq(r) \o y
      BY <1>1, <1>2, FlattenAppend
    <3> QED BY <3>2, <3>3
  <2> QED BY <2>1, <2>2 DEF ReadWith
<1>4. FlattenSeq(r) \in Seq(S) /\ x \in S
  BY <1>1, FlattenType DEF ReadWith
<1> QED
  BY <1>2, <1>3, <1>4, AppendIsConcat

\* After consume, merge_phase reads the tuple at the end of its partition and
\* everything else as before.
LEMMA ConsumeReads ==
  ASSUME IInv, IInv', MemoryApart, AllStored,
         NEW tuple \in Tuples, NEW p \in Partitions, NEW n, StoredIn(p, tuple, n)
  PROVE  /\ MemoryApart' /\ AllStored'
         /\ \A q \in Partitions \ {p} : ReadPartition(q)' = ReadPartition(q)
         /\ ReadPartition(p)' = Append(ReadPartition(p), tuple)
<1>1. MemoryApart'
  BY ConsumeKeepsApart
<1>2. LoadsBack /\ LoadsBack'
  BY <1>1, LoadIs, PTL
<1>3. AllStored'
  <2>1. ASSUME NEW q \in Partitions, NEW k \in DOMAIN level3'[q]
        PROVE  \E m \in Nat : Holds(level3[q][k], m)'
    <3>1. CASE <<q, k>> # <<p, n>>
      BY <1>2, <3>1, OthersRead DEF SameRead
    <3>2. CASE q = p /\ k = n
      BY <1>2, <3>2, LastRead
    <3> QED BY <3>1, <3>2
  <2> QED BY <2>1 DEF AllStored
<1>4. RowsRead /\ RowsRead'
  BY <1>1, <1>3, RowsAre, PTL
<1>5. ASSUME NEW q \in Partitions, NEW k \in DOMAIN level3'[q], <<q, k>> # <<p, n>>
      PROVE  Rows(q)'[k] = Rows(q)[k]
  <2>1. SameRead(q, k)
    BY <1>2, <1>5, OthersRead
  <2>2. Rows(q)[k] = ReadChunk(level3[q][k])
    BY <2>1 DEF Rows, SameRead
  <2>3. Rows(q)'[k] = ReadChunk(level3[q][k])'
    BY DEF Rows
  <2> QED BY <2>1, <2>2, <2>3 DEF SameRead
<1>6. ASSUME NEW q \in Partitions \ {p}
      PROVE  ReadPartition(q)' = ReadPartition(q)
  <2>1. PICK r, s, U : r = Rows(q) /\ s = Rows(q)' /\ U = Seq(Tuples)
    OBVIOUS
  <2>2. PICK m \in Nat : m = Len(level3[q]) /\ m = Len(level3'[q]) /\ DOMAIN level3'[q] = 1 .. m
    BY <1>4 DEF RowsRead, StoredIn
  <2>3. /\ r \in Seq(U) /\ s \in Seq(U) /\ Len(r) = m /\ Len(s) = m
    BY <1>4, <2>1, <2>2 DEF RowsRead
  <2>4. \A k \in 1 .. m : r[k] = s[k]
    BY <1>5, <2>1, <2>2
  <2>5. r = s
    BY <2>3, <2>4, SeqsEqual
  <2> QED BY <1>4, <2>1, <2>5 DEF RowsRead
<1>7. ReadPartition(p)' = Append(ReadPartition(p), tuple)
  <2>1. PICK r, s : r = Rows(p) /\ s = Rows(p)'
    OBVIOUS
  <2>2. /\ r \in Seq(Seq(Tuples)) /\ s \in Seq(Seq(Tuples))
        /\ ReadPartition(p) = FlattenSeq(r) /\ ReadPartition(p)' = FlattenSeq(s)
    BY <1>4, <2>1 DEF RowsRead
  <2>3. /\ n \in Nat /\ n # 0 /\ Len(level3'[p]) = n /\ DOMAIN level3'[p] = 1 .. n
        /\ Len(s) = n /\ Len(r) = Len(level3[p])
        /\ DOMAIN level3[p] = 1 .. Len(level3[p])
    BY <1>4, <2>1 DEF RowsRead, StoredIn
  <2>4. \A k \in 1 .. n - 1 : s[k] = r[k]
    <3> TAKE k \in 1 .. n - 1
    <3>1. k \in DOMAIN level3'[p] /\ <<p, k>> # <<p, n>>
      BY <2>3
    <3> QED BY <1>5, <2>1, <3>1
  <2>5. s[n] = ReadChunk(level3[p][n])'
    <3>1. n \in DOMAIN level3'[p]
      BY <2>3
    <3> QED BY <2>1, <3>1 DEF Rows
  <2>6. ASSUME Len(level3[p]) = n PROVE ReadWith(Tuples, r, s, n, tuple)
    <3>1. r[n] = ReadChunk(level3[p][n])
      <4>1. n \in DOMAIN level3[p]
        BY <2>3, <2>6
      <4> QED BY <2>1, <4>1 DEF Rows
    <3>2. r[n] \in Seq(Tuples) /\ s[n] = Append(r[n], tuple) /\ Len(r) = n
      BY <1>2, <2>3, <2>5, <2>6, <3>1, LastRead
    <3> QED BY <2>2, <2>3, <2>4, <3>2 DEF ReadWith
  <2>7. ASSUME Len(level3[p]) # n PROVE ReadWith(Tuples, r, s, n, tuple)
    <3>1. Len(r) = n - 1 /\ s[n] = Append(<<>>, tuple)
      BY <1>2, <2>3, <2>5, <2>7, LastRead
    <3> QED BY <2>2, <2>3, <2>4, <3>1 DEF ReadWith
  <2>8. ReadWith(Tuples, r, s, n, tuple)
    BY <2>6, <2>7
  <2>9. FlattenSeq(s) = Append(FlattenSeq(r), tuple)
    BY <2>8, PartitionRead
  <2> QED BY <2>2, <2>9
<1> QED
  BY <1>1, <1>3, <1>6, <1>7

-----------------------------------------------------------------------------
(* The invariant of what is read, and the abstract collector.              *)

LEMMA InitRead == Init => ReadInv
<1> SUFFICES ASSUME Init PROVE ReadInv
  OBVIOUS
<1>1. IInv
  BY InitInv
<1>2. \A p \in Partitions : level3[p] = <<>> /\ counts[p] = 0
  BY DEF Init
<1>3. \A p \in Partitions : ReadPartition(p) = <<>>
  <2> TAKE p \in Partitions
  <2>1. [k \in DOMAIN level3[p] |-> ReadChunk(level3[p][k])] = <<>>
    BY <1>2
  <2> QED BY <2>1, FlattenEmpty DEF ReadPartition
<1> QED
  BY <1>1, <1>2, <1>3 DEF Init, ReadInv, MemoryApart, AllStored, CountsExact

LEMMA ResetRead ==
  ASSUME ReadInv, Reset
  PROVE  ReadInv' /\ \A p \in Partitions : ReadPartition(p)' = <<>>
<1>1. IInv'
  BY ResetStep DEF ReadInv
<1>2. /\ \A p \in Partitions : level3'[p] = <<>> /\ counts'[p] = 0
      /\ memory' = memory
  BY DEF Reset, ResetCounts
<1>3. \A p \in Partitions : ReadPartition(p)' = <<>>
  <2> TAKE p \in Partitions
  <2>1. [k \in DOMAIN level3'[p] |-> ReadChunk(level3[p][k])'] = <<>>
    BY <1>2
  <2> QED BY <2>1, FlattenEmpty DEF ReadPartition
<1> QED
  BY <1>1, <1>2, <1>3 DEF ReadInv, MemoryApart, AllStored, CountsExact

LEMMA ConsumeRead ==
  ASSUME ReadInv, NEW tuple \in Tuples, Consume(tuple)
  PROVE  /\ ReadInv'
         /\ \A q \in Partitions :
              /\ ReadPartition(q) \in Seq(Tuples)
              /\ ReadPartition(q)' = IF q = PartOf[tuple] THEN Append(ReadPartition(q), tuple)
                                                          ELSE ReadPartition(q)
<1>1. PICK p \in Partitions : p = PartOf[tuple]
  BY PartOfAssumption
<1>2. IInv /\ IInv' /\ MemoryApart /\ AllStored
  BY ConsumeStep DEF ReadInv
<1>3. PICK n : StoredIn(p, tuple, n)
  BY <1>1, <1>2, ConsumeStores
<1>4. /\ MemoryApart' /\ AllStored'
      /\ \A q \in Partitions \ {p} : ReadPartition(q)' = ReadPartition(q)
      /\ ReadPartition(p)' = Append(ReadPartition(p), tuple)
  BY <1>2, <1>3, ConsumeReads
<1>5. \A q \in Partitions : ReadPartition(q) \in Seq(Tuples)
  BY <1>2, RowsAre, FlattenType DEF RowsRead
<1>6. CountsExact'
  <2>1. ASSUME NEW q \in Partitions PROVE counts'[q] = Len(ReadPartition(q)')
    <3>1. counts[q] = Len(ReadPartition(q)) /\ counts \in [Partitions -> Nat]
      BY <1>2 DEF ReadInv, CountsExact, IInv, TypeOK
    <3>2. counts'[q] = IF q = p THEN counts[q] + 1 ELSE counts[q]
      BY <1>3, <3>1 DEF StoredIn
    <3>3. Len(Append(ReadPartition(q), tuple)) = Len(ReadPartition(q)) + 1
      BY <1>5, AppendProperties
    <3> QED BY <1>4, <3>1, <3>2, <3>3
  <2> QED BY <2>1 DEF CountsExact
<1> QED
  BY <1>1, <1>2, <1>4, <1>5, <1>6 DEF ReadInv

LEMMA StutterRead ==
  ASSUME ReadInv, UNCHANGED vars
  PROVE  ReadInv' /\ \A q \in Partitions : ReadPartition(q)' = ReadPartition(q)
<1>1. IInv'
  BY InvStep DEF ReadInv
<1>2. UNCHANGED <<level3, counts, memory>>
  BY DEF vars
<1>3. \A q \in Partitions : ReadPartition(q)' = ReadPartition(q)
  BY <1>2 DEF ReadPartition, ReadChunk, Load
<1> QED
  BY <1>1, <1>2, <1>3 DEF ReadInv, MemoryApart, AllStored, Holds, CountsExact

LEMMA ReadStep == ReadInv /\ [Next]_vars => ReadInv'
BY ResetRead, ConsumeRead, StutterRead DEF Next

\* The chunks a collector reads back hold whole tuples, none of them overwritten since.
THEOREM ReadInvariant == Spec => []ReadInv
<1> QED
  BY InitRead, ReadStep, PTL DEF Spec

\* merge_phase reads as many tuples from the small chunks of a partition as counts, from
\* which the prefix sums of the join are computed, says there are.
THEOREM CountsMatch == Spec => []CountsMatchMemory
<1>1. ReadInv => CountsMatchMemory
  <2> SUFFICES ASSUME ReadInv, NEW p \in Partitions
               PROVE  /\ counts[p] = Len(ReadPartition(p))
                      /\ \A k \in DOMAIN level3[p] :
                           (level3[p][k].current - level3[p][k].start) % TupleSize = 0
    BY DEF CountsMatchMemory
  <2>1. counts[p] = Len(ReadPartition(p))
    BY DEF ReadInv, CountsExact
  <2>2. ASSUME NEW k \in DOMAIN level3[p]
        PROVE  (level3[p][k].current - level3[p][k].start) % TupleSize = 0
    <3>1. PICK n \in Nat : Holds(level3[p][k], n)
      BY DEF ReadInv, AllStored
    <3>2. level3[p][k].start \in Nat
      <4>1. level3[p][k] \in SmallChunks
        BY DEF ReadInv, IInv, TypeOK
      <4> QED BY <4>1, Sizes DEF SmallChunks
    <3>3. LoadsBack /\ TypeOK
      BY LoadIs DEF ReadInv, IInv
    <3> QED BY <3>1, <3>2, <3>3, ReadIs
  <2> QED BY <2>1, <2>2
<1> QED
  BY <1>1, ReadInvariant, PTL

\* The slab allocator is a collector: each partition reads back as the sequence of the
\* tuples consumed for it since the last reset, whatever memory it got and had before.
THEOREM CollectorIsImplemented == Spec => ImplementsCollector
<1> DEFINE content == [p \in Partitions |-> ReadPartition(p)]
<1>1. Init => AbstractCollector!Init
  <2> SUFFICES ASSUME Init PROVE content = [p \in Partitions |-> <<>>]
    BY DEF AbstractCollector!Init
  <2>1. \A p \in Partitions : ReadPartition(p) = <<>>
    <3> TAKE p \in Partitions
    <3>1. level3[p] = <<>>
      BY DEF Init
    <3>2. [k \in DOMAIN level3[p] |-> ReadChunk(level3[p][k])] = <<>>
      BY <3>1
    <3> QED BY <3>2, FlattenEmpty DEF ReadPartition
  <2> QED BY <2>1
<1>2. ReadInv /\ [Next]_vars => [AbstractCollector!Next]_content
  <2> SUFFICES ASSUME ReadInv, [Next]_vars
               PROVE  AbstractCollector!Next \/ UNCHANGED content
    OBVIOUS
  <2>1. CASE Reset
    <3>1. \A p \in Partitions : ReadPartition(p)' = <<>>
      BY <2>1, ResetRead
    <3>2. AbstractCollector!Reset
      BY <3>1 DEF AbstractCollector!Reset
    <3> QED BY <3>2 DEF AbstractCollector!Next
  <2>2. CASE \E tuple \in Tuples : Consume(tuple)
    <3>1. PICK tuple \in Tuples : Consume(tuple)
      BY <2>2
    <3>2. \A q \in Partitions :
            ReadPartition(q)' = IF q = PartOf[tuple] THEN Append(ReadPartition(q), tuple)
                                                     ELSE ReadPartition(q)
      BY <3>1, ConsumeRead
    <3>3. AbstractCollector!Consume(tuple)
      BY <3>2, PartOfAssumption DEF AbstractCollector!Consume
    <3> QED BY <3>3 DEF AbstractCollector!Next
  <2>3. CASE UNCHANGED vars
    <3>1. \A q \in Partitions : ReadPartition(q)' = ReadPartition(q)
      BY <2>3, StutterRead
    <3> QED BY <3>1
  <2> QED BY <2>1, <2>2, <2>3 DEF Next
<1> QED
  BY <1>1, <1>2, ReadInvariant, PTL DEF Spec, ImplementsCollector, AbstractCollector!Spec
-----------------------------------------------------------------------------
(* Sums over finite sets: SumFunction, which is a fold.                    *)

\* h[s] is the sum of f over s, in the order in which the elements are chosen.
First(s) == CHOOSE x \in s : TRUE
SumOf(h, f, s) == IF s = {} THEN 0 ELSE f[First(s)] + h[s \ {First(s)}]
Sums(h, f, S) == h = [s \in SUBSET S |-> SumOf(h, f, s)]

LEMMA FirstRemoved ==
  ASSUME NEW S, IsFiniteSet(S), NEW n \in Nat, NEW s \in SUBSET S, s # {}, Cardinality(s) <= n + 1
  PROVE  /\ First(s) \in s /\ First(s) \in S
         /\ s \ {First(s)} \in SUBSET S
         /\ Cardinality(s \ {First(s)}) <= n
<1>1. First(s) \in s
  BY DEF First
<1>2. IsFiniteSet(s)
  BY FS_Subset
<1>3. Cardinality(s \ {First(s)}) = Cardinality(s) - 1 /\ Cardinality(s) \in Nat
  BY <1>1, <1>2, FS_RemoveElement, FS_CardinalityType
<1> QED
  BY <1>1, <1>3

LEMMA SumsExist ==
  ASSUME NEW S, IsFiniteSet(S), NEW f
  PROVE  \E h : Sums(h, f, S)
<1> DEFINE Below(n) == { s \in SUBSET S : Cardinality(s) <= n }
           T == { n \in Nat : \E h : h = [s \in Below(n) |-> SumOf(h, f, s)] }
<1>1. 0 \in T
  <2>1. Below(0) = { {} }
    <3>1. ASSUME NEW s \in SUBSET S, Cardinality(s) <= 0 PROVE s = {}
      <4>1. IsFiniteSet(s) /\ Cardinality(s) \in Nat
        BY FS_Subset, FS_CardinalityType
      <4>2. Cardinality(s) = 0
        BY <3>1, <4>1
      <4> QED BY <4>1, <4>2, FS_EmptySet
    <3>2. Cardinality({}) = 0
      BY FS_EmptySet
    <3> QED BY <3>1, <3>2
  <2> DEFINE h == [s \in { {} } |-> 0]
  <2>2. h = [s \in { {} } |-> SumOf(h, f, s)]
    BY DEF SumOf
  <2> HIDE DEF h
  <2> QED BY <2>1, <2>2
<1>2. ASSUME NEW n \in Nat, n \in T PROVE n + 1 \in T
  <2>1. PICK h : h = [s \in Below(n) |-> SumOf(h, f, s)]
    BY <1>2
  <2> DEFINE g == [s \in Below(n + 1) |-> SumOf(h, f, s)]
  <2>2. ASSUME NEW s \in Below(n + 1)
        PROVE  SumOf(h, f, s) = SumOf(g, f, s)
    <3>1. CASE s = {}
      BY <3>1 DEF SumOf
    <3>2. CASE s # {}
      <4> DEFINE r == s \ {First(s)}
      <4>1. r \in SUBSET S /\ Cardinality(r) <= n
        BY <3>2, FirstRemoved
      <4>2. r \in Below(n) /\ r \in Below(n + 1)
        <5>1. Cardinality(r) \in Nat
          BY <4>1, FS_Subset, FS_CardinalityType
        <5> QED BY <4>1, <5>1
      <4>3. g[r] = h[r]
        <5>1. h[r] = SumOf(h, f, r)
          BY <2>1, <4>2
        <5>2. g[r] = SumOf(h, f, r)
          BY <4>2
        <5> QED BY <5>1, <5>2
      <4> HIDE DEF g
      <4> QED BY <3>2, <4>3 DEF SumOf
    <3> QED BY <3>1, <3>2
  <2>3. PICK gg : gg = g
    OBVIOUS
  <2>4. gg = [s \in Below(n + 1) |-> SumOf(h, f, s)]
    BY <2>3
  <2>5. \A s \in Below(n + 1) : SumOf(h, f, s) = SumOf(gg, f, s)
    BY <2>2, <2>3
  <2>6. gg = [s \in Below(n + 1) |-> SumOf(gg, f, s)]
    BY <2>4, <2>5
  <2> QED BY <2>6, SMTT(30)
<1> HIDE DEF T
<1>3. \A n \in Nat : n \in T
  BY <1>1, <1>2, Induction
<1>4. Cardinality(S) \in T
  BY <1>3, FS_CardinalityType
<1>5. Below(Cardinality(S)) = SUBSET S
  <2>1. ASSUME NEW s \in SUBSET S PROVE Cardinality(s) <= Cardinality(S)
    BY FS_Subset
  <2> QED BY <2>1
<1> QED
  BY <1>4, <1>5 DEF T, Sums

LEMMA SumIs ==
  ASSUME NEW S, IsFiniteSet(S), NEW f, DOMAIN f = S
  PROVE  \E h : Sums(h, f, S) /\ SumFunction(f) = h[S]
<1> DEFINE h == CHOOSE h : Sums(h, f, S)
<1>1. Sums(h, f, S)
  BY SumsExist
<1>2. SumFunction(f) = h[S]
  BY DEF SumFunction, SumFunctionOnSet, FoldFunctionOnSet, MapThenFoldSet, Sums, SumOf, First
<1> QED
  BY <1>1, <1>2

\* Every set of numbers has a sum ...
LEMMA SumsType ==
  ASSUME NEW S, IsFiniteSet(S), NEW f \in [S -> Nat], NEW h, Sums(h, f, S)
  PROVE  \A s \in SUBSET S : h[s] \in Nat
<1> DEFINE T == { n \in Nat : \A s \in SUBSET S : Cardinality(s) <= n => h[s] \in Nat }
<1>1. \A s \in SUBSET S : h[s] = SumOf(h, f, s)
  BY DEF Sums
<1>2. 0 \in T
  <2> SUFFICES ASSUME NEW s \in SUBSET S, Cardinality(s) <= 0 PROVE h[s] \in Nat
    OBVIOUS
  <2>1. IsFiniteSet(s) /\ Cardinality(s) \in Nat
    BY FS_Subset, FS_CardinalityType
  <2>2. s = {}
    BY <2>1, FS_EmptySet
  <2> QED BY <1>1, <2>2 DEF SumOf
<1>3. ASSUME NEW n \in Nat, n \in T PROVE n + 1 \in T
  <2> SUFFICES ASSUME NEW s \in SUBSET S, Cardinality(s) <= n + 1 PROVE h[s] \in Nat
    OBVIOUS
  <2>1. CASE s = {}
    BY <1>1, <2>1 DEF SumOf
  <2>2. CASE s # {}
    <3>1. /\ First(s) \in S /\ s \ {First(s)} \in SUBSET S
          /\ Cardinality(s \ {First(s)}) <= n
      BY <2>2, FirstRemoved
    <3>2. h[s \ {First(s)}] \in Nat /\ f[First(s)] \in Nat
      BY <1>3, <3>1
    <3>3. h[s] = f[First(s)] + h[s \ {First(s)}]
      BY <1>1, <2>2 DEF SumOf
    <3> QED BY <3>2, <3>3
  <2> QED BY <2>1, <2>2
<1> HIDE DEF T
<1>4. \A n \in Nat : n \in T
  BY <1>2, <1>3, Induction
<1> QED
  <2> TAKE s \in SUBSET S
  <2>1. Cardinality(s) \in Nat
    BY FS_Subset, FS_CardinalityType
  <2> QED BY <1>4, <2>1 DEF T

\* ... and one more at p is one more in the sum.
LEMMA SumsOneMore ==
  ASSUME NEW S, IsFiniteSet(S), NEW f \in [S -> Nat], NEW g \in [S -> Nat], NEW p \in S,
         \A x \in S : g[x] = IF x = p THEN f[x] + 1 ELSE f[x],
         NEW h, NEW k, Sums(h, f, S), Sums(k, g, S)
  PROVE  \A s \in SUBSET S : k[s] = IF p \in s THEN h[s] + 1 ELSE h[s]
<1> DEFINE Agree(s) == k[s] = IF p \in s THEN h[s] + 1 ELSE h[s]
           T == { n \in Nat : \A s \in SUBSET S : Cardinality(s) <= n => Agree(s) }
<1>1. \A s \in SUBSET S : h[s] = SumOf(h, f, s) /\ k[s] = SumOf(k, g, s)
  BY DEF Sums
<1>2. 0 \in T
  <2> SUFFICES ASSUME NEW s \in SUBSET S, Cardinality(s) <= 0 PROVE Agree(s)
    OBVIOUS
  <2>1. IsFiniteSet(s) /\ Cardinality(s) \in Nat
    BY FS_Subset, FS_CardinalityType
  <2>2. s = {}
    BY <2>1, FS_EmptySet
  <2> QED BY <1>1, <2>2 DEF SumOf
<1>3. ASSUME NEW n \in Nat, n \in T PROVE n + 1 \in T
  <2> SUFFICES ASSUME NEW s \in SUBSET S, Cardinality(s) <= n + 1 PROVE Agree(s)
    OBVIOUS
  <2>1. CASE s = {}
    BY <1>1, <2>1 DEF SumOf
  <2>2. CASE s # {}
    <3>1. PICK x, r : x = First(s) /\ r = s \ {x}
      OBVIOUS
    <3>2. /\ x \in s /\ x \in S /\ r \in SUBSET S /\ Cardinality(r) <= n
      BY <2>2, <3>1, FirstRemoved
    <3>3. Agree(r) /\ f[x] \in Nat /\ h[r] \in Nat
      BY <1>3, <3>2, SumsType
    <3>4. h[s] = f[x] + h[r] /\ k[s] = g[x] + k[r]
      BY <1>1, <2>2, <3>1 DEF SumOf
    <3>5. g[x] = IF x = p THEN f[x] + 1 ELSE f[x]
      BY <3>2
    <3>6. CASE x = p
      <4>1. p \notin r /\ p \in s
        BY <3>1, <3>2, <3>6
      <4> QED BY <3>3, <3>4, <3>5, <3>6, <4>1
    <3>7. CASE x # p
      <4>1. p \in r <=> p \in s
        BY <3>1, <3>7
      <4> QED BY <3>3, <3>4, <3>5, <3>7, <4>1
    <3> QED BY <3>6, <3>7
  <2> QED BY <2>1, <2>2
<1> HIDE DEF T
<1>4. \A n \in Nat : n \in T
  BY <1>2, <1>3, Induction
<1> QED
  <2> TAKE s \in SUBSET S
  <2>1. Cardinality(s) \in Nat
    BY FS_Subset, FS_CardinalityType
  <2> QED BY <1>4, <2>1 DEF T

LEMMA SumOneMore ==
  ASSUME NEW S, IsFiniteSet(S), NEW f \in [S -> Nat], NEW g \in [S -> Nat], NEW p \in S,
         \A x \in S : g[x] = IF x = p THEN f[x] + 1 ELSE f[x]
  PROVE  SumFunction(g) = SumFunction(f) + 1
<1>1. PICK h : Sums(h, f, S) /\ SumFunction(f) = h[S]
  BY SumIs
<1>2. PICK k : Sums(k, g, S) /\ SumFunction(g) = k[S]
  BY SumIs
<1>3. k[S] = h[S] + 1
  BY <1>1, <1>2, SumsOneMore
<1> QED
  BY <1>1, <1>2, <1>3

LEMMA SumOfZeros ==
  ASSUME NEW S, IsFiniteSet(S), NEW f, DOMAIN f = S, \A x \in S : f[x] = 0
  PROVE  SumFunction(f) = 0
<1>1. PICK h : Sums(h, f, S) /\ SumFunction(f) = h[S]
  BY SumIs
<1> DEFINE T == { n \in Nat : \A s \in SUBSET S : Cardinality(s) <= n => h[s] = 0 }
<1>2. \A s \in SUBSET S : h[s] = SumOf(h, f, s)
  BY <1>1 DEF Sums
<1>3. 0 \in T
  <2> SUFFICES ASSUME NEW s \in SUBSET S, Cardinality(s) <= 0 PROVE h[s] = 0
    OBVIOUS
  <2>1. IsFiniteSet(s) /\ Cardinality(s) \in Nat
    BY FS_Subset, FS_CardinalityType
  <2>2. s = {}
    BY <2>1, FS_EmptySet
  <2> QED BY <1>2, <2>2 DEF SumOf
<1>4. ASSUME NEW n \in Nat, n \in T PROVE n + 1 \in T
  <2> SUFFICES ASSUME NEW s \in SUBSET S, Cardinality(s) <= n + 1 PROVE h[s] = 0
    OBVIOUS
  <2>1. CASE s = {}
    BY <1>2, <2>1 DEF SumOf
  <2>2. CASE s # {}
    <3>1. /\ First(s) \in S /\ s \ {First(s)} \in SUBSET S
          /\ Cardinality(s \ {First(s)}) <= n
      BY <2>2, FirstRemoved
    <3> QED BY <1>2, <1>4, <2>2, <3>1 DEF SumOf
  <2> QED BY <2>1, <2>2
<1> HIDE DEF T
<1>5. \A n \in Nat : n \in T
  BY <1>3, <1>4, Induction
<1>6. Cardinality(S) \in Nat /\ Cardinality(S) <= Cardinality(S)
  BY FS_CardinalityType
<1>7. h[S] = 0
  BY <1>5, <1>6 DEF T
<1> QED
  BY <1>1, <1>7

-----------------------------------------------------------------------------
(* When malloc is called.                                                  *)

\* The small chunks that a large chunk is cut into, and those cut since the reset.
PerLarge == LargeSize \div SmallSize
Lengths == [p \in Partitions |-> Len(level3[p])]
InUse == SumFunction(Lengths)

\* Every large chunk handed out before the current one is in use to the last small chunk.
CutInOrder ==
  \E j \in Nat :
    /\ current = j * SmallSize
    /\ chunk = 0 => j = 0 /\ InUse = 0
    /\ chunk # 0 => InUse = (chunk - 1) * PerLarge + j

LEMMA PerLargeIs ==
  ASSUME NEW j \in Nat, j * SmallSize <= LargeSize, LargeSize - j * SmallSize < SmallSize
  PROVE  j = PerLarge
<1>1. /\ SmallSize \in Nat \ {0} /\ LargeSize \in Nat /\ j * SmallSize \in Nat
      /\ (j + 1) * SmallSize = j * SmallSize + SmallSize
  BY Sizes
<1>2. PICK q : q = PerLarge
  OBVIOUS
<1>3. /\ q \in Nat /\ q * SmallSize \in Nat /\ (q + 1) * SmallSize = q * SmallSize + SmallSize
      /\ q * SmallSize <= LargeSize /\ LargeSize < q * SmallSize + SmallSize
  BY <1>1, <1>2 DEF PerLarge
<1>4. ASSUME NEW a \in Nat, NEW b \in Nat, a + 1 <= b
      PROVE  (a + 1) * SmallSize <= b * SmallSize
  BY <1>1, <1>4
<1>5. ~(j + 1 <= q)
  <2> SUFFICES ASSUME j + 1 <= q PROVE FALSE
    OBVIOUS
  <2>1. (j + 1) * SmallSize <= q * SmallSize
    BY <1>3, <1>4
  <2> QED BY <1>1, <1>3, <2>1
<1>6. ~(q + 1 <= j)
  <2> SUFFICES ASSUME q + 1 <= j PROVE FALSE
    OBVIOUS
  <2>1. (q + 1) * SmallSize <= j * SmallSize
    BY <1>3, <1>4
  <2> QED BY <1>1, <1>3, <2>1
<1>7. j = q
  BY <1>3, <1>5, <1>6
<1> QED
  BY <1>2, <1>7

\* When level 2 is out of space, every small chunk that was cut is in use.
LEMMA OutOfSpace ==
  ASSUME TypeOK, CutInOrder, remaining < SmallSize
  PROVE  InUse = free_chunk_idx * PerLarge
<1>1. PICK j \in Nat : /\ current = j * SmallSize
                       /\ chunk = 0 => j = 0 /\ InUse = 0
                       /\ chunk # 0 => InUse = (chunk - 1) * PerLarge + j
  BY DEF CutInOrder
<1>2. /\ chunk = free_chunk_idx /\ free_chunk_idx \in Nat
      /\ current \in 0 .. LargeSize
      /\ remaining = IF chunk = 0 THEN 0 ELSE LargeSize - current
  BY DEF TypeOK
<1>3. PerLarge \in Nat
  <2>1. SmallSize \in Nat \ {0} /\ LargeSize \in Nat
    BY Sizes
  <2> QED BY <2>1 DEF PerLarge
<1>4. CASE chunk = 0
  BY <1>1, <1>2, <1>3, <1>4
<1>5. CASE chunk # 0
  <2>1. j * SmallSize <= LargeSize /\ LargeSize - j * SmallSize < SmallSize
    BY <1>1, <1>2, <1>5, Sizes
  <2>2. j = PerLarge
    BY <2>1, PerLargeIs
  <2>3. InUse = (chunk - 1) * PerLarge + PerLarge
    BY <1>1, <1>5, <2>2
  <2>4. (chunk - 1) * PerLarge + PerLarge = chunk * PerLarge
    BY <1>2, <1>3, <1>5
  <2> QED BY <1>2, <2>3, <2>4
<1> QED
  BY <1>4, <1>5

LEMMA LengthsType == TypeOK => Lengths \in [Partitions -> Nat]
BY LenProperties DEF TypeOK, Lengths

\* A small chunk that is cut is in use at once.
LEMMA ConsumeUses ==
  ASSUME IInv, IInv', NEW tuple \in Tuples, Consume(tuple)
  PROVE  \/ allocate_small_chunk /\ InUse' = InUse + 1
         \/ UNCHANGED <<chunks, free_chunk_idx, chunk, current, remaining>> /\ InUse' = InUse
<1>1. PICK p \in Partitions : p = PartOf[tuple]
  BY PartOfAssumption
<1>2. TypeOK /\ TypeOK' /\ level3 \in [Partitions -> Seq(SmallChunks)]
  BY DEF IInv, TypeOK
<1>3. Lengths \in [Partitions -> Nat] /\ Lengths' \in [Partitions -> Nat]
  <2>1. Lengths' \in [Partitions -> Nat]
    BY <1>2, LenProperties DEF TypeOK, Lengths
  <2> QED BY <1>2, <2>1, LengthsType
<1>4. level3[p] \in Seq(SmallChunks) /\ Len(level3[p]) \in Nat
  BY <1>2
<1>5. CASE NeedsSpace(p)
  <2>1. PICK x : level3' = [level3 EXCEPT ![p] = Append(level3[p], x)] /\ allocate_small_chunk
    BY <1>1, <1>2, <1>5, ConsumeInNew
  <2>2. Len(level3'[p]) = Len(level3[p]) + 1
    <3>1. Len(Append(level3[p], x)) = Len(level3[p]) + 1
      <4>1. PICK T : T = SmallChunks \cup {x}
        OBVIOUS
      <4>2. level3[p] \in Seq(T) /\ x \in T
        BY <1>4, <4>1, SeqMonotonic
      <4> QED BY <4>2, AppendProperties
    <3> QED BY <1>2, <2>1, <3>1
  <2>3. \A q \in Partitions : Lengths'[q] = IF q = p THEN Lengths[q] + 1 ELSE Lengths[q]
    BY <1>2, <2>1, <2>2 DEF Lengths
  <2>4. PICK f, g : f = Lengths /\ g = Lengths'
    OBVIOUS
  <2>5. SumFunction(g) = SumFunction(f) + 1
    BY <1>3, <2>3, <2>4, SumOneMore, PartitionsFinite
  <2> QED BY <2>1, <2>4, <2>5 DEF InUse
<1>6. CASE ~NeedsSpace(p)
  <2>1. /\ UNCHANGED <<chunks, free_chunk_idx, chunk, current, remaining>>
        /\ Len(level3[p]) \in DOMAIN level3[p]
        /\ level3' = [level3 EXCEPT ![p] =
                        [level3[p] EXCEPT ![Len(level3[p])].current = @ + TupleSize]]
    BY <1>1, <1>2, <1>6, ConsumeInPlace
  <2>2. PICK n, x : n = Len(level3[p]) /\ level3'[p] = [level3[p] EXCEPT ![n] = x]
    BY <1>2, <2>1
  <2>3. Len(level3'[p]) = Len(level3[p])
    <3>1. DOMAIN level3'[p] = DOMAIN level3[p]
      BY <2>2
    <3>2. level3'[p] \in Seq(SmallChunks')
      BY <1>2 DEF TypeOK
    <3> QED BY <1>4, <3>1, <3>2, LenProperties
  <2>4. Lengths' = Lengths
    BY <1>2, <2>1, <2>3 DEF Lengths
  <2> QED BY <2>1, <2>4 DEF InUse
<1> QED
  BY <1>5, <1>6

LEMMA InitCut == Init => CutInOrder
<1> SUFFICES ASSUME Init PROVE CutInOrder
  OBVIOUS
<1>1. level3 = [p \in Partitions |-> <<>>] /\ chunk = 0 /\ current = 0
  BY DEF Init
<1>2. \A p \in Partitions : Lengths[p] = 0
  BY <1>1 DEF Lengths
<1>3. InUse = 0
  <2>1. PICK f : f = Lengths
    OBVIOUS
  <2>2. DOMAIN f = Partitions /\ \A p \in Partitions : f[p] = 0
    BY <1>2, <2>1 DEF Lengths
  <2> QED BY <2>1, <2>2, SumOfZeros, PartitionsFinite DEF InUse
<1>4. 0 * SmallSize = 0
  BY Sizes
<1> QED
  BY <1>1, <1>3, <1>4 DEF CutInOrder

LEMMA ConsumeCuts ==
  ASSUME IInv, CutInOrder, NEW tuple \in Tuples, Consume(tuple)
  PROVE  CutInOrder'
<1>1. IInv' /\ TypeOK
  BY ConsumeStep DEF IInv
<1>2. PICK j \in Nat : /\ current = j * SmallSize
                       /\ chunk = 0 => j = 0 /\ InUse = 0
                       /\ chunk # 0 => InUse = (chunk - 1) * PerLarge + j
  BY DEF CutInOrder
<1>3. /\ chunk = free_chunk_idx /\ free_chunk_idx \in Nat
      /\ remaining = IF chunk = 0 THEN 0 ELSE LargeSize - current
      /\ SmallSize \in Nat \ {0} /\ PerLarge \in Nat
  <2>1. SmallSize \in Nat \ {0} /\ LargeSize \in Nat
    BY Sizes
  <2> QED BY <1>1, <2>1 DEF TypeOK, PerLarge
<1>4. CASE allocate_small_chunk /\ InUse' = InUse + 1
  <2>1. CASE remaining < SmallSize
    <3>1. chunk' = chunk + 1 /\ current' = 0 + SmallSize
      BY <1>3, <1>4, <2>1 DEF allocate_small_chunk, allocate_large_chunk, CutFrom
    <3>2. InUse' = chunk * PerLarge + 1
      BY <1>1, <1>3, <1>4, <2>1, OutOfSpace
    <3>3. /\ current' = 1 * SmallSize /\ chunk' # 0
          /\ InUse' = (chunk' - 1) * PerLarge + 1
      BY <1>3, <3>1, <3>2
    <3> QED BY <3>3 DEF CutInOrder
  <2>2. CASE ~(remaining < SmallSize)
    <3>1. chunk' = chunk /\ current' = current + SmallSize /\ chunk # 0
      BY <1>3, <1>4, <2>2 DEF allocate_small_chunk, CutFrom
    <3>2. current' = (j + 1) * SmallSize
      BY <1>2, <1>3, <3>1
    <3>3. (chunk - 1) * PerLarge \in Nat
      BY <1>3, <3>1
    <3>4. InUse' = (chunk' - 1) * PerLarge + (j + 1)
      BY <1>2, <1>4, <3>1, <3>3
    <3> QED BY <3>1, <3>2, <3>4 DEF CutInOrder
  <2> QED BY <2>1, <2>2
<1>5. CASE UNCHANGED <<chunks, free_chunk_idx, chunk, current, remaining>> /\ InUse' = InUse
  BY <1>2, <1>5 DEF CutInOrder
<1> QED
  BY <1>1, <1>4, <1>5, ConsumeUses

LEMMA CutStep == IInv /\ CutInOrder /\ [Next]_vars => CutInOrder'
<1> SUFFICES ASSUME IInv, CutInOrder, [Next]_vars PROVE CutInOrder'
  OBVIOUS
<1>1. CASE Reset
  <2>1. level3' = [p \in Partitions |-> <<>>] /\ chunk' = 0 /\ current' = 0
    BY <1>1 DEF Reset, ResetLevel2
  <2>2. \A p \in Partitions : Lengths'[p] = 0
    BY <2>1 DEF Lengths
  <2>3. InUse' = 0
    <3>1. PICK f : f = Lengths'
      OBVIOUS
    <3>2. DOMAIN f = Partitions /\ \A p \in Partitions : f[p] = 0
      BY <2>2, <3>1 DEF Lengths
    <3> QED BY <3>1, <3>2, SumOfZeros, PartitionsFinite DEF InUse
  <2>4. 0 * SmallSize = 0
    BY Sizes
  <2> QED BY <2>1, <2>3, <2>4 DEF CutInOrder
<1>2. CASE \E tuple \in Tuples : Consume(tuple)
  BY <1>2, ConsumeCuts
<1>3. CASE UNCHANGED vars
  BY <1>3 DEF vars, CutInOrder, InUse, Lengths
<1> QED
  BY <1>1, <1>2, <1>3 DEF Next

\* malloc is called only when every small chunk of every large chunk is in use, for any
\* sizes: a context that is reused does not grow without need.
THEOREM MallocsWhenFull == Spec => MallocOnlyWhenFull
<1>1. IInv /\ CutInOrder /\ [Next]_vars =>
        [chunks' > chunks =>
           /\ free_chunk_idx = chunks
           /\ SumFunction([p \in Partitions |-> Len(level3[p])])
                = chunks * (LargeSize \div SmallSize)]_vars
  <2> SUFFICES ASSUME IInv, CutInOrder, [Next]_vars, chunks' > chunks
               PROVE  free_chunk_idx = chunks /\ InUse = chunks * PerLarge
    BY DEF InUse, PerLarge, Lengths
  <2>1. TypeOK /\ chunks \in Nat
    BY DEF IInv, TypeOK
  <2>2. PICK tuple \in Tuples : Consume(tuple)
    BY <2>1 DEF Next, Reset, vars
  <2>3. allocate_small_chunk
    <3>1. UNCHANGED chunks \/ allocate_small_chunk
      BY <2>2, ConsumeStep, ConsumeUses
    <3> QED BY <2>1, <3>1
  <2>4. remaining < SmallSize /\ free_chunk_idx = chunks
    BY <2>1, <2>3 DEF allocate_small_chunk, allocate_large_chunk, level1Vars
  <2> QED BY <2>1, <2>4, OutOfSpace
<1> QED
  BY <1>1, InitInv, InvStep, InitCut, CutStep, PTL DEF Spec, MallocOnlyWhenFull
=============================================================================
