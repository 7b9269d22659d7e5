------------------------ MODULE ParallelJoin_proofs ------------------------
(***************************************************************************)
(* Proofs about ParallelJoin for any number of threads, morsel size, hash  *)
(* function, tags and jobs.                                                *)
(*                                                                         *)
(* First part: types, morsels and slots.  No two threads own a common row  *)
(* or a common slot.                                                       *)
(*                                                                         *)
(* Second part: the three phases before the probe build an exact table.    *)
(* Every build row with a key is collected once, the prefix sums count     *)
(* them, and the merge threads, which share no slot and no tuple index,    *)
(* leave every tuple in the range of its slot.                             *)
(*                                                                         *)
(* Third part: the probe and the gathering turn the table into the join.   *)
(* The pairs emitted so far are the matches of the probe rows and indices  *)
(* compared so far, each of them once, and run_unchained implements the    *)
(* abstract join of JoinSpec.                                              *)
(***************************************************************************)
EXTENDS ParallelJoin, FiniteSetTheorems, TLAPS

-----------------------------------------------------------------------------
(* First part: types, morsels and slots.                                   *)

(* Arithmetic of the hash range: it is cut into NumPartitions parts, and   *)
(* each part into the slots of one partition.                              *)

\* h \div d is the q with d*q <= h < d*(q+1).
LEMMA DivBounds ==
  ASSUME NEW h \in Nat, NEW d \in Nat \ {0}
  PROVE  /\ h \div d \in Nat
         /\ d * (h \div d) <= h
         /\ h < d * ((h \div d) + 1)
OBVIOUS

LEMMA DivUnique ==
  ASSUME NEW h \in Nat, NEW d \in Nat \ {0}, NEW q \in Nat,
         d * q <= h, h < d * (q + 1)
  PROVE  h \div d = q
<1> DEFINE r == h \div d
<1>1. r \in Nat /\ d * r <= h /\ h < d * (r + 1)
  BY DivBounds
<1> HIDE DEF r
<1>2. ASSUME r + 1 <= q PROVE FALSE
  <2>1. d * (r + 1) <= d * q
    BY <1>1, <1>2
  <2> QED BY <1>1, <2>1
<1>3. ASSUME q + 1 <= r PROVE FALSE
  <2>1. d * (q + 1) <= d * r
    BY <1>1, <1>3
  <2> QED BY <1>1, <2>1
<1>4. r = q
  BY <1>1, <1>2, <1>3
<1> QED
  BY <1>4 DEF r

LEMMA MultipleDiv ==
  ASSUME NEW d \in Nat \ {0}, NEW q \in Nat
  PROVE  (d * q) \div d = q
<1>1. d * q \in Nat /\ d * q < d * (q + 1)
  OBVIOUS
<1> QED
  BY <1>1, DivUnique

\* A hash lies in the partition that owns its slot.
LEMMA SlotOfPartition ==
  ASSUME NEW n \in Nat \ {0}, NEW s \in Nat \ {0}, NEW w \in Nat \ {0}, NEW h \in Nat,
         h < (n * s) * w
  PROVE  LET slt  == h \div w
             part == h \div (s * w)
         IN  /\ slt \in 0 .. (n * s) - 1
             /\ part \in 0 .. n - 1
             /\ part * s <= slt
             /\ slt < (part + 1) * s
<1> DEFINE slt == h \div w
           part == h \div (s * w)
<1>1. /\ slt \in Nat /\ w * slt <= h /\ h < w * (slt + 1)
  BY DivBounds
<1>2. s * w \in Nat \ {0}
  OBVIOUS
<1>3. /\ part \in Nat /\ (s * w) * part <= h /\ h < (s * w) * (part + 1)
  BY <1>2, DivBounds
<1> HIDE DEF slt, part
<1>4. part * s <= slt
  <2>1. part * s \in Nat /\ (s * w) * part = w * (part * s)
    BY <1>3
  <2> SUFFICES ASSUME slt + 1 <= part * s PROVE FALSE
    BY <1>1, <2>1
  <2>2. w * (slt + 1) <= w * (part * s)
    BY <1>1, <2>1
  <2> QED BY <1>1, <1>3, <2>1, <2>2
<1>5. slt < (part + 1) * s
  <2>1. (part + 1) * s \in Nat /\ (s * w) * (part + 1) = w * ((part + 1) * s)
    BY <1>3
  <2> SUFFICES ASSUME (part + 1) * s <= slt PROVE FALSE
    BY <1>1, <2>1
  <2>2. w * ((part + 1) * s) <= w * slt
    BY <1>1, <2>1
  <2> QED BY <1>1, <1>3, <2>1, <2>2
<1>6. part <= n - 1
  <2> SUFFICES ASSUME n <= part PROVE FALSE
    BY <1>3
  <2>1. (s * w) * n <= (s * w) * part
    BY <1>2, <1>3
  <2>2. (n * s) * w = (s * w) * n
    OBVIOUS
  <2> QED BY <1>3, <2>1, <2>2
<1>7. slt <= (n * s) - 1
  <2> SUFFICES ASSUME n * s <= slt PROVE FALSE
    BY <1>1
  <2>1. w * (n * s) <= w * slt
    BY <1>1
  <2>2. (n * s) * w = w * (n * s)
    OBVIOUS
  <2> QED BY <1>1, <2>1, <2>2
<1> QED
  BY <1>1, <1>3, <1>4, <1>5, <1>6, <1>7 DEF slt, part

\* The sizes of one directory, and what FirstSlot cuts it into.
LEMMA Sizes ==
  ASSUME NEW b \in DirectorySizes
  PROVE  \E s, w \in Nat \ {0} :
           /\ b = NumPartitions * s
           /\ HashSize = (NumPartitions * s) * w
           /\ HashSize \div NumPartitions = s * w
           /\ HashSize \div b = w
<1>1. PICK s \in 1 .. HashSize, w \in 1 .. HashSize :
        b = NumPartitions * s /\ HashSize = b * w
  BY SizesAssumption
<1>2. /\ NumPartitions \in Nat \ {0} /\ HashSize \in Nat \ {0}
      /\ s \in Nat \ {0} /\ w \in Nat \ {0} /\ b \in Nat \ {0}
  BY <1>1, SizesAssumption
<1>3. HashSize = NumPartitions * (s * w) /\ s * w \in Nat
  BY <1>1, <1>2
<1>4. HashSize \div NumPartitions = s * w
  BY <1>2, <1>3, MultipleDiv
<1>5. HashSize \div b = w
  BY <1>1, <1>2, MultipleDiv
<1> QED
  BY <1>1, <1>2, <1>4, <1>5

LEMMA FirstSlots ==
  ASSUME bucket_cnt \in DirectorySizes
  PROVE  /\ \A p \in 0 .. NumPartitions : FirstSlot(p) \in 0 .. bucket_cnt
         /\ \A p, q \in 0 .. NumPartitions : p <= q => FirstSlot(p) <= FirstSlot(q)
<1>1. PICK s \in Nat \ {0} : bucket_cnt = NumPartitions * s
  BY Sizes
<1>2. NumPartitions \in Nat \ {0}
  BY SizesAssumption
<1>3. \A p \in 0 .. NumPartitions : FirstSlot(p) = p * s /\ p * s \in Nat
  <2> SUFFICES ASSUME NEW p \in 0 .. NumPartitions
               PROVE  FirstSlot(p) = p * s /\ p * s \in Nat
    OBVIOUS
  <2>1. p * bucket_cnt = NumPartitions * (p * s) /\ p * s \in Nat
    BY <1>1, <1>2
  <2> QED
    BY <1>2, <2>1, MultipleDiv DEF FirstSlot
<1>4. \A p, q \in 0 .. NumPartitions : p <= q => p * s <= q * s
  <2> SUFFICES ASSUME NEW p \in 0 .. NumPartitions, NEW q \in 0 .. NumPartitions, p <= q
               PROVE  p * s <= q * s
    OBVIOUS
  <2>1. q = p + (q - p) /\ q - p \in Nat /\ p \in Nat
    BY <1>2
  <2>2. q * s = p * s + (q - p) * s /\ (q - p) * s \in Nat /\ p * s \in Nat
    BY <1>2, <2>1
  <2> QED BY <2>2
<1> QED
  BY <1>1, <1>2, <1>3, <1>4

\* Every hash has a slot and a partition, and the partition owns the slot.
LEMMA SlotOwner ==
  ASSUME bucket_cnt \in DirectorySizes, NEW h \in 0 .. HashSize - 1
  PROVE  /\ bucket_index_from_hash(h, bucket_cnt) \in 0 .. bucket_cnt - 1
         /\ partition_of(h) \in Threads
         /\ FirstSlot(partition_of(h)) <= bucket_index_from_hash(h, bucket_cnt)
         /\ bucket_index_from_hash(h, bucket_cnt) < FirstSlot(partition_of(h) + 1)
<1>1. PICK s \in Nat \ {0}, w \in Nat \ {0} :
        /\ bucket_cnt = NumPartitions * s
        /\ HashSize = (NumPartitions * s) * w
        /\ HashSize \div NumPartitions = s * w
        /\ HashSize \div bucket_cnt = w
  BY Sizes
<1>2. NumPartitions \in Nat \ {0} /\ HashSize \in Nat \ {0}
  BY SizesAssumption
<1> DEFINE slt  == h \div w
           part == h \div (s * w)
<1>3. slt = bucket_index_from_hash(h, bucket_cnt) /\ part = partition_of(h)
  BY <1>1 DEF bucket_index_from_hash, partition_of
<1>4. h \in Nat /\ h < (NumPartitions * s) * w
  BY <1>1, <1>2
<1>5. /\ slt \in 0 .. (NumPartitions * s) - 1
      /\ part \in 0 .. NumPartitions - 1
      /\ part * s <= slt
      /\ slt < (part + 1) * s
  BY <1>2, <1>4, SlotOfPartition
<1> HIDE DEF slt, part
<1>6. \A p \in Nat : FirstSlot(p) = p * s
  <2> SUFFICES ASSUME NEW p \in Nat PROVE FirstSlot(p) = p * s
    OBVIOUS
  <2>1. p * bucket_cnt = NumPartitions * (p * s) /\ p * s \in Nat
    BY <1>1, <1>2
  <2> QED
    BY <1>2, <2>1, MultipleDiv DEF FirstSlot
<1>7. FirstSlot(part) = part * s /\ FirstSlot(part + 1) = (part + 1) * s
  BY <1>5, <1>6
<1> QED
  BY <1>1, <1>3, <1>5, <1>7 DEF Threads
-----------------------------------------------------------------------------
(* The inductive invariant.                                                *)

\* What the threads do in each stage of the main thread.
PcByStage ==
  \A t \in Threads :
    /\ stage = "build" => pc[t] \in {"claim", "rows", "exit"}
    /\ stage = "merge" => pc[t] \in {"count", "ranges", "scatter", "exit", "thrown"}
    /\ stage = "probe" => pc[t] \in {"claim", "rows", "compare", "exit", "thrown"}
    /\ stage \in {"idle", "tally", "gather", "done"} => pc[t] = "exit"

\* A merge thread walks over the slots of its partition.
RangesInside ==
  \A p \in Threads :
    pc[p] = "ranges" => FirstSlot(p) <= slot[p] /\ slot[p] < FirstSlot(p + 1)

\* A collector keeps a tuple under the partition of its hash.
TuplesInPartition ==
  \A t, p \in Threads : \A k \in 1 .. Len(collectors[t][p]) :
    partition_of(collectors[t][p][k].hash) = p

CountStored == stage = "probe" => tuple_count = total

IInv ==
  /\ Types
  /\ PcByStage
  /\ MorselsDisjoint
  /\ RangesInside
  /\ TuplesInPartition
  /\ CountStored
-----------------------------------------------------------------------------
(* Morsels.                                                                *)

LEMMA Columns ==
  ASSUME Types
  PROVE  /\ BuildColumn \in Seq(Keys \cup {Null})
         /\ ProbeColumn \in Seq(Keys \cup {Null})
         /\ MorselRows \in Nat
<1>1. job \in [left : Seq(Keys \cup {Null}), right : Seq(Keys \cup {Null}),
              build_left : BOOLEAN]
  BY DataAssumption DEF Types, MainTypes
<1>2. BuildColumn \in Seq(Keys \cup {Null}) /\ ProbeColumn \in Seq(Keys \cup {Null})
  BY <1>1 DEF BuildColumn, ProbeColumn
<1> QED
  BY <1>2 DEF MorselRows

\* fetch_add hands out a morsel that nobody has.
LEMMA ClaimMorsels ==
  ASSUME IInv, NEW t \in Threads, Claim(t)
  PROVE  MorselsDisjoint'
<1> DEFINE Holds(u) == pc[u] \in {"rows", "compare"}
<1>1. MorselRows \in Nat /\ next_row \in Nat /\ PageRows \in Nat \ {0}
  BY Columns, SizesAssumption DEF IInv, Types, MainTypes, MorselTypes, SlabTypes, MergeTypes
<1>2. MorselRows' = MorselRows
  BY DEF Claim, jobVars, MorselRows, BuildColumn, ProbeColumn
<1>3. next_row' = next_row + PageRows
  BY DEF Claim, MorselStride
<1>4. \A u \in Threads : row[u] \in Nat /\ row_end[u] \in Nat
  BY DEF IInv, Types, MainTypes, MorselTypes, SlabTypes, MergeTypes
<1>5. CASE next_row >= MorselRows
  <2>1. pc' = [pc EXCEPT ![t] = "exit"] /\ row' = row /\ row_end' = row_end
    BY <1>5 DEF Claim
  <2>2. \A u \in Threads : pc'[u] \in {"rows", "compare"} => u # t /\ Holds(u)
    BY <2>1 DEF IInv, Types, MainTypes, MorselTypes, SlabTypes, MergeTypes
  <2> QED
    BY <1>1, <1>2, <1>3, <1>4, <2>1, <2>2 DEF IInv, MorselsDisjoint
<1>6. CASE ~(next_row >= MorselRows)
  <2> DEFINE e == MorselEnd(next_row, MorselRows)
  <2>1. /\ pc' = [pc EXCEPT ![t] = "rows"]
        /\ row' = [row EXCEPT ![t] = next_row]
        /\ row_end' = [row_end EXCEPT ![t] = e]
    BY <1>6 DEF Claim
  <2>2. e \in Nat /\ next_row < e /\ e <= MorselRows /\ e <= next_row + PageRows
    BY <1>1, <1>6 DEF MorselEnd
  <2> HIDE DEF e
  <2>3. row'[t] = next_row /\ row_end'[t] = e
    BY <2>1 DEF IInv, Types, MainTypes, MorselTypes, SlabTypes, MergeTypes
  <2>4. ASSUME NEW u \in Threads, u # t, pc'[u] \in {"rows", "compare"}
        PROVE  /\ Holds(u) /\ row'[u] = row[u] /\ row_end'[u] = row_end[u]
               /\ row[u] < row_end[u] /\ row_end[u] <= MorselRows /\ row_end[u] <= next_row
    BY <2>1, <2>4 DEF IInv, Types, MorselTypes, MorselsDisjoint
  <2>5. ASSUME NEW u \in Threads, NEW v \in Threads, v # u,
               pc'[u] \in {"rows", "compare"}, pc'[v] \in {"rows", "compare"}
        PROVE  row_end'[u] <= row'[v] \/ row_end'[v] <= row'[u]
    <3>1. CASE u = t
      BY <2>3, <2>4, <2>5, <3>1
    <3>2. CASE v = t
      BY <2>3, <2>4, <2>5, <3>2
    <3>3. CASE u # t /\ v # t
      BY <2>4, <2>5, <3>3 DEF IInv, MorselsDisjoint
    <3> QED
      BY <3>1, <3>2, <3>3
  <2>6. ASSUME NEW u \in Threads, pc'[u] \in {"rows", "compare"}
        PROVE  row'[u] < row_end'[u] /\ row_end'[u] <= MorselRows' /\ row_end'[u] <= next_row'
    <3>1. CASE u = t
      BY <1>1, <1>2, <1>3, <2>2, <2>3, <3>1
    <3>2. CASE u # t
      BY <1>1, <1>2, <1>3, <1>4, <2>4, <2>6, <3>2
    <3> QED
      BY <3>1, <3>2
  <2> QED
    BY <2>5, <2>6 DEF MorselsDisjoint
<1> QED
  BY <1>5, <1>6

\* A thread that goes on to the next row stays inside its morsel.
LEMMA NextRowMorsels ==
  ASSUME IInv, NEW t \in Threads, pc[t] \in {"rows", "compare"}, NextRow(t),
         UNCHANGED <<stage, job>>
  PROVE  MorselsDisjoint'
<1>1. MorselRows' = MorselRows /\ MorselRows \in Nat
  BY Columns DEF IInv, MorselRows, BuildColumn, ProbeColumn
<1>2. row \in [Threads -> Nat] /\ row_end \in [Threads -> Nat] /\ pc \in [Threads -> Steps]
  BY DEF IInv, Types, MainTypes, MorselTypes, SlabTypes, MergeTypes
<1>3. /\ row' = [row EXCEPT ![t] = row[t] + 1]
      /\ row_end' = row_end /\ next_row' = next_row
      /\ pc' = [pc EXCEPT ![t] = IF row[t] + 1 < row_end[t] THEN "rows" ELSE "claim"]
  BY DEF NextRow
<1>4. ASSUME NEW u \in Threads, pc'[u] \in {"rows", "compare"}
      PROVE  /\ pc[u] \in {"rows", "compare"}
             /\ row[u] <= row'[u] /\ row'[u] < row_end[u]
  <2>1. CASE u = t
    BY <1>2, <1>3, <1>4, <2>1
  <2>2. CASE u # t
    <3>1. pc'[u] = pc[u] /\ row'[u] = row[u]
      BY <1>2, <1>3, <2>2
    <3> QED
      BY <1>2, <1>4, <3>1 DEF IInv, MorselsDisjoint
  <2> QED
    BY <2>1, <2>2
<1>5. \A u \in Threads : row'[u] \in Nat
  BY <1>2, <1>3
<1> QED
  BY <1>1, <1>2, <1>3, <1>4, <1>5 DEF IInv, MorselsDisjoint
-----------------------------------------------------------------------------
(* What a thread reads.                                                    *)

LEMMA RowRead ==
  ASSUME IInv, NEW t \in Threads, pc[t] \in {"rows", "compare"}
  PROVE  /\ row[t] \in Nat
         /\ stage = "build" => get_value(BuildColumn, row[t]) \in Keys \cup {Null}
         /\ stage = "probe" => get_value(ProbeColumn, row[t]) \in Keys \cup {Null}
<1>1. /\ row[t] \in Nat /\ row_end[t] \in Nat
      /\ row[t] < row_end[t] /\ row_end[t] <= MorselRows
  BY DEF IInv, Types, MorselTypes, MorselsDisjoint
<1>2. /\ BuildColumn \in Seq(Keys \cup {Null})
      /\ ProbeColumn \in Seq(Keys \cup {Null})
      /\ MorselRows \in Nat
  BY Columns DEF IInv
<1>3. CASE stage = "build"
  <2>1. row[t] + 1 \in 1 .. Len(BuildColumn)
    BY <1>1, <1>2, <1>3 DEF MorselRows
  <2> QED
    BY <1>1, <1>2, <1>3, <2>1 DEF get_value
<1>4. CASE stage = "probe"
  <2>1. row[t] + 1 \in 1 .. Len(ProbeColumn)
    BY <1>1, <1>2, <1>4 DEF MorselRows
  <2> QED
    BY <1>1, <1>2, <1>4, <2>1 DEF get_value
<1> QED
  BY <1>1, <1>3, <1>4

\* A tuple made of a key of the build column.
LEMMA BuildTupleType ==
  ASSUME IInv, NEW r \in Nat, get_value(BuildColumn, r) \in Keys
  PROVE  BuildTuple(r) \in Tuples
BY DataAssumption DEF BuildTuple, Tuples

\* The tuple a merge thread is about to handle belongs to its partition.
LEMMA TupleRead ==
  ASSUME IInv, NEW p \in Threads, HasTuple(p)
  PROVE  /\ NextTuple(p) \in Tuples
         /\ NextTuple(p).hash \in 0 .. HashSize - 1
         /\ partition_of(NextTuple(p).hash) = p
<1>0. /\ src \in [Threads -> Threads] /\ at \in [Threads -> Nat \ {0}]
      /\ collectors \in [Threads -> [Threads -> Seq(Tuples)]]
  BY DEF IInv, Types, SlabTypes, MergeTypes
<1>1. src[p] \in Threads /\ at[p] \in Nat \ {0} /\ collectors[src[p]][p] \in Seq(Tuples)
  BY <1>0
<1>2. at[p] \in 1 .. Len(collectors[src[p]][p])
  BY <1>1 DEF HasTuple
<1>3. NextTuple(p) \in Tuples
  BY <1>1, <1>2 DEF NextTuple
<1>4. partition_of(NextTuple(p).hash) = p
  BY <1>1, <1>2 DEF NextTuple, IInv, TuplesInPartition
<1> QED
  BY <1>3, <1>4 DEF Tuples

\* Its slot is one of the slots of that partition.
LEMMA SlotRead ==
  ASSUME IInv, NEW p \in Threads, HasTuple(p), bucket_cnt \in DirectorySizes
  PROVE  /\ NextSlot(p) \in 0 .. bucket_cnt - 1
         /\ FirstSlot(p) <= NextSlot(p)
         /\ NextSlot(p) < FirstSlot(p + 1)
BY TupleRead, SlotOwner DEF NextSlot
-----------------------------------------------------------------------------
(* Every step keeps the types.                                             *)

LEMMA ClaimTypes ==
  ASSUME IInv, NEW t \in Threads, Claim(t)
  PROVE  Types'
<1>0. Types
  BY DEF IInv
<1>1. MorselEnd(next_row, MorselRows) \in Nat /\ next_row + PageRows \in Nat
  BY <1>0, Columns, SizesAssumption DEF MorselEnd, Types, MorselTypes
<1>2. MorselTypes'
  BY <1>0, <1>1 DEF Claim, MorselStride, Types, MorselTypes, Steps
<1>3. MainTypes' /\ SlabTypes' /\ MergeTypes' /\ ProbeTypes' /\ MapTypes'
  BY <1>0 DEF Claim, jobVars, slabVars, tallyVars, mapVars, mergeVars, probeVars, Types,
              MainTypes, SlabTypes, MergeTypes, ProbeTypes, MapTypes
<1> QED
  BY <1>2, <1>3 DEF Types

LEMMA ConsumeRowTypes ==
  ASSUME IInv, NEW t \in Threads, ConsumeRow(t)
  PROVE  Types'
<1>0. Types
  BY DEF IInv
<1>1. SlabTypes'
  <2>1. CASE get_value(BuildColumn, row[t]) = Null
    BY <1>0, <2>1 DEF ConsumeRow, Types, SlabTypes, slabVars
  <2>2. CASE get_value(BuildColumn, row[t]) # Null
    <3> DEFINE tuple == BuildTuple(row[t])
               part  == partition_of(tuple.hash)
    <3>1. tuple \in Tuples
      BY <2>2, RowRead, BuildTupleType DEF ConsumeRow
    <3>2. /\ collectors' = [collectors EXCEPT ![t][part] = Append(@, tuple)]
          /\ counts' = [counts EXCEPT ![t][part] = @ + 1]
      BY <2>2 DEF ConsumeRow
    <3> HIDE DEF tuple, part
    <3>3. /\ collectors[t] \in [Threads -> Seq(Tuples)]
          /\ counts[t] \in [Threads -> Nat]
      BY <1>0 DEF Types, SlabTypes
    <3>4. /\ [collectors[t] EXCEPT ![part] = Append(@, tuple)] \in [Threads -> Seq(Tuples)]
          /\ [counts[t] EXCEPT ![part] = @ + 1] \in [Threads -> Nat]
      <4>1. CASE part \in Threads
        BY <3>1, <3>3, <4>1
      <4>2. CASE part \notin Threads
        BY <3>3, <4>2
      <4> QED
        BY <4>1, <4>2
    <3> QED
      BY <1>0, <3>2, <3>4 DEF Types, SlabTypes
  <2> QED
    BY <2>1, <2>2
<1>2. MorselTypes'
  BY <1>0 DEF ConsumeRow, NextRow, Types, MorselTypes, Steps
<1>3. MainTypes' /\ MergeTypes' /\ ProbeTypes' /\ MapTypes'
  BY <1>0 DEF ConsumeRow, jobVars, tallyVars, mapVars, mergeVars, probeVars, Types,
              MainTypes, MergeTypes, ProbeTypes, MapTypes
<1> QED
  BY <1>1, <1>2, <1>3 DEF Types

LEMMA MergeTypesStep ==
  ASSUME IInv, NEW p \in Threads, MergeStep(p)
  PROVE  Types'
<1> USE DEF jobVars, tallyVars, mapVars, mergeVars, probeVars
<1>0. /\ MainTypes /\ MorselTypes /\ SlabTypes /\ MapTypes /\ MergeTypes /\ ProbeTypes
      /\ stage = "merge" /\ stage' = "merge" /\ bucket_cnt \in DirectorySizes
  BY DEF IInv, Types, MapTypes, MergeStep, CountTuple, NextCollector, EndOfCount,
         LastCollectorDone, SetRange, ScatterTuple, EndOfScatter
<1>1. bucket_cnt \in Nat \ {0} /\ NumPartitions \in Nat \ {0}
  BY <1>0, SizesAssumption
<1>2. MainTypes' /\ SlabTypes' /\ ProbeTypes'
  BY <1>0 DEF MergeStep, CountTuple, NextCollector, EndOfCount, LastCollectorDone, SetRange,
              ScatterTuple, EndOfScatter, MainTypes, SlabTypes, slabVars, ProbeTypes
<1>3. MorselTypes'
  <2>1. next_row' = next_row /\ row' = row /\ row_end' = row_end
    BY DEF MergeStep, CountTuple, NextCollector, EndOfCount, LastCollectorDone, SetRange,
           ScatterTuple, EndOfScatter, morselVars
  <2>2. pc' = pc \/ \E v \in Steps : pc' = [pc EXCEPT ![p] = v]
    BY DEF MergeStep, CountTuple, NextCollector, EndOfCount, LastCollectorDone, SetRange,
           ScatterTuple, EndOfScatter, Steps, RangesOrScatter
  <2> QED
    BY <1>0, <2>1, <2>2 DEF MorselTypes
<1>4. CASE CountTuple(p)
  <2>1. NextSlot(p) \in 0 .. bucket_cnt - 1 /\ NextTuple(p).hash \in 0 .. HashSize - 1
    BY <1>0, <1>4, SlotRead, TupleRead DEF CountTuple
  <2>2. Tag[NextTuple(p).hash] \in SUBSET FilterBits
    BY <2>1, DataAssumption
  <2>3. directory' \in [0 .. bucket_cnt -> [start : Nat, filter : SUBSET FilterBits]]
    <3>1. NextSlot(p) \in 0 .. bucket_cnt
      BY <1>1, <2>1
    <3>2. directory[NextSlot(p)] \in [start : Nat, filter : SUBSET FilterBits]
      BY <1>0, <3>1 DEF MapTypes
    <3> DEFINE entry == [start  |-> directory[NextSlot(p)].start + 1,
                         filter |-> directory[NextSlot(p)].filter \cup Tag[NextTuple(p).hash]]
    <3>3. entry \in [start : Nat, filter : SUBSET FilterBits]
      BY <2>2, <3>2
    <3>4. directory' = [directory EXCEPT ![NextSlot(p)] = entry]
      BY <1>4 DEF CountTuple
    <3> HIDE DEF entry
    <3> QED
      BY <1>0, <3>3, <3>4 DEF MapTypes
  <2>4. MapTypes'
    BY <1>0, <1>4, <2>3 DEF CountTuple, MapTypes
  <2>5. MergeTypes'
    BY <1>0, <1>4 DEF CountTuple, MergeTypes
  <2> QED
    BY <1>2, <1>3, <2>4, <2>5 DEF Types
<1>5. CASE NextCollector(p)
  <2>1. MapTypes'
    BY <1>0, <1>5 DEF NextCollector, MapTypes
  <2>2. src[p] \in Threads /\ src[p] + 1 < NumPartitions
    BY <1>0, <1>5 DEF NextCollector, MergeTypes
  <2>3. src[p] + 1 \in Threads
    BY <1>1, <2>2 DEF Threads
  <2>4. MergeTypes'
    BY <1>0, <1>5, <2>3 DEF NextCollector, MergeTypes
  <2> QED
    BY <1>2, <1>3, <2>1, <2>4 DEF Types
<1>6. CASE EndOfCount(p)
  <2>1. MapTypes'
    BY <1>0, <1>6 DEF EndOfCount, LastCollectorDone, MapTypes
  <2>2. FirstSlot(p) \in 0 .. bucket_cnt
    BY <1>0, <1>1, FirstSlots DEF Threads
  <2>3. prefix[p] \in Nat /\ 0 \in Threads
    BY <1>0, <1>1 DEF MainTypes, Threads
  <2>4. MergeTypes'
    BY <1>0, <1>6, <2>2, <2>3 DEF EndOfCount, LastCollectorDone, MergeTypes
  <2> QED
    BY <1>2, <1>3, <2>1, <2>4 DEF Types
<1>7. CASE SetRange(p)
  <2>1. slot[p] \in 0 .. bucket_cnt - 1
    <3>1. FirstSlot(p + 1) \in 0 .. bucket_cnt
      BY <1>0, <1>1, FirstSlots DEF Threads
    <3>2. slot[p] < FirstSlot(p + 1) /\ slot[p] \in 0 .. bucket_cnt
      BY <1>0, <1>7 DEF SetRange, IInv, RangesInside, MergeTypes
    <3> QED
      BY <1>1, <3>1, <3>2
  <2>2. directory[slot[p]] \in [start : Nat, filter : SUBSET FilterBits]
    BY <1>0, <1>1, <2>1 DEF MapTypes
  <2>3. cur[p] \in Nat
    BY <1>0 DEF MergeTypes
  <2>4. directory' \in [0 .. bucket_cnt -> [start : Nat, filter : SUBSET FilterBits]]
    <3>1. directory' = [directory EXCEPT ![slot[p]].start = cur[p]]
      BY <1>7 DEF SetRange
    <3> QED
      BY <1>0, <2>2, <2>3, <3>1 DEF MapTypes
  <2>5. MapTypes'
    BY <1>0, <1>7, <2>3, <2>4 DEF SetRange, MapTypes
  <2>6. MergeTypes'
    BY <1>0, <1>1, <1>7, <2>1, <2>2, <2>3 DEF SetRange, MergeTypes
  <2> QED
    BY <1>2, <1>3, <2>5, <2>6 DEF Types
<1>8. CASE ScatterTuple(p)
  <2>1. NextSlot(p) \in 0 .. bucket_cnt - 1 /\ NextTuple(p) \in Tuples
    BY <1>0, <1>8, SlotRead, TupleRead DEF ScatterTuple
  <2>2. write_cursor[NextSlot(p)] \in Nat
    BY <1>0, <2>1 DEF MapTypes
  <2>3. MapTypes'
    BY <1>0, <1>8, <2>1, <2>2 DEF ScatterTuple, MapTypes
  <2>4. MergeTypes'
    BY <1>0, <1>8 DEF ScatterTuple, MergeTypes
  <2> QED
    BY <1>2, <1>3, <2>3, <2>4 DEF Types
<1>9. CASE EndOfScatter(p)
  <2>1. MapTypes'
    BY <1>0, <1>9 DEF EndOfScatter, LastCollectorDone, MapTypes
  <2>2. 0 \in Threads
    BY <1>1 DEF Threads
  <2>3. MergeTypes'
    BY <1>0, <1>9, <2>2 DEF EndOfScatter, LastCollectorDone, MergeTypes
  <2> QED
    BY <1>2, <1>3, <2>1, <2>3 DEF Types
<1> QED
  BY <1>4, <1>5, <1>6, <1>7, <1>8, <1>9 DEF MergeStep

LEMMA ProbeTypesStep ==
  ASSUME IInv, NEW t \in Threads, ProbeStep(t)
  PROVE  Types'
<1> USE DEF jobVars, slabVars, tallyVars, mapVars, mergeVars
<1>0. /\ MainTypes /\ MorselTypes /\ SlabTypes /\ MapTypes /\ MergeTypes /\ ProbeTypes
      /\ stage = "probe" /\ bucket_cnt \in DirectorySizes /\ tuple_count = total
  BY DEF IInv, Types, MapTypes, ProbeStep, ProbeRow, ProbeTuple, CountStored
<1>1. MainTypes' /\ SlabTypes' /\ MapTypes' /\ MergeTypes'
  BY <1>0 DEF ProbeStep, ProbeRow, ProbeTuple, MainTypes, SlabTypes, MapTypes, MergeTypes
<1>2. MorselTypes'
  <2>1. ASSUME NextRow(t) PROVE MorselTypes'
    BY <1>0, <2>1 DEF NextRow, MorselTypes, Steps
  <2>2. ASSUME UNCHANGED morselVars, pc' = pc \/ \E v \in Steps : pc' = [pc EXCEPT ![t] = v]
        PROVE  MorselTypes'
    BY <1>0, <2>2 DEF morselVars, MorselTypes
  <2>3. CASE ProbeRow(t)
    BY <2>1, <2>2, <2>3 DEF ProbeRow, Steps
  <2>4. CASE ProbeTuple(t)
    BY <2>1, <2>2, <2>4 DEF ProbeTuple, Steps, morselVars
  <2> QED
    BY <2>3, <2>4 DEF ProbeStep
<1>3. CASE ProbeRow(t)
  <2> DEFINE key == get_value(ProbeColumn, row[t])
  <2>0. local_results' = local_results
    BY <1>3 DEF ProbeRow
  <2>1. ASSUME UNCHANGED <<idx, idx_end>> PROVE ProbeTypes'
    BY <1>0, <2>0, <2>1 DEF ProbeTypes
  <2>2. ASSUME /\ key # Null
               /\ idx' = [idx EXCEPT ![t] = lookup_range(key)[1]]
               /\ idx_end' = [idx_end EXCEPT ![t] = lookup_range(key)[2]]
        PROVE  ProbeTypes'
    <3>1. key \in Keys
      BY <1>0, <1>3, <2>2, RowRead DEF ProbeRow
    <3> HIDE DEF key
    <3> DEFINE s == bucket_index_from_hash(Hash[key], bucket_cnt)
    <3>2. s \in 0 .. bucket_cnt - 1
      BY <1>0, <3>1, SlotOwner, DataAssumption
    <3>3. bucket_cnt \in Nat
      BY <1>0, SizesAssumption
    <3>4. s \in 0 .. bucket_cnt /\ s + 1 \in 0 .. bucket_cnt
      BY <3>2, <3>3
    <3> HIDE DEF s
    <3>5. directory[s].start \in Nat /\ directory[s + 1].start \in Nat
      BY <1>0, <3>4 DEF MapTypes
    <3>6. lookup_range(key) = <<0, 0>> \/ lookup_range(key) = bucket_range(s)
      BY DEF lookup_range, s
    <3>7. lookup_range(key)[1] \in Nat /\ lookup_range(key)[2] \in Nat
      BY <3>5, <3>6 DEF bucket_range
    <3> QED
      BY <1>0, <2>0, <2>2, <3>7 DEF ProbeTypes
  <2>3. \/ UNCHANGED <<idx, idx_end>>
        \/ /\ key # Null
           /\ idx' = [idx EXCEPT ![t] = lookup_range(key)[1]]
           /\ idx_end' = [idx_end EXCEPT ![t] = lookup_range(key)[2]]
    BY <1>3 DEF ProbeRow
  <2>4. ProbeTypes'
    BY <2>1, <2>2, <2>3
  <2> QED
    BY <1>1, <1>2, <2>4 DEF Types
<1>4. CASE ProbeTuple(t)
  <2>0. idx_end' = idx_end
    BY <1>4 DEF ProbeTuple
  <2>1. ASSUME UNCHANGED <<idx, local_results>> PROVE ProbeTypes'
    BY <1>0, <2>0, <2>1 DEF ProbeTypes
  <2>2. ASSUME idx[t] < tuple_count PROVE ProbeTypes'
    <3>1. idx[t] \in 0 .. total - 1
      BY <1>0, <2>2 DEF ProbeTypes, MainTypes
    <3>2. tuples[idx[t]].value \in Nat
      BY <1>0, <3>1 DEF MapTypes, Tuples, DefaultTuple
    <3>3. row[t] \in Nat
      BY <1>0 DEF MorselTypes
    <3> DEFINE pair == OutputPair(tuples[idx[t]].value, row[t])
    <3>4. pair \in Nat \X Nat
      BY <3>2, <3>3 DEF OutputPair
    <3>5. idx' = [idx EXCEPT ![t] = @ + 1]
      BY <1>4, <2>2 DEF ProbeTuple
    <3>6. \/ local_results' = [local_results EXCEPT ![t] = Append(@, pair)]
          \/ local_results' = [local_results EXCEPT ![t] = @]
      BY <1>4, <2>2 DEF ProbeTuple
    <3> HIDE DEF pair
    <3>7. idx' \in [Threads -> Nat] /\ idx_end' \in [Threads -> Nat]
      BY <1>0, <2>0, <3>5 DEF ProbeTypes
    <3>8. local_results' \in [Threads -> Seq(Nat \X Nat)]
      <4>1. /\ local_results \in [Threads -> Seq(Nat \X Nat)]
            /\ Append(local_results[t], pair) \in Seq(Nat \X Nat)
        BY <1>0, <3>4 DEF ProbeTypes
      <4> QED
        BY <3>6, <4>1
    <3> QED
      BY <3>7, <3>8 DEF ProbeTypes
  <2>3. idx[t] < tuple_count \/ UNCHANGED <<idx, local_results>>
    BY <1>4 DEF ProbeTuple
  <2>4. ProbeTypes'
    BY <2>1, <2>2, <2>3
  <2> QED
    BY <1>1, <1>2, <2>4 DEF Types
<1> QED
  BY <1>3, <1>4 DEF ProbeStep

\* The steps of the main thread.
LEMMA MainTypesStep ==
  ASSUME IInv, Main
  PROVE  Types'
<1> USE DEF jobVars, morselVars, slabVars, tallyVars, mapVars, mergeVars, probeVars
<1>0. /\ MainTypes /\ MorselTypes /\ SlabTypes /\ MapTypes /\ MergeTypes /\ ProbeTypes
      /\ 0 \in Threads /\ NumPartitions \in Nat \ {0}
  BY SizesAssumption DEF IInv, Types, Threads
<1>1. CASE JoinBuild
  <2>1. MainTypes'
    BY <1>0, <1>1 DEF JoinBuild, Each, MainTypes
  <2>2. MorselTypes' /\ SlabTypes'
    BY <1>0, <1>1 DEF JoinBuild, MorselTypes, SlabTypes
  <2>3. MapTypes' /\ MergeTypes' /\ ProbeTypes'
    BY <1>0, <1>1 DEF JoinBuild, MapTypes, MergeTypes, ProbeTypes
  <2> QED
    BY <2>1, <2>2, <2>3 DEF Types
<1>2. CASE Tally
  <2>1. /\ tally[1] \in Threads /\ tally[2] \in Threads
        /\ tally[1] + 1 \in 0 .. NumPartitions
    BY <1>0, <1>2 DEF Tally, MainTypes, Threads
  <2>2. counts[tally[2]][tally[1]] \in Nat
    BY <1>0, <2>1 DEF SlabTypes
  <2>3. tally' \in (0 .. NumPartitions) \X Threads
    BY <1>0, <1>2, <2>1 DEF Tally, Threads
  <2>4. total' \in Nat /\ prefix' \in [Threads -> Nat]
    <3>1. total' = total + counts[tally[2]][tally[1]]
      BY <1>2 DEF Tally
    <3>2. prefix' = prefix \/ prefix' = [prefix EXCEPT ![tally[1]] = total]
      BY <1>2 DEF Tally, PrefixOf
    <3>3. total \in Nat /\ prefix \in [Threads -> Nat]
      BY <1>0 DEF MainTypes
    <3> QED
      BY <2>2, <3>1, <3>2, <3>3
  <2>5. UNCHANGED <<stage, job, joins, results>>
    BY <1>2 DEF Tally
  <2>6. MainTypes'
    BY <1>0, <2>3, <2>4, <2>5 DEF MainTypes
  <2> QED
    BY <1>0, <1>2, <2>6 DEF Tally, Types, MorselTypes, SlabTypes, MapTypes, MergeTypes,
                            ProbeTypes
<1>3. CASE ForkMerge
  <2>1. PICK b \in DirectorySizes :
          /\ bucket_cnt' = b
          /\ directory' = [s \in 0 .. b |-> EmptyEntry]
          /\ write_cursor' = [s \in 0 .. b - 1 |-> 0]
    BY <1>3 DEF ForkMerge, BucketCounts
  <2>2. b \in Nat \ {0}
    BY SizesAssumption
  <2>3. MapTypes'
    BY <1>0, <1>3, <2>1 DEF ForkMerge, MapTypes, EmptyEntry
  <2>4. MergeTypes'
    BY <1>0, <1>3, <2>1, <2>2 DEF ForkMerge, MergeTypes, Each
  <2>5. MorselTypes'
    BY <1>0, <1>3 DEF ForkMerge, MorselTypes, Each, Steps
  <2> QED
    BY <1>0, <1>3, <2>3, <2>4, <2>5 DEF ForkMerge, Types, MainTypes, SlabTypes, ProbeTypes
<1>4. CASE JoinMerge
  <2>1. MapTypes'
    BY <1>0, <1>4 DEF JoinMerge, MapTypes, MainTypes, SentinelEntry
  <2>2. MorselTypes' /\ ProbeTypes'
    BY <1>0, <1>4 DEF JoinMerge, MorselTypes, ProbeTypes, Each, Steps
  <2> QED
    BY <1>0, <1>4, <2>1, <2>2 DEF JoinMerge, Types, MainTypes, SlabTypes, MergeTypes
<1>5. CASE JoinProbe
  <2>1. MainTypes'
    BY <1>0, <1>5 DEF JoinProbe, MainTypes
  <2>2. MorselTypes' /\ SlabTypes'
    BY <1>0, <1>5 DEF JoinProbe, MorselTypes, SlabTypes
  <2>3. MapTypes' /\ MergeTypes' /\ ProbeTypes'
    BY <1>0, <1>5 DEF JoinProbe, MapTypes, MergeTypes, ProbeTypes
  <2> QED
    BY <2>1, <2>2, <2>3 DEF Types
<1>6. CASE Gather
  <2>1. tally[1] \in Threads /\ tally[1] + 1 \in 0 .. NumPartitions
    BY <1>0, <1>6 DEF Gather, MainTypes, Threads
  <2>2. local_results[tally[1]] \in Seq(Nat \X Nat)
    BY <1>0, <2>1 DEF ProbeTypes
  <2>3. MainTypes'
    BY <1>0, <1>6, <2>1, <2>2 DEF Gather, Part, MainTypes
  <2> QED
    BY <1>0, <1>6, <2>3 DEF Gather, Types, MorselTypes, SlabTypes, MapTypes, MergeTypes,
                            ProbeTypes
<1>7. CASE Return
  <2>1. MainTypes' /\ MorselTypes' /\ SlabTypes'
    BY <1>0, <1>7 DEF Return, Each, MainTypes, MorselTypes, SlabTypes
  <2>2. MapTypes' /\ MergeTypes' /\ ProbeTypes'
    BY <1>0, <1>7 DEF Return, Each, MapTypes, MergeTypes, ProbeTypes
  <2> QED
    BY <2>1, <2>2 DEF Types
<1> QED
  BY <1>1, <1>2, <1>3, <1>4, <1>5, <1>6, <1>7 DEF Main
-----------------------------------------------------------------------------
(* Every step keeps the invariant.                                         *)

LEMMA InitInv == Init => IInv
<1> SUFFICES ASSUME Init PROVE IInv
  OBVIOUS
<1>0. 0 \in Threads /\ NumPartitions \in Nat \ {0} /\ MaxJoins \in Nat
  BY SizesAssumption, DataAssumption DEF Threads
<1>1. MainTypes /\ MorselTypes /\ SlabTypes
  BY <1>0 DEF Init, Each, MainTypes, MorselTypes, SlabTypes, Steps
<1>2. MapTypes /\ MergeTypes /\ ProbeTypes
  BY <1>0 DEF Init, Each, MapTypes, MergeTypes, ProbeTypes
<1>3. \A t \in Threads : pc[t] = "exit"
  BY DEF Init, Each
<1>4. PcByStage /\ MorselsDisjoint /\ RangesInside /\ CountStored
  BY <1>3 DEF Init, PcByStage, MorselsDisjoint, RangesInside, CountStored
<1>5. TuplesInPartition
  BY DEF Init, Each, TuplesInPartition
<1> QED
  BY <1>1, <1>2, <1>4, <1>5 DEF IInv, Types

LEMMA BeginInv ==
  ASSUME IInv, NEW j \in Jobs, Begin(j)
  PROVE  IInv'
<1> USE DEF tallyVars, mapVars, mergeVars, probeVars
<1>0. /\ MainTypes /\ MorselTypes /\ SlabTypes /\ MapTypes /\ MergeTypes /\ ProbeTypes
      /\ MaxJoins \in Nat
  BY DataAssumption DEF IInv, Types
<1>1. MainTypes' /\ MorselTypes' /\ SlabTypes'
  <2>1. joins' \in 0 .. MaxJoins
    BY <1>0 DEF Begin, MainTypes
  <2>2. MainTypes'
    BY <1>0, <2>1 DEF Begin, MainTypes
  <2>3. MorselTypes'
    BY <1>0 DEF Begin, Each, MorselTypes, Steps
  <2>4. SlabTypes'
    BY DEF Begin, Each, reset, SlabTypes
  <2> QED
    BY <2>2, <2>3, <2>4
<1>2. MapTypes' /\ MergeTypes' /\ ProbeTypes'
  BY <1>0 DEF Begin, MapTypes, MergeTypes, ProbeTypes
<1>3. stage' = "build" /\ \A t \in Threads : pc'[t] = "claim"
  BY DEF Begin, Each
<1>4. PcByStage' /\ MorselsDisjoint' /\ RangesInside' /\ CountStored'
  BY <1>3 DEF PcByStage, MorselsDisjoint, RangesInside, CountStored
<1>5. TuplesInPartition'
  BY DEF Begin, Each, reset, TuplesInPartition
<1> QED
  BY <1>1, <1>2, <1>4, <1>5 DEF IInv, Types

LEMMA ClaimInv ==
  ASSUME IInv, NEW t \in Threads, Claim(t)
  PROVE  IInv'
<1>0. /\ stage \in {"build", "probe"}
      /\ UNCHANGED <<stage, collectors, bucket_cnt, slot, total, tuple_count>>
  BY DEF Claim, slabVars, mapVars, mergeVars, tallyVars
<1>1. pc \in [Threads -> Steps]
  BY DEF IInv, Types, MorselTypes
<1>2. \E v \in {"rows", "exit"} : pc' = [pc EXCEPT ![t] = v]
  BY DEF Claim
<1>3. PcByStage' /\ CountStored'
  BY <1>0, <1>1, <1>2 DEF IInv, PcByStage, CountStored
<1>4. RangesInside'
  <2>1. \A u \in Threads : pc'[u] # "ranges"
    BY <1>0, <1>1, <1>2 DEF IInv, PcByStage
  <2> QED
    BY <2>1 DEF RangesInside
<1>5. TuplesInPartition'
  BY <1>0 DEF IInv, TuplesInPartition
<1> QED
  BY <1>3, <1>4, <1>5, ClaimTypes, ClaimMorsels DEF IInv

LEMMA ConsumeRowInv ==
  ASSUME IInv, NEW t \in Threads, ConsumeRow(t)
  PROVE  IInv'
<1>0. /\ stage = "build" /\ stage' = "build" /\ job' = job
      /\ pc[t] = "rows" /\ NextRow(t)
  BY DEF ConsumeRow, jobVars
<1>1. pc \in [Threads -> Steps]
  BY DEF IInv, Types, MorselTypes
<1>2. \A u \in Threads : pc'[u] \in {"claim", "rows", "exit"}
  BY <1>0, <1>1 DEF NextRow, IInv, PcByStage
<1>3. PcByStage' /\ RangesInside' /\ CountStored'
  BY <1>0, <1>2 DEF PcByStage, RangesInside, CountStored
<1>4. TuplesInPartition'
  <2>1. ASSUME collectors' = collectors PROVE TuplesInPartition'
    BY <2>1 DEF IInv, TuplesInPartition
  <2>2. ASSUME collectors' # collectors PROVE TuplesInPartition'
    <3> DEFINE tuple == BuildTuple(row[t])
               part  == partition_of(tuple.hash)
    <3>1. /\ get_value(BuildColumn, row[t]) # Null
          /\ collectors' = [collectors EXCEPT ![t][part] = Append(@, tuple)]
      BY <2>2 DEF ConsumeRow, slabVars
    <3>2. tuple \in Tuples
      BY <3>1, RowRead, BuildTupleType DEF ConsumeRow
    <3>3. collectors \in [Threads -> [Threads -> Seq(Tuples)]]
      BY DEF IInv, Types, SlabTypes
    <3>4. part = partition_of(tuple.hash)
      OBVIOUS
    <3> HIDE DEF tuple, part
    <3> SUFFICES ASSUME NEW u \in Threads, NEW p \in Threads,
                        NEW k \in 1 .. Len(collectors'[u][p])
                 PROVE  partition_of(collectors'[u][p][k].hash) = p
      BY DEF TuplesInPartition
    <3>5. CASE u = t /\ p = part
      <4>1. collectors'[u][p] = Append(collectors[u][p], tuple)
            /\ collectors[u][p] \in Seq(Tuples)
        BY <3>1, <3>3, <3>5
      <4>2. CASE k \in 1 .. Len(collectors[u][p])
        BY <4>1, <4>2 DEF IInv, TuplesInPartition
      <4>3. CASE k = Len(collectors[u][p]) + 1
        BY <3>2, <3>4, <3>5, <4>1, <4>3
      <4> QED
        BY <3>2, <4>1, <4>2, <4>3
    <3>6. CASE ~(u = t /\ p = part)
      <4>1. collectors'[u][p] = collectors[u][p]
        BY <3>1, <3>3, <3>6
      <4> QED
        BY <4>1 DEF IInv, TuplesInPartition
    <3> QED
      BY <3>5, <3>6
  <2> QED
    BY <2>1, <2>2
<1> QED
  BY <1>0, <1>3, <1>4, ConsumeRowTypes, NextRowMorsels DEF IInv

LEMMA MergeInv ==
  ASSUME IInv, NEW p \in Threads, MergeStep(p)
  PROVE  IInv'
<1>0. /\ stage = "merge" /\ stage' = "merge"
      /\ UNCHANGED <<job, next_row, row, row_end, collectors, bucket_cnt>>
  BY DEF MergeStep, CountTuple, NextCollector, EndOfCount, LastCollectorDone, SetRange,
         ScatterTuple, EndOfScatter, jobVars, morselVars, slabVars, mapVars
<1>1. Types'
  BY MergeTypesStep
<1>2. /\ MergeTypes /\ pc \in [Threads -> Steps] /\ bucket_cnt \in DirectorySizes
      /\ NumPartitions \in Nat \ {0}
  BY <1>0, SizesAssumption DEF IInv, Types, MapTypes, MorselTypes
<1>3. \/ pc' = pc
      \/ \E v \in {"ranges", "scatter", "exit", "thrown"} : pc' = [pc EXCEPT ![p] = v]
  BY DEF MergeStep, CountTuple, NextCollector, EndOfCount, LastCollectorDone, SetRange,
         ScatterTuple, EndOfScatter, RangesOrScatter
<1>4. \A t \in Threads : pc'[t] \in {"count", "ranges", "scatter", "exit", "thrown"}
  BY <1>0, <1>2, <1>3 DEF IInv, PcByStage
<1>5. PcByStage' /\ MorselsDisjoint' /\ TuplesInPartition' /\ CountStored'
  BY <1>0, <1>4 DEF IInv, PcByStage, MorselsDisjoint, TuplesInPartition, CountStored
<1>6. RangesInside'
  <2>1. ASSUME slot' = slot, pc' = pc \/ \E v \in {"scatter", "exit", "thrown"} :
                                           pc' = [pc EXCEPT ![p] = v]
        PROVE  RangesInside'
    <3>1. \A t \in Threads : pc'[t] = "ranges" => pc[t] = "ranges"
      BY <1>2, <2>1
    <3> QED
      BY <1>0, <2>1, <3>1 DEF IInv, RangesInside, FirstSlot
  <2>2. ASSUME NEW s \in 0 .. bucket_cnt, FirstSlot(p) <= s,
               slot' = [slot EXCEPT ![p] = s], pc' = [pc EXCEPT ![p] = RangesOrScatter(p, s)]
        PROVE  RangesInside'
    <3> SUFFICES ASSUME NEW t \in Threads, pc'[t] = "ranges"
                 PROVE  FirstSlot(t) <= slot'[t] /\ slot'[t] < FirstSlot(t + 1)
      BY <1>0 DEF RangesInside, FirstSlot
    <3>1. CASE t = p
      <4>1. slot'[p] = s /\ RangesOrScatter(p, s) = "ranges"
        BY <1>2, <2>2, <3>1 DEF MergeTypes
      <4> QED
        BY <2>2, <3>1, <4>1 DEF RangesOrScatter
    <3>2. CASE t # p
      <4>1. slot'[t] = slot[t] /\ pc[t] = "ranges"
        BY <1>2, <2>2, <3>2 DEF MergeTypes
      <4> QED
        BY <4>1 DEF IInv, RangesInside
    <3> QED
      BY <3>1, <3>2
  <2>3. \A q \in 0 .. NumPartitions : FirstSlot(q) \in 0 .. bucket_cnt
    BY <1>2, FirstSlots
  <2>4. p \in 0 .. NumPartitions /\ p + 1 \in 0 .. NumPartitions /\ bucket_cnt \in Nat
    BY <1>2, SizesAssumption DEF Threads
  <2>5. CASE EndOfCount(p)
    <3>1. FirstSlot(p) \in 0 .. bucket_cnt /\ FirstSlot(p) <= FirstSlot(p)
      BY <2>3, <2>4
    <3> QED
      BY <2>2, <2>5, <3>1 DEF EndOfCount
  <2>6. CASE SetRange(p)
    <3>1. slot[p] \in 0 .. bucket_cnt /\ FirstSlot(p) <= slot[p] /\ slot[p] < FirstSlot(p + 1)
      BY <1>2, <2>6 DEF SetRange, MergeTypes, IInv, RangesInside
    <3>2. FirstSlot(p) \in 0 .. bucket_cnt /\ FirstSlot(p + 1) \in 0 .. bucket_cnt
      BY <2>3, <2>4
    <3>3. slot[p] + 1 \in 0 .. bucket_cnt /\ FirstSlot(p) <= slot[p] + 1
      BY <2>4, <3>1, <3>2
    <3> QED
      BY <2>2, <2>6, <3>3 DEF SetRange
  <2>7. CASE CountTuple(p) \/ NextCollector(p) \/ ScatterTuple(p) \/ EndOfScatter(p)
    BY <2>1, <2>7 DEF CountTuple, NextCollector, ScatterTuple, EndOfScatter, LastCollectorDone
  <2> QED
    BY <2>5, <2>6, <2>7 DEF MergeStep
<1> QED
  BY <1>1, <1>5, <1>6 DEF IInv

LEMMA ProbeInv ==
  ASSUME IInv, NEW t \in Threads, ProbeStep(t)
  PROVE  IInv'
<1>0. /\ stage = "probe" /\ stage' = "probe" /\ pc[t] \in {"rows", "compare"}
      /\ UNCHANGED <<job, collectors, bucket_cnt, total, tuple_count>>
  BY DEF ProbeStep, ProbeRow, ProbeTuple, jobVars, slabVars, tallyVars, mapVars
<1>1. Types'
  BY ProbeTypesStep
<1>2. pc \in [Threads -> Steps]
  BY DEF IInv, Types, MorselTypes
<1>3. \/ NextRow(t)
      \/ /\ UNCHANGED morselVars
         /\ pc' = pc \/ \E v \in {"compare", "thrown"} : pc' = [pc EXCEPT ![t] = v]
  BY DEF ProbeStep, ProbeRow, ProbeTuple
<1>4. \A u \in Threads : pc'[u] \in {"claim", "rows", "compare", "exit", "thrown"}
  <2>1. \A u \in Threads : pc[u] \in {"claim", "rows", "compare", "exit", "thrown"}
    BY <1>0 DEF IInv, PcByStage
  <2> QED
    BY <1>2, <1>3, <2>1 DEF NextRow
<1>5. PcByStage' /\ RangesInside' /\ TuplesInPartition' /\ CountStored'
  BY <1>0, <1>4 DEF IInv, PcByStage, RangesInside, TuplesInPartition, CountStored
<1>6. MorselsDisjoint'
  <2>1. CASE NextRow(t)
    BY <1>0, <2>1, NextRowMorsels
  <2>2. CASE /\ UNCHANGED morselVars
             /\ pc' = pc \/ \E v \in {"compare", "thrown"} : pc' = [pc EXCEPT ![t] = v]
    <3>1. \A u \in Threads : pc'[u] \in {"rows", "compare"} => pc[u] \in {"rows", "compare"}
      BY <1>0, <1>2, <2>2
    <3> QED
      BY <1>0, <2>2, <3>1 DEF IInv, MorselsDisjoint, morselVars, MorselRows, BuildColumn,
                              ProbeColumn
  <2> QED
    BY <1>3, <2>1, <2>2
<1> QED
  BY <1>1, <1>5, <1>6 DEF IInv

LEMMA MainInv ==
  ASSUME IInv, Main
  PROVE  IInv'
<1>1. Types'
  BY MainTypesStep
<1>2. /\ UNCHANGED collectors
      /\ \/ /\ stage' \in {"tally", "gather", "done"}
            /\ \A t \in Threads : pc'[t] = "exit"
         \/ stage' = "merge" /\ \A t \in Threads : pc'[t] = "count"
         \/ /\ stage' = "probe" /\ tuple_count' = total'
            /\ \A t \in Threads : pc'[t] = "claim"
  <2>1. CASE JoinBuild
    BY <2>1 DEF JoinBuild, Exited, slabVars
  <2>2. CASE Tally
    BY <2>2 DEF Tally, slabVars, IInv, PcByStage
  <2>3. CASE ForkMerge
    BY <2>3 DEF ForkMerge, Each, slabVars
  <2>4. CASE JoinMerge
    BY <2>4 DEF JoinMerge, Each, slabVars, tallyVars
  <2>5. CASE JoinProbe
    BY <2>5 DEF JoinProbe, Exited, slabVars
  <2>6. CASE Gather
    BY <2>6 DEF Gather, slabVars, IInv, PcByStage
  <2>7. CASE Return
    BY <2>7 DEF Return, slabVars, IInv, PcByStage
  <2> QED
    BY <2>1, <2>2, <2>3, <2>4, <2>5, <2>6, <2>7 DEF Main
<1>3. PcByStage' /\ MorselsDisjoint' /\ RangesInside' /\ TuplesInPartition' /\ CountStored'
  BY <1>2 DEF IInv, PcByStage, MorselsDisjoint, RangesInside, TuplesInPartition, CountStored
<1> QED
  BY <1>1, <1>3 DEF IInv

LEMMA InvStep == IInv /\ [Next]_vars => IInv'
<1> SUFFICES ASSUME IInv, [Next]_vars PROVE IInv'
  OBVIOUS
<1>1. ASSUME NEW j \in Jobs, Begin(j) PROVE IInv'
  BY <1>1, BeginInv
<1>2. CASE Main
  BY <1>2, MainInv
<1>3. ASSUME NEW t \in Threads, Thread(t) PROVE IInv'
  BY <1>3, ClaimInv, ConsumeRowInv, MergeInv, ProbeInv DEF Thread, BuildStep
<1>4. CASE UNCHANGED vars
  <2> USE <1>4 DEF vars, jobVars, morselVars, slabVars, tallyVars, mapVars, mergeVars, probeVars
  <2>1. Types'
    BY DEF IInv, Types, MainTypes, MorselTypes, SlabTypes, MapTypes, MergeTypes, ProbeTypes
  <2>2. PcByStage' /\ RangesInside' /\ TuplesInPartition' /\ CountStored'
    BY DEF IInv, PcByStage, RangesInside, TuplesInPartition, CountStored, FirstSlot
  <2>3. MorselsDisjoint'
    BY DEF IInv, MorselsDisjoint, MorselRows, BuildColumn, ProbeColumn
  <2> QED
    BY <2>1, <2>2, <2>3 DEF IInv
<1> QED
  BY <1>1, <1>2, <1>3, <1>4 DEF Next, Finished
-----------------------------------------------------------------------------
(* Theorems.                                                               *)

\* The invariant holds in every state of every sequence of joins.
THEOREM Invariant == Spec => []IInv
  BY InitInv, InvStep, PTL DEF Spec

\* fetch_add on next_row deals every morsel to one thread, in both phases, for
\* any number of threads and any morsel size.
THEOREM MorselsAreDisjoint == Spec => []MorselsDisjoint
<1>1. IInv => MorselsDisjoint
  BY DEF IInv
<1> QED
  BY <1>1, Invariant, PTL

\* The slot a merge thread is about to read and write.
TouchedSlots(p) ==
  CASE pc[p] \in {"count", "scatter"} /\ HasTuple(p) -> {NextSlot(p)}
    [] pc[p] = "ranges" -> {slot[p]}
    [] OTHER -> {}

SlotsOwned ==
  stage = "merge" =>
    \A p, q \in Threads : p # q => TouchedSlots(p) \cap TouchedSlots(q) = {}

\* Two merge threads never touch the same directory entry or write cursor: the
\* slots of the buckets' power of two and the partitions of the top bits of
\* the hash are nested, whatever the hash function (merge_phase).
THEOREM SlotsAreOwned == Spec => []SlotsOwned
<1>1. IInv => SlotsOwned
  <2> SUFFICES ASSUME IInv, stage = "merge", NEW p \in Threads, NEW q \in Threads, p # q,
                      NEW s \in TouchedSlots(p), s \in TouchedSlots(q)
               PROVE  FALSE
    BY DEF SlotsOwned
  <2>1. bucket_cnt \in DirectorySizes /\ slot \in [Threads -> 0 .. bucket_cnt]
    BY DEF IInv, Types, MapTypes, MergeTypes
  <2>2. ASSUME NEW r \in Threads, s \in TouchedSlots(r)
        PROVE  s \in Int /\ FirstSlot(r) <= s /\ s < FirstSlot(r + 1)
    <3>1. CASE HasTuple(r) /\ s = NextSlot(r)
      BY <2>1, <3>1, SlotRead
    <3>2. CASE pc[r] = "ranges" /\ s = slot[r]
      BY <2>1, <3>2 DEF IInv, RangesInside
    <3> QED
      BY <2>2, <3>1, <3>2 DEF TouchedSlots
  <2>3. ASSUME NEW r \in Threads, NEW u \in Threads, r < u,
               s \in TouchedSlots(r), s \in TouchedSlots(u)
        PROVE  FALSE
    <3>1. r + 1 \in 0 .. NumPartitions /\ u \in 0 .. NumPartitions /\ r + 1 <= u
      BY <2>3, SizesAssumption DEF Threads
    <3>2. /\ FirstSlot(r + 1) <= FirstSlot(u)
          /\ FirstSlot(r + 1) \in Int /\ FirstSlot(u) \in Int
      BY <2>1, <3>1, FirstSlots
    <3>3. s \in Int /\ s < FirstSlot(r + 1) /\ FirstSlot(u) <= s
      BY <2>2, <2>3
    <3> QED
      BY <3>2, <3>3
  <2>4. p < q \/ q < p
    BY SizesAssumption DEF Threads
  <2> QED
    BY <2>3, <2>4
<1> QED
  BY <1>1, Invariant, PTL

-----------------------------------------------------------------------------
(* Second part: the table.                                                 *)

(* The invariant of the collectors.                                        *)

Cells(t, p) == 1 .. Len(collectors[t][p])

CountsAgree == \A t, p \in Threads : counts[t][p] = Len(collectors[t][p])

\* What is collected is the tuple of a row with a key that has been handled.
TuplesBuilt ==
  \A t, p \in Threads : \A k \in Cells(t, p) :
    LET v == collectors[t][p][k].value
    IN  /\ v < Len(BuildColumn)
        /\ get_value(BuildColumn, v) # Null
        /\ collectors[t][p][k] = BuildTuple(v)
        /\ stage = "build" => Handled(v)

TuplesDistinct ==
  \A t, p, u, q \in Threads : \A k \in Cells(t, p), l \in Cells(u, q) :
    collectors[t][p][k].value = collectors[u][q][l].value => t = u /\ p = q /\ k = l

RowsCollected ==
  stage # "idle" =>
    \A r \in 0 .. Len(BuildColumn) - 1 :
      get_value(BuildColumn, r) # Null /\ (stage = "build" => Handled(r)) =>
        \E t, p \in Threads : \E k \in Cells(t, p) : collectors[t][p][k].value = r

\* A thread leaves its loop only when all morsels have been dealt.
ExitAtEnd ==
  stage \in {"build", "probe"} =>
    \A t \in Threads : pc[t] = "exit" => next_row >= MorselRows

CollectInv ==
  /\ IInv
  /\ CountsAgree
  /\ TuplesBuilt
  /\ TuplesDistinct
  /\ RowsCollected
  /\ ExitAtEnd
-----------------------------------------------------------------------------
(* Which rows are handled.                                                 *)

\* A morsel that is claimed holds no handled row, and claiming handles none.
LEMMA HandledClaim ==
  ASSUME IInv, NEW t \in Threads, Claim(t), NEW r \in Nat, r < MorselRows
  PROVE  Handled(r)' <=> Handled(r)
<1>1. MorselRows \in Nat /\ next_row \in Nat /\ PageRows \in Nat \ {0}
  BY Columns, SizesAssumption DEF IInv, Types, MorselTypes
<1>2. /\ pc \in [Threads -> Steps] /\ row \in [Threads -> Nat] /\ row_end \in [Threads -> Nat]
      /\ pc[t] = "claim" /\ next_row' = next_row + PageRows
  BY DEF Claim, MorselStride, IInv, Types, MorselTypes
<1>3. CASE next_row >= MorselRows
  <2>1. pc' = [pc EXCEPT ![t] = "exit"] /\ row' = row /\ row_end' = row_end
    BY <1>3 DEF Claim
  <2>2. \A u \in Threads : InMorsel(u, r)' <=> InMorsel(u, r)
    BY <1>2, <2>1 DEF InMorsel
  <2>3. r < next_row /\ r < next_row'
    BY <1>1, <1>2, <1>3
  <2> QED
    BY <2>2, <2>3 DEF Handled
<1>4. CASE ~(next_row >= MorselRows)
  <2> DEFINE e == MorselEnd(next_row, MorselRows)
  <2>1. /\ pc' = [pc EXCEPT ![t] = "rows"]
        /\ row' = [row EXCEPT ![t] = next_row]
        /\ row_end' = [row_end EXCEPT ![t] = e]
    BY <1>4 DEF Claim
  <2>2. e \in Nat /\ next_row < e /\ (e = MorselRows \/ e = next_row + PageRows)
    BY <1>1, <1>4 DEF MorselEnd
  <2> HIDE DEF e
  <2>3. \A u \in Threads \ {t} : InMorsel(u, r)' <=> InMorsel(u, r)
    BY <1>2, <2>1 DEF InMorsel
  <2>4. InMorsel(t, r)' <=> next_row <= r /\ r < e
    BY <1>2, <2>1 DEF InMorsel
  <2>5. ~InMorsel(t, r)
    BY <1>2 DEF InMorsel
  <2>6. r < next_row' /\ ~(next_row <= r /\ r < e) <=> r < next_row
    BY <1>1, <1>2, <2>2
  <2> QED
    BY <2>3, <2>4, <2>5, <2>6 DEF Handled
<1> QED
  BY <1>3, <1>4

\* The row of a thread is not handled before the thread goes on, and it is the
\* only one that this step handles.
LEMMA HandledNext ==
  ASSUME IInv, NEW t \in Threads, pc[t] \in {"rows", "compare"}, NextRow(t)
  PROVE  /\ ~Handled(row[t])
         /\ row[t] \in Nat /\ row[t] < MorselRows
         /\ \A r \in Nat : Handled(r)' <=> Handled(r) \/ r = row[t]
<1>1. /\ pc \in [Threads -> Steps] /\ row \in [Threads -> Nat] /\ row_end \in [Threads -> Nat]
      /\ next_row \in Nat /\ MorselRows \in Nat
  BY Columns DEF IInv, Types, MorselTypes
<1>2. /\ row[t] \in Nat /\ row_end[t] \in Nat /\ row[t] < row_end[t]
      /\ row_end[t] <= MorselRows /\ row_end[t] <= next_row
  BY <1>1 DEF IInv, MorselsDisjoint
<1>3. /\ row' = [row EXCEPT ![t] = row[t] + 1] /\ row_end' = row_end /\ next_row' = next_row
      /\ pc' = [pc EXCEPT ![t] = IF row[t] + 1 < row_end[t] THEN "rows" ELSE "claim"]
  BY DEF NextRow
<1>4. InMorsel(t, row[t])
  BY <1>2 DEF InMorsel
<1>5. \A u \in Threads \ {t} : ~InMorsel(u, row[t])
  BY <1>1, <1>2 DEF InMorsel, IInv, MorselsDisjoint
<1>6. ASSUME NEW r \in Nat PROVE Handled(r)' <=> Handled(r) \/ r = row[t]
  <2>1. \A u \in Threads \ {t} : InMorsel(u, r)' <=> InMorsel(u, r)
    BY <1>1, <1>3 DEF InMorsel
  <2>2. InMorsel(t, r)' <=> InMorsel(t, r) /\ r # row[t]
    <3>1. CASE row[t] + 1 < row_end[t]
      <4>1. pc'[t] = "rows" /\ row'[t] = row[t] + 1 /\ row_end'[t] = row_end[t]
        BY <1>1, <1>3, <3>1
      <4> QED
        BY <1>2, <4>1 DEF InMorsel
    <3>2. CASE ~(row[t] + 1 < row_end[t])
      <4>1. pc'[t] = "claim"
        BY <1>1, <1>3, <3>2
      <4> QED
        BY <1>2, <3>2, <4>1 DEF InMorsel
    <3> QED
      BY <3>1, <3>2
  <2>3. r < next_row' <=> r < next_row
    BY <1>3
  <2>4. CASE r = row[t]
    <3>1. r < next_row
      BY <1>1, <1>2, <2>4
    <3>2. \A u \in Threads : ~InMorsel(u, r)'
      BY <1>5, <2>1, <2>2, <2>4
    <3>3. Handled(r)'
      BY <2>3, <3>1, <3>2 DEF Handled
    <3> QED
      BY <2>4, <3>3
  <2>5. CASE r # row[t]
    BY <2>1, <2>2, <2>3, <2>5 DEF Handled
  <2> QED
    BY <2>4, <2>5
<1>7. ~Handled(row[t])
  BY <1>4 DEF Handled
<1>8. row[t] < MorselRows
  BY <1>1, <1>2
<1> QED
  BY <1>2, <1>6, <1>7, <1>8

\* When all threads have left their loop, every row has been handled.
LEMMA HandledAll ==
  ASSUME IInv, ExitAtEnd, stage \in {"build", "probe"}, Exited, NEW r \in Nat, r < MorselRows
  PROVE  Handled(r)
<1>1. 0 \in Threads /\ MorselRows \in Nat /\ next_row \in Nat
  BY Columns, SizesAssumption DEF IInv, Types, MorselTypes, Threads
<1>2. next_row >= MorselRows
  BY <1>1 DEF Exited, ExitAtEnd
<1>3. \A t \in Threads : ~InMorsel(t, r)
  BY DEF Exited, InMorsel
<1> QED
  BY <1>1, <1>2, <1>3 DEF Handled
-----------------------------------------------------------------------------
(* Every step keeps the invariant of the collectors.                       *)

\* The top bits of a hash are the number of a partition.
LEMMA HashPartition ==
  ASSUME NEW h \in 0 .. HashSize - 1
  PROVE  partition_of(h) \in Threads
<1>1. PICK b \in DirectorySizes : TRUE
  BY SizesAssumption
<1>2. PICK s \in Nat \ {0}, w \in Nat \ {0} :
        /\ HashSize = (NumPartitions * s) * w
        /\ HashSize \div NumPartitions = s * w
  BY <1>1, Sizes
<1>3. NumPartitions \in Nat \ {0} /\ h \in Nat /\ h < (NumPartitions * s) * w
  BY <1>2, SizesAssumption
<1>4. h \div (s * w) \in 0 .. NumPartitions - 1
  BY <1>3, SlotOfPartition
<1> QED
  BY <1>2, <1>4 DEF partition_of, Threads

LEMMA CellTypes ==
  ASSUME Types, NEW t \in Threads, NEW p \in Threads, NEW k \in Cells(t, p)
  PROVE  /\ collectors[t][p][k] \in Tuples
         /\ collectors[t][p][k].key \in Keys
         /\ collectors[t][p][k].value \in Nat
         /\ collectors[t][p][k].hash \in 0 .. HashSize - 1
<1>1. collectors[t][p] \in Seq(Tuples)
  BY DEF Types, SlabTypes
<1>2. collectors[t][p][k] \in Tuples
  BY <1>1 DEF Cells
<1> QED
  BY <1>2 DEF Tuples

\* A collector has no more tuples than the column has rows.
LEMMA CellsBound ==
  ASSUME Types, TuplesBuilt, TuplesDistinct, NEW t \in Threads, NEW p \in Threads
  PROVE  Len(collectors[t][p]) <= Len(BuildColumn)
<1> DEFINE L == Len(collectors[t][p])
           n == Len(BuildColumn)
           f == [k \in 1 .. L |-> collectors[t][p][k].value]
<1>1. collectors[t][p] \in Seq(Tuples) /\ L \in Nat /\ n \in Nat
  BY Columns DEF Types, SlabTypes
<1>2. ASSUME NEW k \in 1 .. L PROVE collectors[t][p][k].value \in 0 .. n - 1
  <2>2. collectors[t][p][k].value \in Nat
    BY <1>2, CellTypes DEF Cells
  <2>3. collectors[t][p][k].value < n
    BY <1>2 DEF TuplesBuilt, Cells
  <2> QED
    BY <1>1, <2>2, <2>3
<1>3. \A k, l \in 1 .. L : collectors[t][p][k].value = collectors[t][p][l].value => k = l
  BY DEF TuplesDistinct, Cells
<1> HIDE DEF L, n
<1>4. f \in Injection(1 .. L, 0 .. n - 1)
  BY <1>2, <1>3 DEF Injection, IsInjective
<1> HIDE DEF f
<1>5. /\ IsFiniteSet(0 .. n - 1) /\ Cardinality(0 .. n - 1) = n
      /\ Cardinality(1 .. L) = L
  <2>1. /\ IsFiniteSet(0 .. n - 1)
        /\ Cardinality(0 .. n - 1) = IF 0 > n - 1 THEN 0 ELSE (n - 1) - 0 + 1
    BY <1>1, FS_Interval
  <2>2. Cardinality(1 .. L) = IF 1 > L THEN 0 ELSE L - 1 + 1
    BY <1>1, FS_Interval
  <2> QED
    BY <1>1, <2>1, <2>2
<1>6. Cardinality(1 .. L) <= Cardinality(0 .. n - 1)
  BY <1>4, <1>5, FS_Injection
<1> QED
  BY <1>5, <1>6 DEF L, n

\* Steps that neither touch the collectors nor change the job, nor begin a build.
LEMMA CollectKept ==
  ASSUME CollectInv, stage # "idle", stage' # "build",
         UNCHANGED <<job, collectors, counts>>,
         stage = "build" => \A r \in Nat : r < Len(BuildColumn) => Handled(r)
  PROVE  /\ CountsAgree' /\ TuplesBuilt' /\ TuplesDistinct' /\ RowsCollected'
<1>1. BuildColumn' = BuildColumn
  BY DEF BuildColumn
<1>2. CountsAgree' /\ TuplesDistinct'
  BY DEF CollectInv, CountsAgree, TuplesDistinct, Cells
<1>3. TuplesBuilt'
  BY <1>1 DEF CollectInv, TuplesBuilt, Cells, BuildTuple
<1>4. RowsCollected'
  <2>1. Len(BuildColumn) \in Nat
    BY Columns DEF CollectInv, IInv
  <2> QED
    BY <1>1, <2>1 DEF CollectInv, RowsCollected, Cells
<1> QED
  BY <1>2, <1>3, <1>4

LEMMA CollectInit == Init => CollectInv
<1> SUFFICES ASSUME Init PROVE CollectInv
  OBVIOUS
<1>1. IInv
  BY InitInv
<1>2. \A t, p \in Threads : collectors[t][p] = <<>> /\ counts[t][p] = 0
  BY DEF Init, Each
<1>3. stage = "idle"
  BY DEF Init
<1>4. CountsAgree /\ TuplesBuilt /\ TuplesDistinct
  BY <1>2 DEF CountsAgree, TuplesBuilt, TuplesDistinct, Cells
<1> QED
  BY <1>1, <1>3, <1>4 DEF CollectInv, RowsCollected, ExitAtEnd

LEMMA CollectBegin ==
  ASSUME CollectInv, NEW j \in Jobs, Begin(j)
  PROVE  CollectInv'
<1>1. IInv'
  BY BeginInv DEF CollectInv
<1>2. /\ \A t, p \in Threads : collectors'[t][p] = <<>> /\ counts'[t][p] = 0
      /\ stage' = "build" /\ next_row' = 0
      /\ \A t \in Threads : pc'[t] = "claim"
  BY DEF Begin, reset, Each
<1>3. CountsAgree' /\ TuplesBuilt' /\ TuplesDistinct' /\ ExitAtEnd'
  BY <1>2 DEF CountsAgree, TuplesBuilt, TuplesDistinct, Cells, ExitAtEnd
<1>4. RowsCollected'
  <2>1. Len(BuildColumn)' \in Nat
    <3>1. j.left \in Seq(Keys \cup {Null}) /\ j.right \in Seq(Keys \cup {Null})
      BY DataAssumption
    <3>2. job' = j
      BY DEF Begin
    <3> QED
      BY <3>1, <3>2 DEF BuildColumn
  <2>2. \A r \in Nat : ~Handled(r)'
    BY <1>2 DEF Handled
  <2> QED
    BY <1>2, <2>1, <2>2 DEF RowsCollected
<1> QED
  BY <1>1, <1>3, <1>4 DEF CollectInv

LEMMA CollectClaim ==
  ASSUME CollectInv, NEW t \in Threads, Claim(t)
  PROVE  CollectInv'
<1>1. IInv' /\ IInv
  BY ClaimInv DEF CollectInv
<1>2. /\ stage \in {"build", "probe"}
      /\ UNCHANGED <<stage, job, collectors, counts>>
  BY DEF Claim, slabVars, jobVars
<1>3. BuildColumn' = BuildColumn /\ MorselRows' = MorselRows /\ Len(BuildColumn) \in Nat
  BY <1>1, <1>2, Columns DEF BuildColumn, ProbeColumn, MorselRows, IInv
<1>4. ASSUME NEW r \in Nat, r < Len(BuildColumn), stage = "build"
      PROVE  Handled(r)' <=> Handled(r)
  <2>1. r < MorselRows
    BY <1>4 DEF MorselRows
  <2> QED
    BY <1>1, <2>1, HandledClaim
<1>5. CountsAgree' /\ TuplesDistinct'
  BY <1>2 DEF CollectInv, CountsAgree, TuplesDistinct, Cells
<1>6. TuplesBuilt'
  <2> SUFFICES ASSUME NEW u \in Threads, NEW p \in Threads, NEW k \in Cells(u, p),
                      NEW v, v = collectors[u][p][k].value
               PROVE  /\ v < Len(BuildColumn)
                      /\ get_value(BuildColumn, v) # Null
                      /\ collectors[u][p][k] = BuildTuple(v)
                      /\ stage = "build" => Handled(v)'
    BY <1>2, <1>3 DEF TuplesBuilt, Cells, BuildTuple
  <2>1. v \in Nat
    BY <1>1, CellTypes DEF IInv
  <2>2. /\ v < Len(BuildColumn)
        /\ get_value(BuildColumn, v) # Null
        /\ collectors[u][p][k] = BuildTuple(v)
        /\ stage = "build" => Handled(v)
    BY DEF CollectInv, TuplesBuilt
  <2> QED
    BY <1>4, <2>1, <2>2
<1>7. RowsCollected'
  BY <1>2, <1>3, <1>4 DEF CollectInv, RowsCollected, Cells
<1>8. ExitAtEnd'
  <2>1. next_row \in Nat /\ MorselRows \in Nat /\ PageRows \in Nat \ {0} /\ pc \in [Threads -> Steps]
    BY <1>1, Columns, SizesAssumption DEF IInv, Types, MorselTypes
  <2>2. next_row' = next_row + PageRows
    BY DEF Claim, MorselStride
  <2>3. ASSUME NEW u \in Threads, pc'[u] = "exit" PROVE next_row >= MorselRows
    <3>1. CASE u = t
      BY <2>1, <2>3, <3>1 DEF Claim
    <3>2. CASE u # t
      <4>1. pc[u] = "exit"
        BY <2>1, <2>3, <3>2 DEF Claim
      <4> QED
        BY <1>2, <4>1 DEF CollectInv, ExitAtEnd
    <3> QED
      BY <3>1, <3>2
  <2> QED
    BY <1>3, <2>1, <2>2, <2>3 DEF ExitAtEnd
<1> QED
  BY <1>1, <1>5, <1>6, <1>7, <1>8 DEF CollectInv

Appended(t, q, tuple) ==
  collectors' = [collectors EXCEPT ![t][q] = Append(@, tuple)]

\* What an append to one collector changes: one cell more, the others as before.
LEMMA CellsAppend ==
  ASSUME Types, NEW t \in Threads, NEW q \in Threads, NEW tuple \in Tuples,
         Appended(t, q, tuple)
  PROVE  /\ Len(collectors[t][q]) \in Nat
         /\ Len(collectors[t][q]) + 1 \in Cells(t, q)'
         /\ collectors'[t][q][Len(collectors[t][q]) + 1] = tuple
         /\ \A u, p \in Threads : \A k \in Cells(u, p) :
              k \in Cells(u, p)' /\ collectors'[u][p][k] = collectors[u][p][k]
         /\ \A u, p \in Threads : \A k \in Cells(u, p)' :
              k \in Cells(u, p) \/ (u = t /\ p = q /\ k = Len(collectors[t][q]) + 1)
<1> DEFINE s == collectors[t][q]
<1>1. collectors \in [Threads -> [Threads -> Seq(Tuples)]] /\ s \in Seq(Tuples)
  BY DEF Types, SlabTypes
<1>2. collectors'[t][q] = Append(s, tuple)
  BY <1>1 DEF Appended
<1>3. \A u, p \in Threads : ~(u = t /\ p = q) => collectors'[u][p] = collectors[u][p]
  BY <1>1 DEF Appended
<1>4. /\ Len(s) \in Nat
      /\ Len(collectors'[t][q]) = Len(s) + 1
      /\ collectors'[t][q][Len(s) + 1] = tuple
      /\ \A k \in 1 .. Len(s) : collectors'[t][q][k] = s[k]
  BY <1>1, <1>2
<1>5. ASSUME NEW u \in Threads, NEW p \in Threads, NEW k \in Cells(u, p)
      PROVE  k \in Cells(u, p)' /\ collectors'[u][p][k] = collectors[u][p][k]
  BY <1>3, <1>4 DEF Cells
<1>6. ASSUME NEW u \in Threads, NEW p \in Threads, NEW k \in Cells(u, p)'
      PROVE  k \in Cells(u, p) \/ (u = t /\ p = q /\ k = Len(s) + 1)
  BY <1>3, <1>4 DEF Cells
<1> QED
  BY <1>4, <1>5, <1>6 DEF Cells

LEMMA CollectConsume ==
  ASSUME CollectInv, NEW t \in Threads, ConsumeRow(t)
  PROVE  CollectInv'
<1>0. /\ stage = "build" /\ stage' = "build" /\ job' = job
      /\ pc[t] = "rows" /\ NextRow(t) /\ IInv /\ Types
  BY DEF ConsumeRow, jobVars, CollectInv, IInv
<1>1. IInv'
  BY <1>0, ConsumeRowInv
<1>2. /\ BuildColumn' = BuildColumn /\ MorselRows' = MorselRows
      /\ MorselRows = Len(BuildColumn) /\ Len(BuildColumn) \in Nat
  BY <1>0, Columns DEF BuildColumn, ProbeColumn, MorselRows
<1>3. ExitAtEnd'
  <2>1. pc \in [Threads -> Steps]
    BY <1>0 DEF Types, MorselTypes
  <2>2. next_row' = next_row /\ \A u \in Threads : pc'[u] = "exit" => pc[u] = "exit"
    BY <1>0, <2>1 DEF NextRow
  <2> QED
    BY <1>0, <1>2, <2>2 DEF CollectInv, ExitAtEnd
<1>4. /\ ~Handled(row[t]) /\ row[t] \in Nat /\ row[t] < Len(BuildColumn)
      /\ \A r \in Nat : Handled(r)' <=> Handled(r) \/ r = row[t]
  BY <1>0, <1>2, HandledNext
<1>5. /\ CountsAgree /\ TuplesBuilt /\ TuplesDistinct /\ RowsCollected
  BY DEF CollectInv
<1>6. CASE get_value(BuildColumn, row[t]) = Null
  <2>1. collectors' = collectors /\ counts' = counts
    BY <1>6 DEF ConsumeRow, slabVars
  <2>2. CountsAgree' /\ TuplesDistinct'
    BY <1>5, <2>1 DEF CountsAgree, TuplesDistinct, Cells
  <2>3. TuplesBuilt'
    <3> SUFFICES ASSUME NEW u \in Threads, NEW p \in Threads, NEW k \in Cells(u, p),
                        NEW v, v = collectors[u][p][k].value
                 PROVE  /\ v < Len(BuildColumn)
                        /\ get_value(BuildColumn, v) # Null
                        /\ collectors[u][p][k] = BuildTuple(v)
                        /\ Handled(v)'
      BY <1>0, <1>2, <2>1 DEF TuplesBuilt, Cells, BuildTuple
    <3>1. v \in Nat
      BY <1>0, CellTypes
    <3>2. /\ v < Len(BuildColumn)
          /\ get_value(BuildColumn, v) # Null
          /\ collectors[u][p][k] = BuildTuple(v)
          /\ Handled(v)
      BY <1>0, <1>5 DEF TuplesBuilt
    <3> QED
      BY <1>4, <3>1, <3>2
  <2>4. RowsCollected'
    <3> SUFFICES ASSUME NEW r \in 0 .. Len(BuildColumn) - 1,
                        get_value(BuildColumn, r) # Null, Handled(r)'
                 PROVE  \E u, p \in Threads : \E k \in Cells(u, p) :
                          collectors[u][p][k].value = r
      BY <1>0, <1>2, <2>1 DEF RowsCollected, Cells
    <3>1. r \in Nat
      BY <1>2
    <3>2. Handled(r)
      BY <1>4, <1>6, <3>1
    <3> QED
      BY <1>0, <1>5, <3>2 DEF RowsCollected
  <2> QED
    BY <1>1, <1>3, <2>2, <2>3, <2>4 DEF CollectInv
<1>7. CASE get_value(BuildColumn, row[t]) # Null
  <2>2. PICK tuple \in Tuples : tuple = BuildTuple(row[t])
    BY <1>0, <1>7, RowRead, BuildTupleType
  <2>3. PICK q \in Threads : q = partition_of(tuple.hash)
    BY HashPartition DEF Tuples
  <2>1. /\ collectors' = [collectors EXCEPT ![t][q] = Append(@, tuple)]
        /\ counts' = [counts EXCEPT ![t][q] = @ + 1]
    BY <1>7, <2>2, <2>3 DEF ConsumeRow
  <2>4. tuple.value = row[t] /\ tuple = BuildTuple(row[t])
    BY <2>2 DEF BuildTuple
  <2>10. Len(collectors[t][q]) + 1 \in Nat
    BY <1>0 DEF Types, SlabTypes
  <2>11. PICK k0 \in Nat : k0 = Len(collectors[t][q]) + 1
    BY <2>10
  <2>12. /\ Len(collectors[t][q]) + 1 \in Cells(t, q)'
         /\ collectors'[t][q][Len(collectors[t][q]) + 1] = tuple
         /\ \A u, p \in Threads : \A k \in Cells(u, p) :
              k \in Cells(u, p)' /\ collectors'[u][p][k] = collectors[u][p][k]
         /\ \A u, p \in Threads : \A k \in Cells(u, p)' :
              k \in Cells(u, p) \/ (u = t /\ p = q /\ k = Len(collectors[t][q]) + 1)
    <3>1. Appended(t, q, tuple)
      BY <2>1 DEF Appended
    <3> QED
      BY <1>0, <3>1, CellsAppend
  <2>5. /\ k0 \in Cells(t, q)'
        /\ collectors'[t][q][k0] = tuple
        /\ \A u, p \in Threads : \A k \in Cells(u, p) :
             k \in Cells(u, p)' /\ collectors'[u][p][k] = collectors[u][p][k]
        /\ \A u, p \in Threads : \A k \in Cells(u, p)' :
             k \in Cells(u, p) \/ (u = t /\ p = q /\ k = k0)
    BY <2>11, <2>12
  <2>6. CountsAgree'
    <3>1. /\ collectors \in [Threads -> [Threads -> Seq(Tuples)]]
          /\ counts \in [Threads -> [Threads -> Nat]]
      BY <1>0 DEF Types, SlabTypes
    <3>2. \A u, p \in Threads : ~(u = t /\ p = q) =>
            collectors'[u][p] = collectors[u][p] /\ counts'[u][p] = counts[u][p]
      BY <2>1, <3>1
    <3>3. Len(collectors'[t][q]) = Len(collectors[t][q]) + 1 /\ counts'[t][q] = counts[t][q] + 1
      BY <2>1, <2>2, <2>3, <3>1
    <3> QED
      BY <1>5, <3>2, <3>3 DEF CountsAgree
  <2>7. TuplesBuilt'
    <3> SUFFICES ASSUME NEW u \in Threads, NEW p \in Threads, NEW k \in Cells(u, p)',
                        NEW v, v = collectors'[u][p][k].value
                 PROVE  /\ v < Len(BuildColumn)
                        /\ get_value(BuildColumn, v) # Null
                        /\ collectors'[u][p][k] = BuildTuple(v)
                        /\ Handled(v)'
      BY <1>0, <1>2 DEF TuplesBuilt, BuildTuple
    <3>1. CASE k \in Cells(u, p)
      <4>1. v = collectors[u][p][k].value /\ collectors'[u][p][k] = collectors[u][p][k]
        BY <2>5, <3>1
      <4>2. v \in Nat
        BY <1>0, <3>1, <4>1, CellTypes
      <4>3. /\ v < Len(BuildColumn)
            /\ get_value(BuildColumn, v) # Null
            /\ collectors[u][p][k] = BuildTuple(v)
            /\ Handled(v)
        BY <1>0, <1>5, <3>1, <4>1 DEF TuplesBuilt
      <4> QED
        BY <1>4, <4>1, <4>2, <4>3
    <3>2. CASE u = t /\ p = q /\ k = k0
      <4>1. collectors'[u][p][k] = tuple /\ v = row[t]
        BY <2>4, <2>5, <3>2
      <4>2. Handled(v)'
        BY <1>4, <4>1
      <4> QED
        BY <1>4, <1>7, <2>4, <4>1, <4>2
    <3> QED
      BY <2>5, <3>1, <3>2
  <2>8. TuplesDistinct'
    <3>1. ASSUME NEW u \in Threads, NEW p \in Threads, NEW k \in Cells(u, p)
          PROVE  collectors'[u][p][k].value # row[t]
      <4>1. collectors'[u][p][k] = collectors[u][p][k]
        BY <2>5, <3>1
      <4>2. Handled(collectors[u][p][k].value)
        BY <1>0, <1>5, <3>1 DEF TuplesBuilt
      <4> QED
        BY <1>4, <4>1, <4>2
    <3>2. collectors'[t][q][k0].value = row[t]
      BY <2>4, <2>5
    <3> SUFFICES ASSUME NEW u1 \in Threads, NEW p1 \in Threads, NEW u2 \in Threads,
                        NEW p2 \in Threads,
                        NEW k1 \in Cells(u1, p1)', NEW k2 \in Cells(u2, p2)',
                        collectors'[u1][p1][k1].value = collectors'[u2][p2][k2].value
                 PROVE  u1 = u2 /\ p1 = p2 /\ k1 = k2
      BY DEF TuplesDistinct
    <3>3. CASE k1 \in Cells(u1, p1) /\ k2 \in Cells(u2, p2)
      <4>1. collectors[u1][p1][k1].value = collectors[u2][p2][k2].value
        BY <2>5, <3>3
      <4> QED
        BY <1>5, <3>3, <4>1 DEF TuplesDistinct
    <3>4. CASE k1 \notin Cells(u1, p1) \/ k2 \notin Cells(u2, p2)
      <4>1. ASSUME k1 \notin Cells(u1, p1)
            PROVE  /\ u1 = t /\ p1 = q /\ k1 = k0
                   /\ u2 = t /\ p2 = q /\ k2 = k0
        <5>1. u1 = t /\ p1 = q /\ k1 = k0
          BY <2>5, <4>1
        <5>2. collectors'[u2][p2][k2].value = row[t]
          BY <3>2, <5>1
        <5>3. k2 \notin Cells(u2, p2)
          BY <3>1, <5>2
        <5> QED
          BY <2>5, <5>1, <5>3
      <4>2. ASSUME k2 \notin Cells(u2, p2)
            PROVE  /\ u1 = t /\ p1 = q /\ k1 = k0
                   /\ u2 = t /\ p2 = q /\ k2 = k0
        <5>1. u2 = t /\ p2 = q /\ k2 = k0
          BY <2>5, <4>2
        <5>2. collectors'[u1][p1][k1].value = row[t]
          BY <3>2, <5>1
        <5>3. k1 \notin Cells(u1, p1)
          BY <3>1, <5>2
        <5> QED
          BY <2>5, <5>1, <5>3
      <4> QED
        BY <3>4, <4>1, <4>2
    <3> QED
      BY <3>3, <3>4
  <2>9. RowsCollected'
    <3> SUFFICES ASSUME NEW r \in 0 .. Len(BuildColumn) - 1,
                        get_value(BuildColumn, r) # Null, Handled(r)'
                 PROVE  \E u, p \in Threads : \E k \in Cells(u, p)' :
                          collectors'[u][p][k].value = r
      BY <1>0, <1>2 DEF RowsCollected
    <3>1. CASE r = row[t]
      BY <2>3, <2>4, <2>5, <3>1
    <3>2. CASE r # row[t]
      <4>1. Handled(r)
        BY <1>2, <1>4, <3>2
      <4>2. PICK u, p \in Threads : \E k \in Cells(u, p) : collectors[u][p][k].value = r
        BY <1>0, <1>5, <4>1 DEF RowsCollected
      <4>3. PICK k \in Cells(u, p) : collectors[u][p][k].value = r
        BY <4>2
      <4>4. k \in Cells(u, p)' /\ collectors'[u][p][k].value = r
        BY <2>5, <4>3
      <4> QED
        BY <4>4
    <3> QED
      BY <3>1, <3>2
  <2> QED
    BY <1>1, <1>3, <2>6, <2>7, <2>8, <2>9 DEF CollectInv
<1> QED
  BY <1>6, <1>7

LEMMA CollectMerge ==
  ASSUME CollectInv, NEW p \in Threads, MergeStep(p)
  PROVE  CollectInv'
<1>1. IInv'
  BY MergeInv DEF CollectInv
<1>2. /\ stage = "merge" /\ stage' = "merge"
      /\ UNCHANGED <<job, collectors, counts>>
  BY DEF MergeStep, CountTuple, NextCollector, EndOfCount, LastCollectorDone, SetRange,
         ScatterTuple, EndOfScatter, jobVars, slabVars
<1>3. ExitAtEnd'
  BY <1>2 DEF ExitAtEnd
<1> QED
  BY <1>1, <1>2, <1>3, CollectKept DEF CollectInv

LEMMA CollectProbe ==
  ASSUME CollectInv, NEW t \in Threads, ProbeStep(t)
  PROVE  CollectInv'
<1>1. IInv'
  BY ProbeInv DEF CollectInv
<1>2. /\ stage = "probe" /\ stage' = "probe" /\ pc[t] \in {"rows", "compare"}
      /\ UNCHANGED <<job, collectors, counts, next_row>>
  BY DEF ProbeStep, ProbeRow, ProbeTuple, NextRow, jobVars, slabVars, morselVars
<1>3. \/ pc' = pc
      \/ \E v \in {"rows", "claim", "compare", "thrown"} : pc' = [pc EXCEPT ![t] = v]
  BY DEF ProbeStep, ProbeRow, ProbeTuple, NextRow
<1>4. \A u \in Threads : pc'[u] = "exit" => pc[u] = "exit"
  BY <1>3 DEF CollectInv, IInv, Types, MorselTypes
<1>5. ExitAtEnd'
  BY <1>2, <1>4 DEF ExitAtEnd, CollectInv, MorselRows, BuildColumn, ProbeColumn
<1> QED
  BY <1>1, <1>2, <1>5, CollectKept DEF CollectInv

LEMMA CollectMain ==
  ASSUME CollectInv, Main
  PROVE  CollectInv'
<1>1. IInv'
  BY MainInv DEF CollectInv
<1>2. /\ stage # "idle" /\ stage' \notin {"idle", "build"}
      /\ UNCHANGED <<job, collectors, counts>>
      /\ stage = "build" => Exited
      /\ stage' = "probe" => \A t \in Threads : pc'[t] = "claim"
  BY DEF Main, JoinBuild, Tally, ForkMerge, JoinMerge, JoinProbe, Gather, Return, Each,
         jobVars, slabVars
<1>3. ASSUME stage = "build", NEW r \in Nat, r < Len(BuildColumn) PROVE Handled(r)
  <2>1. r < MorselRows
    BY <1>3 DEF MorselRows
  <2> QED
    BY <1>2, <1>3, <2>1, HandledAll DEF CollectInv
<1>4. ExitAtEnd'
  BY <1>2 DEF ExitAtEnd
<1> QED
  BY <1>1, <1>2, <1>3, <1>4, CollectKept DEF CollectInv

LEMMA CollectStep == CollectInv /\ [Next]_vars => CollectInv'
<1> SUFFICES ASSUME CollectInv, [Next]_vars PROVE CollectInv'
  OBVIOUS
<1>1. ASSUME NEW j \in Jobs, Begin(j) PROVE CollectInv'
  BY <1>1, CollectBegin
<1>2. CASE Main
  BY <1>2, CollectMain
<1>3. ASSUME NEW t \in Threads, Thread(t) PROVE CollectInv'
  BY <1>3, CollectClaim, CollectConsume, CollectMerge, CollectProbe DEF Thread, BuildStep
<1>4. CASE UNCHANGED vars
  <2>1. IInv'
    BY <1>4, InvStep DEF CollectInv
  <2>2. UNCHANGED <<stage, job, collectors, counts, pc, row, row_end, next_row>>
    BY <1>4 DEF vars, jobVars, morselVars, slabVars
  <2>3. BuildColumn' = BuildColumn /\ MorselRows' = MorselRows
    BY <2>2 DEF MorselRows, BuildColumn, ProbeColumn
  <2>4. \A r : Handled(r)' <=> Handled(r)
    BY <2>2 DEF Handled, InMorsel
  <2>5. CountsAgree' /\ TuplesDistinct' /\ ExitAtEnd'
    BY <2>2, <2>3 DEF CollectInv, CountsAgree, TuplesDistinct, ExitAtEnd, Cells
  <2>6. TuplesBuilt' /\ RowsCollected'
    BY <2>2, <2>3 DEF CollectInv, TuplesBuilt, RowsCollected, Cells, Handled, InMorsel,
                      BuildTuple
  <2> QED
    BY <2>1, <2>5, <2>6 DEF CollectInv
<1> QED
  BY <1>1, <1>2, <1>3, <1>4 DEF Next, Finished
-----------------------------------------------------------------------------
(* The build phase.                                                        *)

\* The places of the model are the cells of all collectors.
LEMMA PlaceCells ==
  ASSUME CollectInv
  PROVE  /\ \A t, p \in Threads : \A k \in Cells(t, p) : <<t, p, k>> \in Places
         /\ \A x \in Places : /\ x[1] \in Threads /\ x[2] \in Threads
                              /\ x[3] \in Cells(x[1], x[2])
                              /\ x = <<x[1], x[2], x[3]>>
<1>1. \A t, p \in Threads : Len(collectors[t][p]) <= Len(BuildColumn)
  BY CellsBound DEF CollectInv, IInv
<1>2. /\ \A t, p \in Threads : Len(collectors[t][p]) \in Nat
      /\ Len(BuildColumn) \in Nat
  BY Columns DEF CollectInv, IInv, Types, SlabTypes
<1>3. ASSUME NEW t \in Threads, NEW p \in Threads, NEW k \in Cells(t, p)
      PROVE  <<t, p, k>> \in Places
  <2>1. k \in 1 .. Len(BuildColumn) /\ k <= Len(collectors[t][p])
    BY <1>1, <1>2 DEF Cells
  <2> QED
    BY <2>1 DEF Places
<1>4. ASSUME NEW x \in Places
      PROVE  /\ x[1] \in Threads /\ x[2] \in Threads
             /\ x[3] \in Cells(x[1], x[2])
             /\ x = <<x[1], x[2], x[3]>>
  BY <1>2 DEF Places, Cells
<1> QED
  BY <1>3, <1>4

\* What holds of every place, at any stage.
LEMMA PlaceFacts ==
  ASSUME CollectInv, NEW x \in Places
  PROVE  /\ x[1] \in Threads /\ x[2] \in Threads /\ x[3] \in Nat \ {0}
         /\ x = <<x[1], x[2], x[3]>>
         /\ x[3] <= Len(collectors[x[1]][x[2]])
         /\ Collected(x) \in Tuples
         /\ Collected(x).value \in Nat
         /\ Collected(x).hash \in 0 .. HashSize - 1
         /\ Collected(x).value < Len(BuildColumn)
         /\ get_value(BuildColumn, Collected(x).value) # Null
         /\ Collected(x) = BuildTuple(Collected(x).value)
         /\ x[2] = partition_of(Collected(x).hash)
         /\ stage = "build" => Handled(Collected(x).value)
<1>1. /\ x[1] \in Threads /\ x[2] \in Threads
      /\ x[3] \in Cells(x[1], x[2])
      /\ x = <<x[1], x[2], x[3]>>
  BY PlaceCells
<1>2. /\ Collected(x) \in Tuples
      /\ Collected(x).value \in Nat
      /\ Collected(x).hash \in 0 .. HashSize - 1
  BY <1>1, CellTypes DEF Collected, CollectInv, IInv
<1>3. /\ Collected(x).value < Len(BuildColumn)
      /\ get_value(BuildColumn, Collected(x).value) # Null
      /\ Collected(x) = BuildTuple(Collected(x).value)
      /\ stage = "build" => Handled(Collected(x).value)
  BY <1>1 DEF CollectInv, TuplesBuilt, Collected
<1>4. x[2] = partition_of(Collected(x).hash)
  BY <1>1 DEF CollectInv, IInv, TuplesInPartition, Collected, Cells
<1>5. x[3] \in Nat \ {0} /\ x[3] <= Len(collectors[x[1]][x[2]])
  <2>1. Len(collectors[x[1]][x[2]]) \in Nat
    BY <1>1 DEF CollectInv, IInv, Types, SlabTypes
  <2> QED
    BY <1>1, <2>1 DEF Cells
<1> QED
  BY <1>1, <1>2, <1>3, <1>4, <1>5

LEMMA PlacesDistinct ==
  ASSUME CollectInv, NEW x \in Places, NEW y \in Places, Collected(x).value = Collected(y).value
  PROVE  x = y
<1>1. /\ x[1] \in Threads /\ x[2] \in Threads
      /\ x[3] \in Cells(x[1], x[2])
      /\ x = <<x[1], x[2], x[3]>>
  BY PlaceCells
<1>2. /\ y[1] \in Threads /\ y[2] \in Threads
      /\ y[3] \in Cells(y[1], y[2])
      /\ y = <<y[1], y[2], y[3]>>
  BY PlaceCells
<1>3. x[1] = y[1] /\ x[2] = y[2] /\ x[3] = y[3]
  BY <1>1, <1>2 DEF CollectInv, TuplesDistinct, Collected
<1> QED
  BY <1>1, <1>2, <1>3

LEMMA PlaceOfRow ==
  ASSUME CollectInv, stage # "idle", NEW r \in 0 .. Len(BuildColumn) - 1,
         get_value(BuildColumn, r) # Null, stage = "build" => Handled(r)
  PROVE  \E x \in Places : Collected(x).value = r
<1>1. PICK t, p \in Threads : \E k \in Cells(t, p) : collectors[t][p][k].value = r
  BY DEF CollectInv, RowsCollected
<1>2. PICK k \in Cells(t, p) : collectors[t][p][k].value = r
  BY <1>1
<1>3. <<t, p, k>> \in Places /\ Collected(<<t, p, k>>).value = r
  BY <1>2, PlaceCells DEF Collected
<1> QED
  BY <1>3

\* The collectors, in every state of every sequence of joins.
THEOREM CollectInvariant == Spec => []CollectInv
  BY CollectInit, CollectStep, PTL DEF Spec

\* However the threads interleave, build_phase and TupleCollector::consume
\* collect every build row with a key exactly once, in the partition of its
\* hash, and the counters say how many; Context::reset leaves nothing behind.
THEOREM EachRowCollectedOnce == Spec => []CollectedExactlyOnce
<1>1. CollectInv => CollectedExactlyOnce
  <2> SUFFICES ASSUME CollectInv, stage # "idle" PROVE CollectedExactlyOnce
    BY DEF CollectedExactlyOnce
  <2>1. \A t, p \in Threads : /\ counts[t][p] = Len(collectors[t][p])
                              /\ counts[t][p] <= Len(BuildColumn)
    BY CellsBound DEF CollectInv, IInv, CountsAgree
  <2>2. \A x \in Places :
          LET tuple == Collected(x)
          IN  /\ tuple.value < Len(BuildColumn)
              /\ get_value(BuildColumn, tuple.value) # Null
              /\ tuple = BuildTuple(tuple.value)
              /\ x[2] = partition_of(tuple.hash)
              /\ stage = "build" => Handled(tuple.value)
    BY PlaceFacts
  <2>3. \A x, y \in Places : Collected(x).value = Collected(y).value => x = y
    BY PlacesDistinct
  <2>4. \A r \in 0 .. Len(BuildColumn) - 1 :
          get_value(BuildColumn, r) # Null /\ (stage = "build" => Handled(r)) =>
            \E x \in Places : Collected(x).value = r
    BY PlaceOfRow
  <2> QED
    BY <2>1, <2>2, <2>3, <2>4 DEF CollectedExactlyOnce
<1> QED
  BY <1>1, CollectInvariant, PTL
-----------------------------------------------------------------------------
(* Counting.                                                               *)

LEMMA CardSubset ==
  ASSUME NEW S, IsFiniteSet(S), NEW T, T \subseteq S
  PROVE  /\ IsFiniteSet(T)
         /\ Cardinality(T) \in Nat
         /\ Cardinality(T) <= Cardinality(S)
<1>1. T \in SUBSET S
  OBVIOUS
<1>2. IsFiniteSet(T) /\ Cardinality(T) <= Cardinality(S)
  BY <1>1, FS_Subset
<1> QED
  BY <1>2, FS_CardinalityType

LEMMA CardDisjoint ==
  ASSUME NEW S, IsFiniteSet(S), NEW T, IsFiniteSet(T), \A x \in S : x \notin T
  PROVE  Cardinality(S \cup T) = Cardinality(S) + Cardinality(T)
<1>1. S \cap T = {}
  OBVIOUS
<1>2. Cardinality({}) = 0
  BY FS_EmptySet
<1>3. Cardinality(S \cup T) = Cardinality(S) + Cardinality(T) - Cardinality(S \cap T)
  BY FS_Union
<1>4. Cardinality(S) \in Nat /\ Cardinality(T) \in Nat
  BY FS_CardinalityType
<1>5. Cardinality(S) + Cardinality(T) - 0 = Cardinality(S) + Cardinality(T)
  BY <1>4
<1> QED
  BY <1>1, <1>2, <1>3, <1>5

\* f numbers the elements of S from 1 to n, and so counts them.
Numbers(f, n, S) ==
  /\ f \in [1 .. n -> S]
  /\ \A k, l \in 1 .. n : f[k] = f[l] => k = l
  /\ \A x \in S : \E k \in 1 .. n : f[k] = x

LEMMA CardNumbered ==
  ASSUME NEW n \in Nat, NEW f, NEW S, Numbers(f, n, S)
  PROVE  IsFiniteSet(S) /\ Cardinality(S) = n
<1>1. f \in Bijection(1 .. n, S)
  <2>1. f \in Injection(1 .. n, S)
    BY DEF Numbers, Injection, IsInjective
  <2>2. f \in Surjection(1 .. n, S)
    BY DEF Numbers, Surjection
  <2> QED
    BY <2>1, <2>2 DEF Bijection
<1>2. IsFiniteSet(1 .. n) /\ Cardinality(1 .. n) = n
  <2>1. /\ IsFiniteSet(1 .. n)
        /\ Cardinality(1 .. n) = IF 1 > n THEN 0 ELSE n - 1 + 1
    BY FS_Interval
  <2> QED
    BY <2>1
<1>3. ExistsBijection(1 .. n, S)
  BY <1>1 DEF ExistsBijection
<1> QED
  BY <1>2, <1>3, FS_Bijection

LEMMA PlacesFinite ==
  ASSUME CollectInv
  PROVE  IsFiniteSet(Places) /\ Cardinality(Places) \in Nat
<1> DEFINE n == Len(BuildColumn)
           P == Places
           f == [x \in P |-> Collected(x).value]
<1>1. n \in Nat
  BY Columns DEF CollectInv, IInv
<1>2. \A x \in P : Collected(x).value \in 0 .. n - 1
  BY <1>1, PlaceFacts
<1>3. \A x, y \in P : Collected(x).value = Collected(y).value => x = y
  BY PlacesDistinct
<1> HIDE DEF n, P
<1>4. f \in Injection(P, 0 .. n - 1)
  BY <1>2, <1>3 DEF Injection, IsInjective
<1>5. IsFiniteSet(0 .. n - 1)
  BY <1>1, FS_Interval
<1> HIDE DEF f
<1>6. IsFiniteSet(P)
  BY <1>4, <1>5, FS_Injection
<1> QED
  BY <1>6, FS_CardinalityType DEF P
-----------------------------------------------------------------------------
(* The prefix sums.                                                        *)

\* The places counted when the main thread is at counter i of collector j.
Tallied(i, j) == { x \in Places : x[2] < i \/ (x[2] = i /\ x[1] < j) }

TallyExact ==
  stage = "tally" =>
    /\ total = Cardinality(Tallied(tally[1], tally[2]))
    /\ tally[1] = NumPartitions => tally[2] = 0
    /\ \A p \in Threads : p < tally[1] \/ (p = tally[1] /\ tally[2] > 0) =>
         prefix[p] = Cardinality(Tallied(p, 0))

LEMMA TalliedFinite ==
  ASSUME CollectInv, NEW i, NEW j
  PROVE  IsFiniteSet(Tallied(i, j)) /\ Cardinality(Tallied(i, j)) \in Nat
<1>1. Tallied(i, j) \subseteq Places
  BY DEF Tallied
<1> QED
  BY <1>1, PlacesFinite, CardSubset

\* One counter is the number of places of its collector and partition.
LEMMA CardCells ==
  ASSUME CollectInv, NEW t \in Threads, NEW p \in Threads
  PROVE  LET S == { x \in Places : x[2] = p /\ x[1] = t }
         IN  IsFiniteSet(S) /\ Cardinality(S) = counts[t][p]
<1> DEFINE S == { x \in Places : x[2] = p /\ x[1] = t }
           n == Len(collectors[t][p])
           f == [k \in 1 .. n |-> <<t, p, k>>]
<1>1. n \in Nat /\ n = counts[t][p]
  BY DEF CollectInv, CountsAgree, IInv, Types, SlabTypes
<1>2. \A k \in 1 .. n : <<t, p, k>> \in S
  BY PlaceCells DEF Cells
<1>3. \A x \in S : \E k \in 1 .. n : x = <<t, p, k>>
  BY PlaceCells DEF Cells
<1> HIDE DEF S, n
<1>4. f \in [1 .. n -> S]
  BY <1>2
<1>5. \A k, l \in 1 .. n : f[k] = f[l] => k = l
  OBVIOUS
<1>6. \A x \in S : \E k \in 1 .. n : f[k] = x
  BY <1>3
<1>7. Numbers(f, n, S)
  BY <1>4, <1>5, <1>6 DEF Numbers
<1> HIDE DEF f
<1>8. IsFiniteSet(S) /\ Cardinality(S) = n
  BY <1>1, <1>7, CardNumbered
<1> QED
  BY <1>1, <1>8 DEF S

LEMMA PlacesKept ==
  ASSUME UNCHANGED <<job, collectors>>
  PROVE  /\ Places' = Places
         /\ \A x : Collected(x)' = Collected(x)
         /\ \A i, j : Tallied(i, j)' = Tallied(i, j)
BY DEF Places, Collected, Tallied, BuildColumn

LEMMA TallyStep ==
  ASSUME CollectInv, TallyExact, Tally
  PROVE  TallyExact'
<1> DEFINE i == tally[1]
           j == tally[2]
           S == { x \in Places : x[2] = i /\ x[1] = j }
<1>1. /\ stage = "tally" /\ i \in Nat /\ i < NumPartitions /\ j \in Threads
      /\ prefix \in [Threads -> Nat] /\ NumPartitions \in Nat \ {0}
  BY SizesAssumption DEF Tally, CollectInv, IInv, Types, MainTypes
<1>2. /\ total' = total + counts[j][i]
      /\ prefix' = IF j = 0 THEN [prefix EXCEPT ![i] = total] ELSE prefix
      /\ tally' = IF j + 1 < NumPartitions THEN <<i, j + 1>> ELSE <<i + 1, 0>>
      /\ UNCHANGED <<job, collectors>>
  BY DEF Tally, PrefixOf, jobVars, slabVars
<1>3. i \in Threads /\ j \in Nat /\ j < NumPartitions
  BY <1>1 DEF Threads
<1>4. \A x \in Places : x[1] \in Nat /\ x[1] < NumPartitions /\ x[2] \in Nat
  BY PlaceFacts, <1>1 DEF Threads
<1>5. IsFiniteSet(S) /\ Cardinality(S) = counts[j][i]
  BY <1>1, <1>3, CardCells
<1>6. /\ total = Cardinality(Tallied(i, j))
      /\ \A p \in Threads : p < i \/ (p = i /\ j > 0) => prefix[p] = Cardinality(Tallied(p, 0))
  BY <1>1 DEF TallyExact
<1>7. \A k, l : Tallied(k, l)' = Tallied(k, l)
  BY <1>2, PlacesKept
<1>8. Tallied(i, j + 1) = Tallied(i, j) \cup S
  BY <1>1, <1>3, <1>4 DEF Tallied
<1>9. \A x \in Tallied(i, j) : x \notin S
  BY <1>1, <1>3, <1>4 DEF Tallied
<1> HIDE DEF i, j, S
<1>10. Cardinality(Tallied(i, j + 1)) = total + counts[j][i]
  BY <1>5, <1>6, <1>8, <1>9, TalliedFinite, CardDisjoint
<1>11. \A p \in Threads : p <= i => prefix'[p] = Cardinality(Tallied(p, 0))
  <2> SUFFICES ASSUME NEW p \in Threads, p <= i PROVE prefix'[p] = Cardinality(Tallied(p, 0))
    OBVIOUS
  <2>1. CASE p = i /\ j = 0
    BY <1>1, <1>2, <1>3, <1>6, <2>1
  <2>2. CASE ~(p = i /\ j = 0)
    <3>1. p \in Nat
      BY <1>1 DEF Threads
    <3>2. prefix'[p] = prefix[p]
      BY <1>1, <1>2, <1>3, <2>2
    <3>3. p < i \/ (p = i /\ j > 0)
      BY <1>1, <1>3, <2>2, <3>1
    <3> QED
      BY <1>6, <3>2, <3>3
  <2> QED
    BY <2>1, <2>2
<1>12. CASE j + 1 < NumPartitions
  <2>1. tally'[1] = i /\ tally'[2] = j + 1
    BY <1>2, <1>12
  <2>2. \A p \in Threads : p < tally'[1] \/ (p = tally'[1] /\ tally'[2] > 0) => p <= i
    BY <1>1, <2>1 DEF Threads
  <2>3. tally'[1] # NumPartitions
    BY <1>1, <2>1
  <2> QED
    BY <1>2, <1>7, <1>10, <1>11, <2>1, <2>2, <2>3 DEF TallyExact
<1>13. CASE ~(j + 1 < NumPartitions)
  <2>1. tally'[1] = i + 1 /\ tally'[2] = 0 /\ j + 1 = NumPartitions
    BY <1>1, <1>2, <1>3, <1>13
  <2>2. Tallied(i + 1, 0) = Tallied(i, j + 1)
    BY <1>1, <1>4, <2>1 DEF Tallied
  <2>3. \A p \in Threads : p < tally'[1] \/ (p = tally'[1] /\ tally'[2] > 0) => p <= i
    BY <1>1, <2>1 DEF Threads
  <2> QED
    BY <1>2, <1>7, <1>10, <1>11, <2>1, <2>2, <2>3 DEF TallyExact
<1> QED
  BY <1>12, <1>13

\* The counters at the end of the loop: all tuples, and those of the
\* partitions before each.
LEMMA TallyEnd ==
  ASSUME CollectInv, TallyExact, stage = "tally", tally[1] = NumPartitions
  PROVE  /\ total = Cardinality(Places)
         /\ \A p \in Threads : prefix[p] = Cardinality({ x \in Places : x[2] < p })
<1>1. NumPartitions \in Nat \ {0} /\ \A x \in Places : x[1] \in Threads /\ x[2] \in Threads
  BY PlaceFacts, SizesAssumption
<1>2. Tallied(NumPartitions, 0) = Places
  BY <1>1 DEF Tallied, Threads
<1>3. \A p \in Threads : Tallied(p, 0) = { x \in Places : x[2] < p }
  BY <1>1 DEF Tallied, Threads
<1>4. \A p \in Threads : p < tally[1]
  BY <1>1 DEF Threads
<1> QED
  BY <1>2, <1>3, <1>4 DEF TallyExact
-----------------------------------------------------------------------------
(* The slots of the directory: who owns them, where their ranges start.    *)

SlotOf(x) == bucket_index_from_hash(Collected(x).hash, bucket_cnt)

InSlot(s) == { x \in Places : SlotOf(x) = s }
Below(s)  == { x \in Places : SlotOf(x) < s }

\* The first index of a slot, when the array is sorted by slots.
Start(s) == Cardinality(Below(s))

SlotsOf(p) == FirstSlot(p) .. FirstSlot(p + 1) - 1

LEMMA SlotsInside ==
  ASSUME bucket_cnt \in DirectorySizes, NEW p \in Threads
  PROVE  /\ FirstSlot(p) \in 0 .. bucket_cnt
         /\ FirstSlot(p + 1) \in 0 .. bucket_cnt
         /\ FirstSlot(p) <= FirstSlot(p + 1)
         /\ \A s \in SlotsOf(p) : s \in 0 .. bucket_cnt - 1
<1>1. /\ p \in 0 .. NumPartitions /\ p + 1 \in 0 .. NumPartitions /\ p <= p + 1
      /\ bucket_cnt \in Nat
  BY SizesAssumption DEF Threads
<1>2. /\ FirstSlot(p) \in 0 .. bucket_cnt
      /\ FirstSlot(p + 1) \in 0 .. bucket_cnt
      /\ FirstSlot(p) <= FirstSlot(p + 1)
  BY <1>1, FirstSlots
<1>3. \A s \in SlotsOf(p) : s \in 0 .. bucket_cnt - 1
  BY <1>1, <1>2 DEF SlotsOf
<1> QED
  BY <1>2, <1>3

LEMMA OneOwner ==
  ASSUME bucket_cnt \in DirectorySizes, NEW p \in Threads, NEW q \in Threads,
         NEW s \in SlotsOf(p), s \in SlotsOf(q)
  PROVE  p = q
<1>1. ASSUME NEW r \in Threads, NEW u \in Threads, r < u, s \in SlotsOf(r), s \in SlotsOf(u)
      PROVE  FALSE
  <2>1. r + 1 \in 0 .. NumPartitions /\ u \in 0 .. NumPartitions /\ r + 1 <= u
    BY <1>1, SizesAssumption DEF Threads
  <2>2. FirstSlot(r + 1) <= FirstSlot(u)
    BY <2>1, FirstSlots
  <2>3. FirstSlot(r + 1) \in Int /\ FirstSlot(u) \in Int /\ FirstSlot(r) \in Int
        /\ FirstSlot(u + 1) \in Int /\ bucket_cnt \in Nat
    BY SlotsInside, SizesAssumption
  <2>4. s < FirstSlot(r + 1) /\ FirstSlot(u) <= s /\ s \in Int
    BY <1>1, <2>3 DEF SlotsOf
  <2> QED
    BY <2>2, <2>3, <2>4
<1>2. p \in Int /\ q \in Int
  BY SizesAssumption DEF Threads
<1>3. ~(p < q) /\ ~(q < p)
  BY <1>1
<1> QED
  BY <1>2, <1>3

LEMMA HasOwner ==
  ASSUME bucket_cnt \in DirectorySizes, NEW s \in 0 .. bucket_cnt - 1
  PROVE  \E p \in Threads : s \in SlotsOf(p)
<1>1. PICK n \in Nat \ {0} : bucket_cnt = NumPartitions * n
  BY Sizes
<1>2. NumPartitions \in Nat \ {0} /\ s \in Nat /\ s < NumPartitions * n
  BY <1>1, SizesAssumption
<1> DEFINE p == s \div n
<1>3. p \in Nat /\ n * p <= s /\ s < n * (p + 1)
  BY <1>1, <1>2, DivBounds
<1> HIDE DEF p
<1>4. p < NumPartitions
  <2> SUFFICES ASSUME NumPartitions <= p PROVE FALSE
    BY <1>2, <1>3
  <2>1. n * NumPartitions <= n * p
    BY <1>1, <1>2, <1>3
  <2>2. n * NumPartitions = NumPartitions * n
    BY <1>1, <1>2
  <2> QED
    BY <1>1, <1>2, <1>3, <2>1, <2>2
<1>5. ASSUME NEW q \in Nat PROVE FirstSlot(q) = q * n
  <2>1. q * bucket_cnt = NumPartitions * (q * n) /\ q * n \in Nat
    BY <1>1, <1>2
  <2> QED
    BY <1>2, <2>1, MultipleDiv DEF FirstSlot
<1>6. p + 1 \in Nat
  BY <1>3
<1>7. FirstSlot(p) = p * n /\ FirstSlot(p + 1) = (p + 1) * n
  BY <1>3, <1>5, <1>6
<1>8. p * n <= s /\ s < (p + 1) * n /\ p * n \in Int /\ (p + 1) * n \in Int
  BY <1>1, <1>2, <1>3
<1>9. s \in p * n .. (p + 1) * n - 1
  BY <1>2, <1>8
<1>10. p \in Threads
  BY <1>2, <1>3, <1>4 DEF Threads
<1> QED
  BY <1>7, <1>9, <1>10 DEF SlotsOf

LEMMA SlotOfPlace ==
  ASSUME CollectInv, bucket_cnt \in DirectorySizes, NEW x \in Places
  PROVE  /\ SlotOf(x) \in 0 .. bucket_cnt - 1
         /\ SlotOf(x) \in SlotsOf(x[2])
<1>1. /\ Collected(x).hash \in 0 .. HashSize - 1
      /\ x[2] = partition_of(Collected(x).hash) /\ x[2] \in Threads
  BY PlaceFacts
<1>2. /\ SlotOf(x) \in 0 .. bucket_cnt - 1
      /\ FirstSlot(x[2]) <= SlotOf(x)
      /\ SlotOf(x) < FirstSlot(x[2] + 1)
  BY <1>1, SlotOwner DEF SlotOf
<1>3. FirstSlot(x[2]) \in 0 .. bucket_cnt /\ FirstSlot(x[2] + 1) \in 0 .. bucket_cnt
  BY <1>1, SlotsInside
<1>4. bucket_cnt \in Nat
  BY SizesAssumption
<1> QED
  BY <1>2, <1>3, <1>4 DEF SlotsOf

\* The tuples of a slot are all in the partition of the thread that owns it.
LEMMA PlacesOfSlot ==
  ASSUME CollectInv, bucket_cnt \in DirectorySizes, NEW p \in Threads, NEW s \in SlotsOf(p),
         NEW x \in InSlot(s)
  PROVE  x \in Places /\ x[2] = p
<1>1. x \in Places /\ SlotOf(x) = s
  BY DEF InSlot
<1>2. s \in SlotsOf(x[2]) /\ x[2] \in Threads
  BY <1>1, SlotOfPlace, PlaceFacts
<1> QED
  BY <1>1, <1>2, OneOwner

LEMMA StartFacts ==
  ASSUME CollectInv, bucket_cnt \in DirectorySizes
  PROVE  /\ \A s : /\ Start(s) \in Nat /\ Start(s) <= Cardinality(Places)
                   /\ IsFiniteSet(InSlot(s)) /\ Cardinality(InSlot(s)) \in Nat
         /\ \A s, r \in Int : s <= r => Start(s) <= Start(r)
         /\ \A s \in Int : Start(s + 1) = Start(s) + Cardinality(InSlot(s))
         /\ Start(0) = 0
         /\ Start(bucket_cnt) = Cardinality(Places)
<1>1. \A s : /\ Below(s) \subseteq Places /\ InSlot(s) \subseteq Places
  BY DEF Below, InSlot
<1>2. \A s : /\ IsFiniteSet(Below(s)) /\ Start(s) \in Nat /\ Start(s) <= Cardinality(Places)
             /\ IsFiniteSet(InSlot(s)) /\ Cardinality(InSlot(s)) \in Nat
  BY <1>1, PlacesFinite, CardSubset DEF Start
<1>3. bucket_cnt \in Nat /\ \A x \in Places : SlotOf(x) \in 0 .. bucket_cnt - 1
  BY SlotOfPlace, SizesAssumption
<1>4. ASSUME NEW s \in Int, NEW r \in Int, s <= r PROVE Start(s) <= Start(r)
  <2>1. Below(s) \subseteq Below(r)
    BY <1>3, <1>4 DEF Below
  <2> QED
    BY <1>2, <2>1, CardSubset DEF Start
<1>5. ASSUME NEW s \in Int PROVE Start(s + 1) = Start(s) + Cardinality(InSlot(s))
  <2>1. Below(s + 1) = Below(s) \cup InSlot(s)
    BY <1>3 DEF Below, InSlot
  <2>2. \A x \in Below(s) : x \notin InSlot(s)
    BY <1>3 DEF Below, InSlot
  <2> QED
    BY <1>2, <2>1, <2>2, CardDisjoint DEF Start
<1>6. Start(0) = 0
  <2>1. Below(0) = {}
    BY <1>3 DEF Below
  <2> QED
    BY <2>1, FS_EmptySet DEF Start
<1>7. Start(bucket_cnt) = Cardinality(Places)
  <2>1. Below(bucket_cnt) = Places
    BY <1>3 DEF Below
  <2> QED
    BY <2>1 DEF Start
<1> QED
  BY <1>2, <1>4, <1>5, <1>6, <1>7

\* The prefix sum of a partition is the first index of its first slot.
LEMMA StartOfPartition ==
  ASSUME CollectInv, bucket_cnt \in DirectorySizes, NEW p \in Threads
  PROVE  Cardinality({ x \in Places : x[2] < p }) = Start(FirstSlot(p))
<1>1. /\ p \in 0 .. NumPartitions /\ NumPartitions \in Nat \ {0} /\ bucket_cnt \in Nat
      /\ FirstSlot(p) \in 0 .. bucket_cnt
  BY SizesAssumption, SlotsInside DEF Threads
<1>2. ASSUME NEW x \in Places PROVE x[2] < p <=> SlotOf(x) < FirstSlot(p)
  <2>1. /\ x[2] \in Threads
        /\ SlotOf(x) \in 0 .. bucket_cnt - 1 /\ SlotOf(x) \in SlotsOf(x[2])
    BY PlaceFacts, SlotOfPlace
  <2>2. /\ x[2] \in 0 .. NumPartitions /\ x[2] + 1 \in 0 .. NumPartitions
        /\ FirstSlot(x[2]) \in 0 .. bucket_cnt /\ FirstSlot(x[2] + 1) \in 0 .. bucket_cnt
    BY <1>1, <2>1, SlotsInside DEF Threads
  <2>3. FirstSlot(x[2]) <= SlotOf(x) /\ SlotOf(x) < FirstSlot(x[2] + 1)
    BY <1>1, <2>1, <2>2 DEF SlotsOf
  <2>4. ASSUME x[2] < p PROVE SlotOf(x) < FirstSlot(p)
    <3>1. x[2] + 1 <= p
      BY <1>1, <2>2, <2>4
    <3>2. FirstSlot(x[2] + 1) <= FirstSlot(p)
      BY <1>1, <2>2, <3>1, FirstSlots
    <3> QED
      BY <1>1, <2>1, <2>2, <2>3, <3>2
  <2>5. ASSUME ~(x[2] < p) PROVE ~(SlotOf(x) < FirstSlot(p))
    <3>1. p <= x[2]
      BY <1>1, <2>2, <2>5
    <3>2. FirstSlot(p) <= FirstSlot(x[2])
      BY <1>1, <2>2, <3>1, FirstSlots
    <3> QED
      BY <1>1, <2>1, <2>2, <2>3, <3>2
  <2> QED
    BY <2>4, <2>5
<1>3. { x \in Places : x[2] < p } = Below(FirstSlot(p))
  BY <1>2 DEF Below
<1> QED
  BY <1>3 DEF Start
-----------------------------------------------------------------------------
(* The invariant of the merge.                                             *)

\* Thread p has moved past place x of its partition.
Before(p, x) == x[1] < src[p] \/ (x[1] = src[p] /\ x[3] < at[p])

Passed(p, s) == { x \in InSlot(s) : Before(p, x) }

\* The places of slot s that thread p has copied to the tuple array.
Scattered(p, s) ==
  CASE pc[p] = "scatter" -> Passed(p, s)
    [] pc[p] = "exit" -> InSlot(s)
    [] OTHER -> {}

CountPart(p) ==
  pc[p] = "count" =>
    \A s \in SlotsOf(p) :
      /\ directory[s].start = Cardinality(Passed(p, s))
      /\ \A x \in Passed(p, s) : Tag[Collected(x).hash] \subseteq directory[s].filter

RangePart(p) ==
  pc[p] = "ranges" =>
    /\ src[p] = 0 /\ at[p] = 1
    /\ cur[p] = Start(slot[p])
    /\ \A s \in SlotsOf(p) :
         IF s < slot[p]
           THEN directory[s].start = Start(s) /\ write_cursor[s] = Start(s)
           ELSE directory[s].start = Cardinality(InSlot(s))

ScatterPart(p) ==
  pc[p] \in {"scatter", "exit"} =>
    \A s \in SlotsOf(p) :
      /\ directory[s].start = Start(s)
      /\ write_cursor[s] = Start(s) + Cardinality(Scattered(p, s))

FilterPart(p) ==
  pc[p] # "count" =>
    \A s \in SlotsOf(p) : \A x \in InSlot(s) :
      Tag[Collected(x).hash] \subseteq directory[s].filter

\* The range of a slot begins with what has been copied, in some order; the
\* rest of it is untouched.
TuplePart(p) ==
  \A s \in SlotsOf(p) :
    LET next == Start(s) + Cardinality(Scattered(p, s))
    IN  /\ \A i \in Start(s) .. next - 1 : \E x \in Scattered(p, s) : tuples[i] = Collected(x)
        /\ \A x \in Scattered(p, s) : \E i \in Start(s) .. next - 1 : tuples[i] = Collected(x)
        /\ \A i \in next .. Start(s + 1) - 1 : tuples[i] = DefaultTuple

ThreadExact(p) ==
  /\ pc[p] # "thrown"
  /\ CountPart(p)
  /\ RangePart(p)
  /\ ScatterPart(p)
  /\ FilterPart(p)
  /\ TuplePart(p)

MergeExact == stage = "merge" => \A p \in Threads : ThreadExact(p)

TotalExact ==
  /\ stage \in {"merge", "probe"} => total = Cardinality(Places)
  /\ stage = "merge" => \A p \in Threads : prefix[p] = Start(FirstSlot(p))

\* What the probe finds.
TableExact ==
  stage = "probe" =>
    /\ directory[bucket_cnt].start = total
    /\ \A s \in 0 .. bucket_cnt - 1 :
         /\ directory[s].start = Start(s)
         /\ \A x \in InSlot(s) : Tag[Collected(x).hash] \subseteq directory[s].filter
         /\ \A i \in Start(s) .. Start(s + 1) - 1 : \E x \in InSlot(s) : tuples[i] = Collected(x)
         /\ \A x \in InSlot(s) : \E i \in Start(s) .. Start(s + 1) - 1 : tuples[i] = Collected(x)

TableInv ==
  /\ CollectInv
  /\ TallyExact
  /\ TotalExact
  /\ MergeExact
  /\ TableExact
-----------------------------------------------------------------------------
(* Lemmas on the steps of one merge thread.                                *)

LEMMA TableKept ==
  ASSUME UNCHANGED <<job, collectors, bucket_cnt>>
  PROVE  /\ \A x : SlotOf(x)' = SlotOf(x) /\ Collected(x)' = Collected(x)
         /\ \A s : InSlot(s)' = InSlot(s) /\ Start(s)' = Start(s)
         /\ \A p : FirstSlot(p)' = FirstSlot(p) /\ SlotsOf(p)' = SlotsOf(p)
         /\ Places' = Places
<1>1. Places' = Places /\ \A x : Collected(x)' = Collected(x)
  BY PlacesKept
<1>2. \A x : SlotOf(x)' = SlotOf(x)
  BY <1>1 DEF SlotOf, bucket_index_from_hash
<1>3. \A s : InSlot(s)' = InSlot(s) /\ Start(s)' = Start(s)
  BY <1>1, <1>2 DEF InSlot, Start, Below
<1>4. \A p : FirstSlot(p)' = FirstSlot(p) /\ SlotsOf(p)' = SlotsOf(p)
  BY DEF FirstSlot, SlotsOf
<1> QED
  BY <1>1, <1>2, <1>3, <1>4

\* What is copied of a slot fits into its range.
LEMMA ScatteredBound ==
  ASSUME CollectInv, bucket_cnt \in DirectorySizes, NEW p \in Threads, NEW s \in SlotsOf(p)
  PROVE  /\ s \in Int
         /\ Start(s) \in Nat /\ Start(s + 1) \in Nat
         /\ IsFiniteSet(Passed(p, s)) /\ Cardinality(Passed(p, s)) \in Nat
         /\ Scattered(p, s) \subseteq InSlot(s)
         /\ IsFiniteSet(Scattered(p, s)) /\ Cardinality(Scattered(p, s)) \in Nat
         /\ Start(s) + Cardinality(Scattered(p, s)) <= Start(s + 1)
         /\ Start(s + 1) <= Cardinality(Places)
<1>1. s \in Int
  BY SlotsInside, SizesAssumption
<1>2. Passed(p, s) \subseteq InSlot(s) /\ Scattered(p, s) \subseteq InSlot(s)
  BY DEF Passed, Scattered
<1>3. /\ Start(s) \in Nat /\ Start(s + 1) \in Nat
      /\ IsFiniteSet(InSlot(s)) /\ Cardinality(InSlot(s)) \in Nat
      /\ Start(s + 1) = Start(s) + Cardinality(InSlot(s))
      /\ Start(s + 1) <= Cardinality(Places)
  BY <1>1, StartFacts
<1>4. /\ IsFiniteSet(Passed(p, s)) /\ Cardinality(Passed(p, s)) \in Nat
      /\ IsFiniteSet(Scattered(p, s)) /\ Cardinality(Scattered(p, s)) \in Nat
      /\ Cardinality(Scattered(p, s)) <= Cardinality(InSlot(s))
  BY <1>2, <1>3, CardSubset
<1>5. Start(s) + Cardinality(Scattered(p, s)) <= Start(s + 1)
  BY <1>3, <1>4
<1> QED
  BY <1>1, <1>2, <1>3, <1>4, <1>5

\* A thread whose part of the memory nobody touches stays exact.
LEMMA ThreadKept ==
  ASSUME CollectInv, bucket_cnt \in DirectorySizes, UNCHANGED <<job, collectors, bucket_cnt>>,
         NEW q \in Threads, ThreadExact(q),
         pc'[q] = pc[q], slot'[q] = slot[q], cur'[q] = cur[q],
         pc[q] = "ranges" => src'[q] = src[q] /\ at'[q] = at[q],
         \A s \in SlotsOf(q) :
           /\ Passed(q, s)' = Passed(q, s)
           /\ directory'[s] = directory[s]
           /\ write_cursor'[s] = write_cursor[s]
           /\ \A i \in Start(s) .. Start(s + 1) - 1 : tuples'[i] = tuples[i]
  PROVE  ThreadExact(q)'
<1>1. /\ \A x : Collected(x)' = Collected(x)
      /\ \A s : InSlot(s)' = InSlot(s) /\ Start(s)' = Start(s)
      /\ SlotsOf(q)' = SlotsOf(q)
  BY TableKept
<1>2. \A s \in SlotsOf(q) : Scattered(q, s)' = Scattered(q, s)
  BY <1>1 DEF Scattered
<1>3. /\ pc[q] # "thrown" /\ CountPart(q) /\ RangePart(q) /\ ScatterPart(q) /\ FilterPart(q)
      /\ TuplePart(q)
  BY DEF ThreadExact
<1>4. CountPart(q)'
  BY <1>1, <1>3 DEF CountPart
<1>5. RangePart(q)'
  <2> SUFFICES ASSUME pc[q] = "ranges"
               PROVE  /\ src'[q] = 0 /\ at'[q] = 1
                      /\ cur'[q] = Start(slot[q])'
                      /\ \A s \in SlotsOf(q) :
                           IF s < slot'[q]
                             THEN directory'[s].start = Start(s) /\ write_cursor'[s] = Start(s)
                             ELSE directory'[s].start = Cardinality(InSlot(s))
    BY <1>1 DEF RangePart
  <2>1. /\ src[q] = 0 /\ at[q] = 1
        /\ cur[q] = Start(slot[q])
        /\ \A s \in SlotsOf(q) :
             IF s < slot[q]
               THEN directory[s].start = Start(s) /\ write_cursor[s] = Start(s)
               ELSE directory[s].start = Cardinality(InSlot(s))
    BY <1>3 DEF RangePart
  <2>2. Start(slot[q])' = Start(slot[q])
    BY <1>1
  <2> QED
    BY <2>1, <2>2
<1>6. ScatterPart(q)'
  BY <1>1, <1>2, <1>3 DEF ScatterPart
<1>7. FilterPart(q)'
  BY <1>1, <1>3 DEF FilterPart
<1>8. TuplePart(q)'
  <2> SUFFICES ASSUME NEW s \in SlotsOf(q), NEW next \in Nat,
                      next = Start(s) + Cardinality(Scattered(q, s))
               PROVE  /\ \A i \in Start(s) .. next - 1 :
                           \E x \in Scattered(q, s) : tuples'[i] = Collected(x)
                      /\ \A x \in Scattered(q, s) :
                           \E i \in Start(s) .. next - 1 : tuples'[i] = Collected(x)
                      /\ \A i \in next .. Start(s + 1) - 1 : tuples'[i] = DefaultTuple
    <3>1. \A s \in SlotsOf(q) : Start(s) + Cardinality(Scattered(q, s)) \in Nat
      BY ScatteredBound
    <3> QED
      BY <1>1, <1>2, <3>1 DEF TuplePart, DefaultTuple
  <2>1. /\ \A i \in Start(s) .. next - 1 : \E x \in Scattered(q, s) : tuples[i] = Collected(x)
        /\ \A x \in Scattered(q, s) : \E i \in Start(s) .. next - 1 : tuples[i] = Collected(x)
        /\ \A i \in next .. Start(s + 1) - 1 : tuples[i] = DefaultTuple
    BY <1>3 DEF TuplePart
  <2>2. Start(s) \in Nat /\ Start(s + 1) \in Nat /\ Start(s) <= next /\ next <= Start(s + 1)
    BY ScatteredBound
  <2>3. \A i \in Start(s) .. Start(s + 1) - 1 : tuples'[i] = tuples[i]
    OBVIOUS
  <2>4. /\ \A i \in Start(s) .. next - 1 : tuples'[i] = tuples[i]
        /\ \A i \in next .. Start(s + 1) - 1 : tuples'[i] = tuples[i]
    BY <2>2, <2>3
  <2> QED
    BY <2>1, <2>4
<1> QED
  BY <1>3, <1>4, <1>5, <1>6, <1>7, <1>8 DEF ThreadExact

\* The tuple a thread reads next, as a place.
LEMMA NextPlace ==
  ASSUME CollectInv, bucket_cnt \in DirectorySizes, NEW p \in Threads, HasTuple(p),
         NEW x, x = <<src[p], p, at[p]>>
  PROVE  /\ x \in Places /\ x[1] = src[p] /\ x[2] = p /\ x[3] = at[p]
         /\ Collected(x) = NextTuple(p)
         /\ SlotOf(x) = NextSlot(p)
         /\ NextSlot(p) \in SlotsOf(p)
         /\ x \in InSlot(NextSlot(p))
         /\ ~Before(p, x)
<1>1. src[p] \in Threads /\ at[p] \in Nat \ {0}
  BY DEF CollectInv, IInv, Types, MergeTypes
<1>2. Len(collectors[src[p]][p]) \in Nat
  BY <1>1 DEF CollectInv, IInv, Types, SlabTypes
<1>3. at[p] \in Cells(src[p], p)
  BY <1>1, <1>2 DEF HasTuple, Cells
<1>4. x \in Places
  BY <1>1, <1>3, PlaceCells
<1>5. Collected(x) = NextTuple(p)
  BY DEF Collected, NextTuple
<1>6. SlotOf(x) = NextSlot(p)
  BY <1>5 DEF SlotOf, NextSlot
<1>7. NextSlot(p) \in SlotsOf(p)
  BY <1>4, <1>6, SlotOfPlace
<1>8. ~Before(p, x)
  <2>1. src[p] \in Int /\ at[p] \in Int
    BY <1>1, SizesAssumption DEF Threads
  <2> QED
    BY <2>1 DEF Before
<1> QED
  BY <1>4, <1>5, <1>6, <1>7, <1>8 DEF InSlot

LEMMA PassedAdvance ==
  ASSUME CollectInv, bucket_cnt \in DirectorySizes, NEW p \in Threads, HasTuple(p),
         NEW x, x = <<src[p], p, at[p]>>,
         UNCHANGED <<job, collectors, bucket_cnt, src>>, at' = [at EXCEPT ![p] = at[p] + 1],
         NEW s \in SlotsOf(p)
  PROVE  Passed(p, s)' = IF s = NextSlot(p) THEN Passed(p, s) \cup {x} ELSE Passed(p, s)
<1>1. InSlot(s)' = InSlot(s)
  BY TableKept
<1>2. /\ x \in Places /\ x[1] = src[p] /\ x[3] = at[p]
      /\ SlotOf(x) = NextSlot(p)
  BY NextPlace
<1>3. src[p] \in Int /\ at[p] \in Int /\ at'[p] = at[p] + 1 /\ src'[p] = src[p]
  BY SizesAssumption DEF CollectInv, IInv, Types, MergeTypes, Threads
<1>4. ASSUME NEW y \in InSlot(s) PROVE Before(p, y)' <=> Before(p, y) \/ y = x
  <2>1. y \in Places /\ y[2] = p
    BY PlacesOfSlot
  <2>2. y = <<y[1], p, y[3]>> /\ y[1] \in Int /\ y[3] \in Int
    BY <2>1, PlaceFacts, SizesAssumption DEF Threads
  <2>3. Before(p, y)' <=> y[1] < src[p] \/ (y[1] = src[p] /\ y[3] < at[p] + 1)
    BY <1>3 DEF Before
  <2>4. y[3] < at[p] + 1 <=> y[3] < at[p] \/ y[3] = at[p]
    BY <1>3, <2>2
  <2>5. y = x <=> y[1] = src[p] /\ y[3] = at[p]
    BY <1>2, <2>2
  <2> QED
    BY <2>3, <2>4, <2>5 DEF Before
<1>5. x \in InSlot(s) <=> s = NextSlot(p)
  BY <1>2 DEF InSlot
<1>6. Passed(p, s)' = { y \in InSlot(s) : Before(p, y)' }
  BY <1>1 DEF Passed
<1>7. Passed(p, s)' = { y \in InSlot(s) : Before(p, y) \/ y = x }
  BY <1>4, <1>6
<1> QED
  BY <1>5, <1>7 DEF Passed

\* Going on to the next collector passes no tuple.
LEMMA PassedNext ==
  ASSUME CollectInv, bucket_cnt \in DirectorySizes, NEW p \in Threads, ~HasTuple(p),
         UNCHANGED <<job, collectors, bucket_cnt>>,
         src' = [src EXCEPT ![p] = src[p] + 1], at' = [at EXCEPT ![p] = 1],
         NEW s \in SlotsOf(p)
  PROVE  Passed(p, s)' = Passed(p, s)
<1>1. InSlot(s)' = InSlot(s)
  BY TableKept
<1>2. /\ src[p] \in Int /\ at[p] \in Int /\ at'[p] = 1 /\ src'[p] = src[p] + 1
      /\ src[p] \in Threads
  BY SizesAssumption DEF CollectInv, IInv, Types, MergeTypes, Threads
<1>3. Len(collectors[src[p]][p]) \in Nat /\ Len(collectors[src[p]][p]) < at[p]
  BY <1>2 DEF HasTuple, CollectInv, IInv, Types, SlabTypes
<1>4. ASSUME NEW y \in InSlot(s) PROVE Before(p, y)' <=> Before(p, y)
  <2>1. y \in Places /\ y[2] = p
    BY PlacesOfSlot
  <2>5. y[1] \in Threads /\ y[3] \in Nat \ {0} /\ y[3] <= Len(collectors[y[1]][p])
    BY <2>1, PlaceFacts
  <2>2. /\ y[1] \in Int /\ y[3] \in Nat \ {0} /\ y[3] <= Len(collectors[y[1]][p])
    BY <2>5, SizesAssumption DEF Threads
  <2>3. Before(p, y)' <=> y[1] < src[p] + 1 \/ (y[1] = src[p] + 1 /\ y[3] < 1)
    BY <1>2 DEF Before
  <2>4. y[1] = src[p] => y[3] < at[p]
    BY <1>2, <1>3, <2>2
  <2> QED
    BY <1>2, <2>2, <2>3, <2>4 DEF Before
<1> QED
  BY <1>1, <1>4 DEF Passed

\* At the end of the last collector all tuples have been passed.
LEMMA PassedAll ==
  ASSUME CollectInv, bucket_cnt \in DirectorySizes, NEW p \in Threads, ~HasTuple(p),
         src[p] + 1 = NumPartitions, NEW s \in SlotsOf(p)
  PROVE  Passed(p, s) = InSlot(s)
<1>2. src[p] \in Int /\ at[p] \in Int /\ src[p] \in Threads
  BY SizesAssumption DEF CollectInv, IInv, Types, MergeTypes, Threads
<1>3. Len(collectors[src[p]][p]) \in Nat /\ Len(collectors[src[p]][p]) < at[p]
  BY <1>2 DEF HasTuple, CollectInv, IInv, Types, SlabTypes
<1>4. ASSUME NEW y \in InSlot(s) PROVE Before(p, y)
  <2>1. y \in Places /\ y[2] = p
    BY PlacesOfSlot
  <2>5. y[1] \in Threads /\ y[3] \in Nat \ {0} /\ y[3] <= Len(collectors[y[1]][p])
    BY <2>1, PlaceFacts
  <2>2. /\ y[1] \in Int /\ y[1] < NumPartitions
        /\ y[3] \in Nat \ {0} /\ y[3] <= Len(collectors[y[1]][p])
    BY <2>5, SizesAssumption DEF Threads
  <2>3. y[1] = src[p] => y[3] < at[p]
    BY <1>2, <1>3, <2>2
  <2>4. y[1] <= src[p]
    BY <1>2, <2>2, SizesAssumption
  <2> QED
    BY <1>2, <2>2, <2>3, <2>4 DEF Before
<1> QED
  BY <1>4 DEF Passed

\* At the first tuple of the first collector none has.
LEMMA PassedNone ==
  ASSUME CollectInv, UNCHANGED <<job, collectors>>, NEW p \in Threads, NEW s,
         src'[p] = 0, at'[p] = 1
  PROVE  Passed(p, s)' = {}
<1>1. Places' = Places
  BY PlacesKept
<1>2. ASSUME NEW y \in Places PROVE ~Before(p, y)'
  <2>1. y[1] \in Nat /\ y[3] \in Nat \ {0}
    BY PlaceFacts, SizesAssumption DEF Threads
  <2>2. Before(p, y)' <=> y[1] < 0 \/ (y[1] = 0 /\ y[3] < 1)
    BY DEF Before
  <2> QED
    BY <2>1, <2>2
<1> QED
  BY <1>1, <1>2 DEF Passed, InSlot
-----------------------------------------------------------------------------
(* Every merge step keeps every thread's part exact.                       *)

\* The ranges of two slots have no index in common.
LEMMA RangesApart ==
  ASSUME CollectInv, bucket_cnt \in DirectorySizes, NEW s \in Int, NEW r \in Int, s # r,
         NEW i \in Start(s) .. Start(s + 1) - 1
  PROVE  i \notin Start(r) .. Start(r + 1) - 1
<1>1. /\ Start(s) \in Nat /\ Start(s + 1) \in Nat /\ Start(r) \in Nat /\ Start(r + 1) \in Nat
  BY StartFacts
<1>2. CASE s < r
  <2>1. s + 1 \in Int /\ s + 1 <= r
    BY <1>2
  <2>2. Start(s + 1) <= Start(r)
    BY <2>1, StartFacts
  <2> QED
    BY <1>1, <2>2
<1>3. CASE r < s
  <2>1. r + 1 \in Int /\ r + 1 <= s
    BY <1>3
  <2>2. Start(r + 1) <= Start(s)
    BY <2>1, StartFacts
  <2> QED
    BY <1>1, <2>2
<1> QED
  BY <1>2, <1>3

\* A step of thread p that stays inside its slots and its ranges.
LEMMA OthersKept ==
  ASSUME CollectInv, bucket_cnt \in DirectorySizes, UNCHANGED <<job, collectors, bucket_cnt>>,
         NEW p \in Threads,
         \A q \in Threads \ {p} :
           /\ ThreadExact(q)
           /\ pc'[q] = pc[q] /\ slot'[q] = slot[q] /\ cur'[q] = cur[q]
           /\ src'[q] = src[q] /\ at'[q] = at[q],
         \A s \in 0 .. bucket_cnt - 1 : s \notin SlotsOf(p) =>
           /\ directory'[s] = directory[s]
           /\ write_cursor'[s] = write_cursor[s]
           /\ \A i \in Start(s) .. Start(s + 1) - 1 : tuples'[i] = tuples[i]
  PROVE  \A q \in Threads \ {p} : ThreadExact(q)'
<1> SUFFICES ASSUME NEW q \in Threads \ {p} PROVE ThreadExact(q)'
  OBVIOUS
<1>1. \A s \in SlotsOf(q) : s \in 0 .. bucket_cnt - 1 /\ s \notin SlotsOf(p)
  BY SlotsInside, OneOwner
<1>2. \A s \in SlotsOf(q) : Passed(q, s)' = Passed(q, s)
  <2>1. \A s : InSlot(s)' = InSlot(s)
    BY TableKept
  <2>2. \A x : Before(q, x)' <=> Before(q, x)
    BY DEF Before
  <2> QED
    BY <2>1, <2>2 DEF Passed
<1> QED
  BY <1>1, <1>2, ThreadKept

LEMMA CountExact ==
  ASSUME CollectInv, bucket_cnt \in DirectorySizes, \A q \in Threads : ThreadExact(q),
         NEW p \in Threads, CountTuple(p)
  PROVE  \A q \in Threads : ThreadExact(q)'
<1> DEFINE r == NextSlot(p)
           h == NextTuple(p).hash
           y == <<src[p], p, at[p]>>
<1>1. /\ stage = "merge" /\ pc[p] = "count" /\ HasTuple(p)
      /\ UNCHANGED <<job, collectors, bucket_cnt, pc, tuples, write_cursor, src, slot, cur>>
      /\ at' = [at EXCEPT ![p] = at[p] + 1]
      /\ directory' = [directory EXCEPT ![r] = [start  |-> directory[r].start + 1,
                                                filter |-> directory[r].filter \cup Tag[h]]]
  BY DEF CountTuple, jobVars, slabVars
<1>2. /\ y \in Places /\ Collected(y) = NextTuple(p)
      /\ r \in SlotsOf(p) /\ y \in InSlot(r) /\ ~Before(p, y)
  BY <1>1, NextPlace
<1>3. \A s \in SlotsOf(p) : Passed(p, s)' = IF s = r THEN Passed(p, s) \cup {y} ELSE Passed(p, s)
  BY <1>1, PassedAdvance
<1>4. Collected(y).hash = h
  BY <1>2
<1>5. y \notin Passed(p, r)
  BY <1>2 DEF Passed
<1> HIDE DEF r, h, y
<1>6. /\ \A x : Collected(x)' = Collected(x)
      /\ \A s : InSlot(s)' = InSlot(s) /\ Start(s)' = Start(s)
      /\ SlotsOf(p)' = SlotsOf(p)
  BY <1>1, TableKept
<1>7. directory \in [0 .. bucket_cnt -> [start : Nat, filter : SUBSET FilterBits]]
  BY <1>1 DEF CollectInv, IInv, Types, MapTypes
<1>8. at \in [Threads -> Nat \ {0}]
  BY DEF CollectInv, IInv, Types, MergeTypes
<1>9. bucket_cnt \in Nat /\ \A s \in SlotsOf(p) : s \in 0 .. bucket_cnt - 1 /\ s \in 0 .. bucket_cnt
  BY SlotsInside, SizesAssumption
<1>10. /\ directory'[r].start = directory[r].start + 1
       /\ directory'[r].filter = directory[r].filter \cup Tag[h]
       /\ \A s \in 0 .. bucket_cnt : s # r => directory'[s] = directory[s]
  BY <1>1, <1>2, <1>7, <1>9
<1>11. \A q \in Threads \ {p} : ThreadExact(q)'
  <2>1. \A q \in Threads \ {p} : at'[q] = at[q]
    BY <1>1, <1>8
  <2>2. \A s \in 0 .. bucket_cnt - 1 : s \notin SlotsOf(p) => directory'[s] = directory[s]
    BY <1>2, <1>9, <1>10
  <2> QED
    BY <1>1, <2>1, <2>2, OthersKept
<1>12. ThreadExact(p)'
  <2>1. CountPart(p)'
    <3> SUFFICES ASSUME NEW s \in SlotsOf(p)
                 PROVE  /\ directory'[s].start = Cardinality(Passed(p, s)')
                        /\ \A x \in Passed(p, s)' :
                             Tag[Collected(x).hash] \subseteq directory'[s].filter
      BY <1>6 DEF CountPart
    <3>1. /\ directory[s].start = Cardinality(Passed(p, s))
          /\ \A x \in Passed(p, s) : Tag[Collected(x).hash] \subseteq directory[s].filter
      BY <1>1 DEF ThreadExact, CountPart
    <3>2. CASE s = r
      <4>1. Passed(p, s)' = Passed(p, s) \cup {y}
        BY <1>3, <3>2
      <4>2. Cardinality(Passed(p, s) \cup {y}) = Cardinality(Passed(p, s)) + 1
        BY <1>5, <3>2, ScatteredBound, FS_AddElement
      <4> QED
        BY <1>4, <1>10, <3>1, <3>2, <4>1, <4>2
    <3>3. CASE s # r
      BY <1>3, <1>9, <1>10, <3>1, <3>3
    <3> QED
      BY <3>2, <3>3
  <2>2. pc'[p] = "count"
    BY <1>1
  <2>3. RangePart(p)' /\ ScatterPart(p)' /\ FilterPart(p)'
    BY <2>2 DEF RangePart, ScatterPart, FilterPart
  <2>4. TuplePart(p)'
    <3>1. \A s : Scattered(p, s) = {} /\ Scattered(p, s)' = {}
      BY <1>1, <2>2 DEF Scattered
    <3>2. TuplePart(p)
      BY DEF ThreadExact
    <3> QED
      BY <1>1, <1>6, <3>1, <3>2 DEF TuplePart, DefaultTuple
  <2> QED
    BY <2>1, <2>2, <2>3, <2>4 DEF ThreadExact
<1> QED
  BY <1>11, <1>12

LEMMA NextCollectorExact ==
  ASSUME CollectInv, bucket_cnt \in DirectorySizes, \A q \in Threads : ThreadExact(q),
         NEW p \in Threads, NextCollector(p)
  PROVE  \A q \in Threads : ThreadExact(q)'
<1>1. /\ pc[p] \in {"count", "scatter"} /\ ~HasTuple(p)
      /\ UNCHANGED <<job, collectors, bucket_cnt, directory, write_cursor, tuples, pc, slot, cur>>
      /\ src' = [src EXCEPT ![p] = src[p] + 1] /\ at' = [at EXCEPT ![p] = 1]
  BY DEF NextCollector, jobVars, slabVars, mapVars
<1>2. \A q \in Threads \ {p} : src'[q] = src[q] /\ at'[q] = at[q]
  BY <1>1 DEF CollectInv, IInv, Types, MergeTypes
<1>3. \A q \in Threads \ {p} : ThreadExact(q)'
  BY <1>1, <1>2, OthersKept
<1>4. \A s \in SlotsOf(p) : Passed(p, s)' = Passed(p, s)
  BY <1>1, PassedNext
<1>5. ThreadExact(p)'
  BY <1>1, <1>4, ThreadKept
<1> QED
  BY <1>3, <1>5

LEMMA EndOfCountExact ==
  ASSUME CollectInv, bucket_cnt \in DirectorySizes, \A q \in Threads : ThreadExact(q),
         NEW p \in Threads, EndOfCount(p), prefix[p] = Start(FirstSlot(p))
  PROVE  \A q \in Threads : ThreadExact(q)'
<1>1. /\ pc[p] = "count" /\ ~HasTuple(p) /\ src[p] + 1 = NumPartitions
      /\ UNCHANGED <<job, collectors, bucket_cnt, directory, write_cursor, tuples>>
      /\ src' = [src EXCEPT ![p] = 0] /\ at' = [at EXCEPT ![p] = 1]
      /\ slot' = [slot EXCEPT ![p] = FirstSlot(p)]
      /\ cur' = [cur EXCEPT ![p] = prefix[p]]
      /\ pc' = [pc EXCEPT ![p] = RangesOrScatter(p, FirstSlot(p))]
  BY DEF EndOfCount, LastCollectorDone, jobVars, slabVars, mapVars
<1>2. /\ pc \in [Threads -> Steps] /\ src \in [Threads -> Threads] /\ at \in [Threads -> Nat \ {0}]
      /\ slot \in [Threads -> 0 .. bucket_cnt] /\ cur \in [Threads -> Nat]
  BY DEF CollectInv, IInv, Types, MorselTypes, MergeTypes
<1>3. \A q \in Threads \ {p} : ThreadExact(q)'
  <2>1. \A q \in Threads \ {p} :
          /\ pc'[q] = pc[q] /\ slot'[q] = slot[q] /\ cur'[q] = cur[q]
          /\ src'[q] = src[q] /\ at'[q] = at[q]
    BY <1>1, <1>2
  <2> QED
    BY <1>1, <2>1, OthersKept
<1>4. /\ src'[p] = 0 /\ at'[p] = 1 /\ slot'[p] = FirstSlot(p) /\ cur'[p] = Start(FirstSlot(p))
      /\ pc'[p] = RangesOrScatter(p, FirstSlot(p))
  BY <1>1, <1>2
<1>5. /\ \A x : Collected(x)' = Collected(x)
      /\ \A s : InSlot(s)' = InSlot(s) /\ Start(s)' = Start(s)
      /\ SlotsOf(p)' = SlotsOf(p)
  BY <1>1, TableKept
<1>6. \A s \in SlotsOf(p) : Passed(p, s) = InSlot(s) /\ Passed(p, s)' = {}
  BY <1>1, <1>4, PassedAll, PassedNone
<1>7. \A s \in SlotsOf(p) :
        /\ directory[s].start = Cardinality(InSlot(s))
        /\ \A x \in InSlot(s) : Tag[Collected(x).hash] \subseteq directory[s].filter
        /\ FirstSlot(p) <= s /\ s < FirstSlot(p + 1) /\ s \in Int
  <2>1. FirstSlot(p) \in Int /\ FirstSlot(p + 1) \in Int
    BY SlotsInside, SizesAssumption
  <2> QED
    BY <1>1, <1>6, <2>1 DEF ThreadExact, CountPart, SlotsOf
<1>8. pc'[p] = "ranges" \/ (pc'[p] = "scatter" /\ SlotsOf(p) = {})
  <2>1. FirstSlot(p) \in Int /\ FirstSlot(p + 1) \in Int
    BY SlotsInside, SizesAssumption
  <2>2. CASE FirstSlot(p) < FirstSlot(p + 1)
    BY <1>4, <2>2 DEF RangesOrScatter
  <2>3. CASE ~(FirstSlot(p) < FirstSlot(p + 1))
    <3>1. SlotsOf(p) = {}
      BY <1>7, <2>1, <2>3
    <3> QED
      BY <1>4, <2>3, <3>1 DEF RangesOrScatter
  <2> QED
    BY <2>2, <2>3
<1>9. /\ pc'[p] # "thrown" /\ CountPart(p)' /\ FilterPart(p)'
  BY <1>1, <1>5, <1>7, <1>8 DEF CountPart, FilterPart
<1>10. ScatterPart(p)'
  BY <1>5, <1>8 DEF ScatterPart
<1>11. RangePart(p)'
  <2>1. FirstSlot(p)' = FirstSlot(p) /\ cur'[p] = Start(slot'[p]) /\ \A s : Start(s)' = Start(s)
    BY <1>1, <1>4, <1>5 DEF FirstSlot
  <2>2. Start(slot[p])' = Start(slot'[p])
    BY <1>5
  <2>3. \A s \in SlotsOf(p) : ~(s < slot'[p])
    <3>1. FirstSlot(p) \in Int
      BY SlotsInside, SizesAssumption
    <3> QED
      BY <1>4, <1>7, <3>1
  <2>4. \A s \in SlotsOf(p) : directory'[s].start = Cardinality(InSlot(s)')
    BY <1>1, <1>5, <1>7
  <2> QED
    BY <1>4, <1>5, <2>1, <2>2, <2>3, <2>4 DEF RangePart
<1>12. TuplePart(p)'
  <2>1. \A s \in SlotsOf(p) : Scattered(p, s) = {} /\ Scattered(p, s)' = {}
    BY <1>1, <1>6, <1>8 DEF Scattered
  <2>2. TuplePart(p)
    BY DEF ThreadExact
  <2> QED
    BY <1>1, <1>5, <2>1, <2>2 DEF TuplePart, DefaultTuple
<1>13. ThreadExact(p)'
  BY <1>9, <1>10, <1>11, <1>12 DEF ThreadExact
<1> QED
  BY <1>3, <1>13

LEMMA SetRangeExact ==
  ASSUME CollectInv, bucket_cnt \in DirectorySizes, \A q \in Threads : ThreadExact(q),
         NEW p \in Threads, SetRange(p)
  PROVE  \A q \in Threads : ThreadExact(q)'
<1> DEFINE r == slot[p]
<1>1. /\ stage = "merge" /\ pc[p] = "ranges"
      /\ UNCHANGED <<job, collectors, bucket_cnt, tuples, src, at>>
      /\ directory' = [directory EXCEPT ![r].start = cur[p]]
      /\ write_cursor' = [write_cursor EXCEPT ![r] = cur[p]]
      /\ cur' = [cur EXCEPT ![p] = cur[p] + directory[r].start]
      /\ slot' = [slot EXCEPT ![p] = r + 1]
      /\ pc' = [pc EXCEPT ![p] = RangesOrScatter(p, r + 1)]
  BY DEF SetRange, jobVars, slabVars
<1>2. /\ pc \in [Threads -> Steps] /\ slot \in [Threads -> 0 .. bucket_cnt]
      /\ cur \in [Threads -> Nat]
      /\ directory \in [0 .. bucket_cnt -> [start : Nat, filter : SUBSET FilterBits]]
      /\ write_cursor \in [0 .. bucket_cnt - 1 -> Nat]
  BY <1>1 DEF CollectInv, IInv, Types, MorselTypes, MergeTypes, MapTypes
<1>3. FirstSlot(p) <= r /\ r < FirstSlot(p + 1)
  BY <1>1 DEF CollectInv, IInv, RangesInside
<1>4. /\ bucket_cnt \in Nat /\ FirstSlot(p) \in Int /\ FirstSlot(p + 1) \in Int
      /\ \A s \in SlotsOf(p) : s \in 0 .. bucket_cnt - 1 /\ s \in 0 .. bucket_cnt
                               /\ FirstSlot(p) <= s /\ s < FirstSlot(p + 1)
  BY SlotsInside, SizesAssumption DEF SlotsOf
<1>5. r \in SlotsOf(p) /\ r \in Int
  BY <1>2, <1>3, <1>4 DEF SlotsOf
<1>6. /\ src[p] = 0 /\ at[p] = 1 /\ cur[p] = Start(r)
      /\ \A s \in SlotsOf(p) :
           IF s < r THEN directory[s].start = Start(s) /\ write_cursor[s] = Start(s)
                    ELSE directory[s].start = Cardinality(InSlot(s))
  BY <1>1 DEF ThreadExact, RangePart
<1>7. cur[p] + directory[r].start = Start(r + 1)
  <2>1. directory[r].start = Cardinality(InSlot(r))
    BY <1>5, <1>6
  <2>2. Start(r + 1) = Start(r) + Cardinality(InSlot(r))
    BY <1>5, StartFacts
  <2> QED
    BY <1>6, <2>1, <2>2
<1> HIDE DEF r
<1>8. /\ directory'[r].start = Start(r) /\ directory'[r].filter = directory[r].filter
      /\ write_cursor'[r] = Start(r)
      /\ \A s \in 0 .. bucket_cnt : s # r => directory'[s] = directory[s]
      /\ \A s \in 0 .. bucket_cnt - 1 : s # r => write_cursor'[s] = write_cursor[s]
  BY <1>1, <1>2, <1>4, <1>5, <1>6
<1>9. /\ slot'[p] = r + 1 /\ cur'[p] = Start(r + 1) /\ pc'[p] = RangesOrScatter(p, r + 1)
      /\ src'[p] = 0 /\ at'[p] = 1
  BY <1>1, <1>2, <1>6, <1>7
<1>10. /\ \A x : Collected(x)' = Collected(x)
       /\ \A s : InSlot(s)' = InSlot(s) /\ Start(s)' = Start(s)
       /\ SlotsOf(p)' = SlotsOf(p)
  BY <1>1, TableKept
<1>11. \A q \in Threads \ {p} : ThreadExact(q)'
  <2>1. \A q \in Threads \ {p} : pc'[q] = pc[q] /\ slot'[q] = slot[q] /\ cur'[q] = cur[q]
    BY <1>1, <1>2
  <2>2. \A s \in 0 .. bucket_cnt - 1 : s \notin SlotsOf(p) =>
          directory'[s] = directory[s] /\ write_cursor'[s] = write_cursor[s]
    BY <1>4, <1>5, <1>8
  <2> QED
    BY <1>1, <2>1, <2>2, OthersKept
<1>12. \A s \in SlotsOf(p) :
         IF s < r + 1 THEN directory'[s].start = Start(s) /\ write_cursor'[s] = Start(s)
                      ELSE directory'[s].start = Cardinality(InSlot(s))
  <2> SUFFICES ASSUME NEW s \in SlotsOf(p)
               PROVE  IF s < r + 1
                        THEN directory'[s].start = Start(s) /\ write_cursor'[s] = Start(s)
                        ELSE directory'[s].start = Cardinality(InSlot(s))
    OBVIOUS
  <2>1. CASE s = r
    BY <1>5, <1>8, <2>1
  <2>2. CASE s # r
    <3>1. s < r + 1 <=> s < r
      BY <1>4, <1>5, <2>2
    <3>2. directory'[s] = directory[s] /\ write_cursor'[s] = write_cursor[s]
      BY <1>4, <1>8, <2>2
    <3> QED
      BY <1>6, <3>1, <3>2
  <2> QED
    BY <2>1, <2>2
<1>13. /\ pc'[p] = "ranges" \/ (pc'[p] = "scatter" /\ \A s \in SlotsOf(p) : s < r + 1)
       /\ pc'[p] \in {"ranges", "scatter"}
  BY <1>4, <1>5, <1>9 DEF RangesOrScatter
<1>14. \A s : Passed(p, s)' = {} /\ Scattered(p, s)' = {} /\ Scattered(p, s) = {}
  BY <1>1, <1>9, <1>13, PassedNone DEF Scattered
<1>15. CountPart(p)'
  BY <1>13 DEF CountPart
<1>16. RangePart(p)'
  <2>1. Start(slot[p])' = Start(slot'[p])
    BY <1>10
  <2>2. cur'[p] = Start(slot'[p])
    BY <1>9
  <2>3. \A s \in SlotsOf(p) :
          IF s < slot'[p] THEN directory'[s].start = Start(s) /\ write_cursor'[s] = Start(s)
                          ELSE directory'[s].start = Cardinality(InSlot(s))
    BY <1>9, <1>12
  <2> QED
    BY <1>9, <1>10, <2>1, <2>2, <2>3 DEF RangePart
<1>17. ScatterPart(p)'
  <2> SUFFICES ASSUME pc'[p] = "scatter", NEW s \in SlotsOf(p)
               PROVE  /\ directory'[s].start = Start(s)
                      /\ write_cursor'[s] = Start(s) + Cardinality(Scattered(p, s)')
    BY <1>10, <1>13 DEF ScatterPart
  <2>1. directory'[s].start = Start(s) /\ write_cursor'[s] = Start(s)
    BY <1>12, <1>13
  <2>2. Cardinality(Scattered(p, s)') = 0
    BY <1>14, FS_EmptySet
  <2>3. Start(s) + 0 = Start(s)
    BY StartFacts
  <2> QED
    BY <2>1, <2>2, <2>3
<1>18. FilterPart(p)'
  <2>1. \A s \in SlotsOf(p) : directory'[s].filter = directory[s].filter
    BY <1>4, <1>8
  <2>2. \A s \in SlotsOf(p) : \A x \in InSlot(s) :
          Tag[Collected(x).hash] \subseteq directory[s].filter
    BY <1>1 DEF ThreadExact, FilterPart
  <2> QED
    BY <1>10, <2>1, <2>2 DEF FilterPart
<1>19. TuplePart(p)'
  <2>1. TuplePart(p)
    BY DEF ThreadExact
  <2> QED
    BY <1>1, <1>10, <1>14, <2>1 DEF TuplePart, DefaultTuple
<1>20. ThreadExact(p)'
  BY <1>13, <1>15, <1>16, <1>17, <1>18, <1>19 DEF ThreadExact
<1> QED
  BY <1>11, <1>20

\* Where the next insertion goes: inside the range of its slot, right after
\* what is there, onto an index that nobody has written.
LEMMA ScatterPosition ==
  ASSUME CollectInv, bucket_cnt \in DirectorySizes, total = Cardinality(Places),
         NEW p \in Threads, ThreadExact(p), pc[p] = "scatter", HasTuple(p)
  PROVE  LET r   == NextSlot(p)
             pos == write_cursor[r]
         IN  /\ r \in SlotsOf(p) /\ r \in Int
             /\ pos = Start(r) + Cardinality(Passed(p, r))
             /\ pos \in Start(r) .. Start(r + 1) - 1
             /\ pos \in 0 .. total - 1
             /\ tuples[pos] = DefaultTuple
<1> DEFINE r == NextSlot(p)
           y == <<src[p], p, at[p]>>
           pos == write_cursor[r]
           n == Cardinality(Passed(p, r))
<1>1. r \in SlotsOf(p) /\ y \in InSlot(r) /\ y \notin Passed(p, r)
  BY NextPlace DEF Passed
<1> HIDE DEF r, y
<1>2. /\ r \in Int /\ Start(r) \in Nat /\ Start(r + 1) \in Nat
      /\ IsFiniteSet(Passed(p, r)) /\ n \in Nat
      /\ Start(r + 1) <= total
  BY <1>1, ScatteredBound
<1>3. /\ IsFiniteSet(InSlot(r)) /\ Cardinality(InSlot(r)) \in Nat
      /\ Start(r + 1) = Start(r) + Cardinality(InSlot(r))
  BY <1>2, StartFacts
<1>4. Cardinality(Passed(p, r) \cup {y}) = n + 1
  BY <1>1, <1>2, FS_AddElement
<1>5. Passed(p, r) \cup {y} \subseteq InSlot(r)
  BY <1>1 DEF Passed
<1>6. n + 1 <= Cardinality(InSlot(r))
  BY <1>3, <1>4, <1>5, CardSubset
<1>7. Scattered(p, r) = Passed(p, r)
  BY DEF Scattered
<1>8. pos = Start(r) + n
  BY <1>1, <1>7 DEF ThreadExact, ScatterPart
<1>9. \A i \in Start(r) + n .. Start(r + 1) - 1 : tuples[i] = DefaultTuple
  BY <1>1, <1>7 DEF ThreadExact, TuplePart
<1> HIDE DEF n, pos
<1>10. pos \in Start(r) .. Start(r + 1) - 1 /\ pos \in Start(r) + n .. Start(r + 1) - 1
  BY <1>2, <1>3, <1>6, <1>8
<1>11. pos \in 0 .. total - 1
  <2>1. total \in Nat
    BY PlacesFinite
  <2> QED
    BY <1>2, <1>10, <2>1
<1> QED
  BY <1>1, <1>2, <1>8, <1>9, <1>10, <1>11 DEF r, pos, n

LEMMA ScatterExact ==
  ASSUME CollectInv, bucket_cnt \in DirectorySizes, \A q \in Threads : ThreadExact(q),
         total = Cardinality(Places), NEW p \in Threads, ScatterTuple(p)
  PROVE  \A q \in Threads : ThreadExact(q)'
<1> SUFFICES ASSUME NEW r, r = NextSlot(p), NEW pos, pos = write_cursor[r],
                    NEW y, y = <<src[p], p, at[p]>>, NEW n, n = Cardinality(Passed(p, r))
             PROVE  \A q \in Threads : ThreadExact(q)'
  OBVIOUS
<1>1. /\ stage = "merge" /\ pc[p] = "scatter" /\ HasTuple(p)
      /\ UNCHANGED <<job, collectors, bucket_cnt, directory, src, slot, cur>>
      /\ write_cursor' = [write_cursor EXCEPT ![r] = pos + 1]
  BY DEF ScatterTuple, jobVars, slabVars
<1>2. /\ r \in SlotsOf(p) /\ r \in Int
      /\ pos = Start(r) + n
      /\ pos \in Start(r) .. Start(r + 1) - 1
      /\ pos \in 0 .. total - 1
  BY <1>1, ScatterPosition
<1>3. total \in Nat /\ pos < total
  BY <1>2, PlacesFinite
<1>4. /\ tuples' = [tuples EXCEPT ![pos] = NextTuple(p)]
      /\ at' = [at EXCEPT ![p] = at[p] + 1]
      /\ pc' = pc
  BY <1>3 DEF ScatterTuple
<1>5. /\ y \in Places /\ Collected(y) = NextTuple(p)
      /\ y \in InSlot(r) /\ ~Before(p, y)
  BY <1>1, NextPlace
<1>6. \A s \in SlotsOf(p) : Passed(p, s)' = IF s = r THEN Passed(p, s) \cup {y} ELSE Passed(p, s)
  BY <1>1, <1>4, PassedAdvance
<1>7. y \notin Passed(p, r)
  BY <1>5 DEF Passed
<1>8. /\ tuples \in [0 .. total - 1 -> Tuples \cup {DefaultTuple}]
      /\ write_cursor \in [0 .. bucket_cnt - 1 -> Nat]
      /\ at \in [Threads -> Nat \ {0}]
  BY <1>1 DEF CollectInv, IInv, Types, MapTypes, MergeTypes
<1>9. /\ bucket_cnt \in Nat
      /\ \A s \in SlotsOf(p) : s \in 0 .. bucket_cnt - 1 /\ s \in Int
  BY SlotsInside, SizesAssumption
<1>10. /\ Start(r) \in Nat /\ Start(r + 1) \in Nat /\ n \in Nat /\ IsFiniteSet(Passed(p, r))
  BY <1>2, ScatteredBound
<1>11. /\ \A x : Collected(x)' = Collected(x)
       /\ \A s : InSlot(s)' = InSlot(s) /\ Start(s)' = Start(s)
       /\ SlotsOf(p)' = SlotsOf(p)
  BY <1>1, TableKept
<1>12. Cardinality(Passed(p, r)') = n + 1
  <2>1. Passed(p, r)' = Passed(p, r) \cup {y}
    BY <1>2, <1>6
  <2>2. Cardinality(Passed(p, r) \cup {y}) = Cardinality(Passed(p, r)) + 1
    BY <1>7, <1>10, FS_AddElement
  <2>3. n = Cardinality(Passed(p, r))
    BY <1>2
  <2> QED BY <2>1, <2>2, <2>3
<1>13. /\ write_cursor'[r] = pos + 1
       /\ \A s \in 0 .. bucket_cnt - 1 : s # r => write_cursor'[s] = write_cursor[s]
       /\ tuples'[pos] = Collected(y)
       /\ \A i \in 0 .. total - 1 : i # pos => tuples'[i] = tuples[i]
  BY <1>1, <1>2, <1>4, <1>5, <1>8, <1>9
<1>14. ASSUME NEW s \in 0 .. bucket_cnt - 1, s # r, NEW i \in Start(s) .. Start(s + 1) - 1
       PROVE  tuples'[i] = tuples[i]
  <2>1. s \in Int /\ s + 1 \in Int
    BY <1>9
  <2>2. i # pos
    BY <1>2, <1>14, <2>1, RangesApart
  <2>3. Start(s) \in Nat /\ Start(s + 1) \in Nat /\ Start(s + 1) <= total
    BY <2>1, StartFacts
  <2>4. i \in 0 .. total - 1
    BY <1>3, <2>3
  <2> QED
    BY <1>13, <2>2, <2>4
<1>15. \A q \in Threads \ {p} : ThreadExact(q)'
  <2>1. \A q \in Threads \ {p} : at'[q] = at[q]
    BY <1>4, <1>8
  <2>2. \A s \in 0 .. bucket_cnt - 1 : s \notin SlotsOf(p) =>
          /\ write_cursor'[s] = write_cursor[s]
          /\ \A i \in Start(s) .. Start(s + 1) - 1 : tuples'[i] = tuples[i]
    BY <1>2, <1>13, <1>14
  <2> QED
    BY <1>1, <1>4, <2>1, <2>2, OthersKept
<1>16. pc'[p] = "scatter"
  BY <1>1, <1>4
<1>17. /\ pc'[p] # "thrown" /\ CountPart(p)' /\ RangePart(p)'
  BY <1>16 DEF CountPart, RangePart
<1>18. FilterPart(p)'
  <2>1. FilterPart(p)
    BY DEF ThreadExact
  <2> QED
    BY <1>1, <1>4, <1>11, <2>1 DEF FilterPart
<1>19. \A s \in SlotsOf(p) : Scattered(p, s) = Passed(p, s) /\ Scattered(p, s)' = Passed(p, s)'
  BY <1>1, <1>16 DEF Scattered
<1>20. ScatterPart(p)'
  <2> SUFFICES ASSUME NEW s \in SlotsOf(p)
               PROVE  /\ directory'[s].start = Start(s)
                      /\ write_cursor'[s] = Start(s) + Cardinality(Passed(p, s)')
    BY <1>11, <1>16, <1>19 DEF ScatterPart
  <2>1. /\ directory[s].start = Start(s)
        /\ write_cursor[s] = Start(s) + Cardinality(Passed(p, s))
    BY <1>1, <1>19 DEF ThreadExact, ScatterPart
  <2>2. CASE s = r
    <3>1. pos + 1 = Start(r) + (n + 1)
      BY <1>2, <1>10
    <3> QED
      BY <1>1, <1>12, <1>13, <2>1, <2>2, <3>1
  <2>3. CASE s # r
    BY <1>1, <1>6, <1>9, <1>13, <2>1, <2>3
  <2> QED
    BY <2>2, <2>3
<1>21. TuplePart(p)'
  <2> SUFFICES ASSUME NEW s \in SlotsOf(p), NEW m \in Nat,
                      m = Start(s) + Cardinality(Passed(p, s)')
               PROVE  /\ \A i \in Start(s) .. m - 1 :
                           \E x \in Passed(p, s)' : tuples'[i] = Collected(x)
                      /\ \A x \in Passed(p, s)' :
                           \E i \in Start(s) .. m - 1 : tuples'[i] = Collected(x)
                      /\ \A i \in m .. Start(s + 1) - 1 : tuples'[i] = DefaultTuple
    <3>1. \A s \in SlotsOf(p) : Start(s) + Cardinality(Passed(p, s)') \in Nat
      <4> SUFFICES ASSUME NEW s \in SlotsOf(p)
                   PROVE  Start(s) + Cardinality(Passed(p, s)') \in Nat
        OBVIOUS
      <4>1. Start(s) \in Nat /\ Cardinality(Passed(p, s)) \in Nat
        BY ScatteredBound
      <4> QED
        BY <1>6, <1>10, <1>12, <4>1
    <3> QED
      BY <1>11, <1>19, <3>1 DEF TuplePart, DefaultTuple
  <2>1. LET k == Start(s) + Cardinality(Passed(p, s))
        IN  /\ \A i \in Start(s) .. k - 1 : \E x \in Passed(p, s) : tuples[i] = Collected(x)
            /\ \A x \in Passed(p, s) : \E i \in Start(s) .. k - 1 : tuples[i] = Collected(x)
            /\ \A i \in k .. Start(s + 1) - 1 : tuples[i] = DefaultTuple
    BY <1>19 DEF ThreadExact, TuplePart
  <2>2. CASE s = r
    <3>1. /\ \A i \in Start(r) .. pos - 1 : \E x \in Passed(p, r) : tuples[i] = Collected(x)
          /\ \A x \in Passed(p, r) : \E i \in Start(r) .. pos - 1 : tuples[i] = Collected(x)
          /\ \A i \in pos .. Start(r + 1) - 1 : tuples[i] = DefaultTuple
      BY <1>2, <2>1, <2>2
    <3>8. Start(r + 1) <= total
      BY <1>2, ScatteredBound
    <3>2. m = pos + 1 /\ pos \in Int /\ Start(r) <= pos /\ pos < Start(r + 1)
          /\ Start(r + 1) <= total
      BY <1>2, <1>10, <1>12, <2>2, <3>8
    <3>3. \A i \in Start(r) .. Start(r + 1) - 1 : i # pos => tuples'[i] = tuples[i]
      BY <1>3, <1>10, <1>13, <3>2
    <3>4. Passed(p, r)' = Passed(p, r) \cup {y}
      BY <1>2, <1>6
    <3>5. ASSUME NEW i \in Start(r) .. m - 1
          PROVE  \E x \in Passed(p, r)' : tuples'[i] = Collected(x)
      <4>1. CASE i = pos
        BY <1>13, <3>4, <4>1
      <4>2. CASE i # pos
        <5>1. i \in Start(r) .. pos - 1 /\ i \in Start(r) .. Start(r + 1) - 1
          BY <1>10, <3>2, <4>2
        <5> QED
          BY <3>1, <3>3, <3>4, <4>2, <5>1
      <4> QED
        BY <4>1, <4>2
    <3>6. ASSUME NEW x \in Passed(p, r)'
          PROVE  \E i \in Start(r) .. m - 1 : tuples'[i] = Collected(x)
      <4>1. CASE x = y
        <5>1. pos \in Start(r) .. m - 1
          BY <1>10, <3>2
        <5> QED
          BY <1>13, <4>1, <5>1
      <4>2. CASE x \in Passed(p, r)
        <5>1. PICK i \in Start(r) .. pos - 1 : tuples[i] = Collected(x)
          BY <3>1, <4>2
        <5>2. i \in Start(r) .. m - 1 /\ i # pos /\ i \in Start(r) .. Start(r + 1) - 1
          BY <1>10, <3>2
        <5> QED
          BY <3>3, <5>1, <5>2
      <4> QED
        BY <3>4, <4>1, <4>2
    <3>7. ASSUME NEW i \in m .. Start(r + 1) - 1 PROVE tuples'[i] = DefaultTuple
      <4>1. i \in pos .. Start(r + 1) - 1 /\ i # pos /\ i \in Start(r) .. Start(r + 1) - 1
        BY <1>10, <3>2
      <4> QED
        BY <3>1, <3>3, <4>1
    <3> QED
      BY <2>2, <3>5, <3>6, <3>7
  <2>3. CASE s # r
    <3>1. /\ Start(s) \in Nat /\ Start(s + 1) \in Nat
          /\ Cardinality(Passed(p, s)) \in Nat
          /\ m <= Start(s + 1) /\ Start(s) <= m
          /\ m = Start(s) + Cardinality(Passed(p, s))
      BY <1>6, <1>19, <2>3, ScatteredBound
    <3>2. \A i \in Start(s) .. Start(s + 1) - 1 : tuples'[i] = tuples[i]
      BY <1>9, <1>14, <2>3
    <3>3. /\ \A i \in Start(s) .. m - 1 : tuples'[i] = tuples[i]
          /\ \A i \in m .. Start(s + 1) - 1 : tuples'[i] = tuples[i]
      BY <3>1, <3>2
    <3>4. Passed(p, s)' = Passed(p, s)
      BY <1>6, <2>3
    <3> QED
      BY <2>1, <3>1, <3>3, <3>4
  <2> QED
    BY <2>2, <2>3
<1>22. ThreadExact(p)'
  BY <1>17, <1>18, <1>20, <1>21 DEF ThreadExact
<1> QED
  BY <1>15, <1>22

LEMMA EndOfScatterExact ==
  ASSUME CollectInv, bucket_cnt \in DirectorySizes, \A q \in Threads : ThreadExact(q),
         NEW p \in Threads, EndOfScatter(p)
  PROVE  \A q \in Threads : ThreadExact(q)'
<1>1. /\ pc[p] = "scatter" /\ ~HasTuple(p) /\ src[p] + 1 = NumPartitions
      /\ UNCHANGED <<job, collectors, bucket_cnt, directory, write_cursor, tuples, slot, cur>>
      /\ src' = [src EXCEPT ![p] = 0] /\ at' = [at EXCEPT ![p] = 1]
      /\ pc' = [pc EXCEPT ![p] = "exit"]
  BY DEF EndOfScatter, LastCollectorDone, jobVars, slabVars, mapVars
<1>2. pc \in [Threads -> Steps] /\ src \in [Threads -> Threads] /\ at \in [Threads -> Nat \ {0}]
  BY DEF CollectInv, IInv, Types, MorselTypes, MergeTypes
<1>3. \A q \in Threads \ {p} : ThreadExact(q)'
  <2>1. \A q \in Threads \ {p} : pc'[q] = pc[q] /\ src'[q] = src[q] /\ at'[q] = at[q]
    BY <1>1, <1>2
  <2> QED
    BY <1>1, <2>1, OthersKept
<1>4. pc'[p] = "exit"
  BY <1>1, <1>2
<1>5. /\ \A x : Collected(x)' = Collected(x)
      /\ \A s : InSlot(s)' = InSlot(s) /\ Start(s)' = Start(s)
      /\ SlotsOf(p)' = SlotsOf(p)
  BY <1>1, TableKept
<1>6. \A s \in SlotsOf(p) : Scattered(p, s) = InSlot(s) /\ Scattered(p, s)' = InSlot(s)
  BY <1>1, <1>4, <1>5, PassedAll DEF Scattered
<1>7. ScatterPart(p) /\ FilterPart(p) /\ TuplePart(p)
  BY DEF ThreadExact
<1>8. ScatterPart(p)'
  BY <1>1, <1>4, <1>5, <1>6, <1>7 DEF ScatterPart
<1>9. FilterPart(p)'
  BY <1>1, <1>5, <1>7 DEF FilterPart
<1>10. TuplePart(p)'
  BY <1>1, <1>5, <1>6, <1>7 DEF TuplePart, DefaultTuple
<1>11. CountPart(p)' /\ RangePart(p)' /\ pc'[p] # "thrown"
  BY <1>4 DEF CountPart, RangePart
<1> QED
  BY <1>3, <1>8, <1>9, <1>10, <1>11 DEF ThreadExact
-----------------------------------------------------------------------------
(* The main thread before and after the merge.                             *)

\* What the fork of the merge needs to know of the state after it.
Layout ==
  /\ \A p \in Threads : Cardinality({ x \in Places : x[2] < p }) = Start(FirstSlot(p))
  /\ \A s : Start(s) \in Nat /\ Start(s) <= Cardinality(Places)
  /\ \A p \in Threads : \A s \in SlotsOf(p) : s \in 0 .. bucket_cnt - 1

Sized == bucket_cnt \in DirectorySizes

LEMMA LayoutHolds == CollectInv /\ Sized => Layout
  BY StartOfPartition, StartFacts, SlotsInside DEF Layout, Sized

LEMMA LayoutNext == CollectInv' /\ Sized' => Layout'
  BY LayoutHolds, PTL

LEMMA ForkExact ==
  ASSUME CollectInv, TallyExact, ForkMerge
  PROVE  TotalExact' /\ MergeExact'
<1>1. /\ stage = "tally" /\ tally[1] = NumPartitions /\ stage' = "merge"
      /\ tuples' = [i \in 0 .. total - 1 |-> DefaultTuple]
      /\ UNCHANGED <<job, collectors, total, prefix>>
  BY DEF ForkMerge, jobVars, slabVars, tallyVars
<1>2. \A p \in Threads : pc'[p] = "count" /\ src'[p] = 0 /\ at'[p] = 1
  BY DEF ForkMerge, Each
<1>3. PICK b \in DirectorySizes : bucket_cnt' = b /\ directory' = [s \in 0 .. b |-> EmptyEntry]
  BY DEF ForkMerge, BucketCounts
<1>4. CollectInv'
  BY CollectMain DEF Main
<1>5. Layout'
  BY <1>3, <1>4, LayoutNext DEF Sized
<1>6. /\ total = Cardinality(Places)
      /\ \A p \in Threads : prefix[p] = Cardinality({ x \in Places : x[2] < p })
  BY <1>1, TallyEnd
<1>7. Places' = Places /\ total \in Nat
  BY <1>1, <1>6, PlacesKept, PlacesFinite
<1>8. TotalExact'
  BY <1>1, <1>5, <1>6, <1>7 DEF TotalExact, Layout
<1>9. \A p \in Threads : \A s : Passed(p, s)' = {}
  BY <1>1, <1>2, PassedNone
<1>10. ASSUME NEW p \in Threads PROVE ThreadExact(p)'
  <2>1. Cardinality({}) = 0
    BY FS_EmptySet
  <2>2. CountPart(p)'
    <3> SUFFICES ASSUME NEW s \in SlotsOf(p)'
                 PROVE  directory'[s].start = Cardinality(Passed(p, s)')
      BY <1>9 DEF CountPart
    <3>1. s \in 0 .. b
      BY <1>3, <1>5, SizesAssumption DEF Layout
    <3> QED
      BY <1>3, <1>9, <2>1, <3>1 DEF EmptyEntry
  <2>3. RangePart(p)' /\ ScatterPart(p)' /\ FilterPart(p)' /\ pc'[p] # "thrown"
    BY <1>2 DEF RangePart, ScatterPart, FilterPart
  <2>4. TuplePart(p)'
    <3>1. \A s : Scattered(p, s)' = {}
      BY <1>2 DEF Scattered
    <3> SUFFICES ASSUME NEW s \in SlotsOf(p)', NEW k, k = Start(s)', NEW l, l = Start(s + 1)'
                 PROVE  /\ \A i \in k .. (k + 0) - 1 : FALSE
                        /\ \A i \in k + 0 .. l - 1 : tuples'[i] = DefaultTuple
      BY <2>1, <3>1 DEF TuplePart, DefaultTuple
    <3>2. k \in Nat /\ l \in Nat /\ l <= total
      BY <1>5, <1>6, <1>7 DEF Layout
    <3>3. \A i \in k + 0 .. l - 1 : i \in 0 .. total - 1
      BY <1>7, <3>2
    <3> QED
      BY <1>1, <3>2, <3>3
  <2> QED
    BY <2>2, <2>3, <2>4 DEF ThreadExact
<1> QED
  BY <1>8, <1>10 DEF MergeExact

LEMMA JoinExact ==
  ASSUME CollectInv, TotalExact, MergeExact, JoinMerge
  PROVE  TotalExact' /\ TableExact'
<1>1. /\ stage = "merge" /\ stage' = "probe"
      /\ \A p \in Threads : pc[p] = "exit" /\ ThreadExact(p)
      /\ UNCHANGED <<job, collectors, bucket_cnt, total, tuples>>
      /\ directory' = [directory EXCEPT ![bucket_cnt] = [start |-> total, filter |-> {}]]
  BY DEF JoinMerge, Exited, MergeExact, SentinelEntry, jobVars, slabVars, tallyVars
<1>2. /\ bucket_cnt \in DirectorySizes /\ bucket_cnt \in Nat \ {0}
      /\ directory \in [0 .. bucket_cnt -> [start : Nat, filter : SUBSET FilterBits]]
  BY <1>1, SizesAssumption DEF CollectInv, IInv, Types, MapTypes
<1>3. /\ \A x : Collected(x)' = Collected(x)
      /\ \A s : InSlot(s)' = InSlot(s) /\ Start(s)' = Start(s)
      /\ Places' = Places
  BY <1>1, TableKept
<1>4. /\ directory'[bucket_cnt].start = total
      /\ \A s \in 0 .. bucket_cnt - 1 : directory'[s] = directory[s]
  BY <1>1, <1>2
<1>5. ASSUME NEW s \in 0 .. bucket_cnt - 1
      PROVE  /\ directory[s].start = Start(s)
             /\ \A x \in InSlot(s) : Tag[Collected(x).hash] \subseteq directory[s].filter
             /\ \A i \in Start(s) .. Start(s + 1) - 1 :
                  \E x \in InSlot(s) : tuples[i] = Collected(x)
             /\ \A x \in InSlot(s) :
                  \E i \in Start(s) .. Start(s + 1) - 1 : tuples[i] = Collected(x)
  <2>1. PICK p \in Threads : s \in SlotsOf(p)
    BY <1>2, HasOwner
  <2>2. Scattered(p, s) = InSlot(s)
    BY <1>1 DEF Scattered
  <2>3. Start(s) + Cardinality(InSlot(s)) = Start(s + 1)
    BY <1>2, StartFacts
  <2>4. ScatterPart(p) /\ FilterPart(p) /\ TuplePart(p) /\ pc[p] = "exit"
    BY <1>1 DEF ThreadExact
  <2>5. /\ directory[s].start = Start(s)
        /\ \A x \in InSlot(s) : Tag[Collected(x).hash] \subseteq directory[s].filter
    BY <2>1, <2>4 DEF ScatterPart, FilterPart
  <2>6. /\ \A i \in Start(s) .. Start(s + 1) - 1 : \E x \in InSlot(s) : tuples[i] = Collected(x)
        /\ \A x \in InSlot(s) : \E i \in Start(s) .. Start(s + 1) - 1 : tuples[i] = Collected(x)
    BY <2>1, <2>2, <2>3, <2>4 DEF TuplePart
  <2> QED
    BY <2>5, <2>6
<1>6. TableExact'
  BY <1>1, <1>3, <1>4, <1>5 DEF TableExact
<1>7. TotalExact'
  BY <1>1, <1>3 DEF TotalExact
<1> QED
  BY <1>6, <1>7

\* Steps after the merge leave the table as it is.
LEMMA TableUntouched ==
  ASSUME TableInv, stage' = stage,
         UNCHANGED <<job, collectors, bucket_cnt, directory, tuples, total>>,
         stage \notin {"tally", "merge"}
  PROVE  TallyExact' /\ TotalExact' /\ MergeExact' /\ TableExact'
<1>1. /\ \A x : Collected(x)' = Collected(x)
      /\ \A s : InSlot(s)' = InSlot(s) /\ Start(s)' = Start(s)
      /\ Places' = Places
  BY TableKept
<1>2. TallyExact' /\ MergeExact' /\ TotalExact'
  BY <1>1 DEF TallyExact, MergeExact, TotalExact, TableInv
<1>3. TableExact'
  BY <1>1 DEF TableExact, TableInv
<1> QED
  BY <1>2, <1>3

LEMMA TableMerge ==
  ASSUME TableInv, NEW p \in Threads, MergeStep(p)
  PROVE  TableInv'
<1>1. /\ stage = "merge" /\ stage' = "merge"
      /\ UNCHANGED <<job, collectors, bucket_cnt, total, prefix>>
  BY DEF MergeStep, CountTuple, NextCollector, EndOfCount, LastCollectorDone, SetRange,
         ScatterTuple, EndOfScatter, jobVars, slabVars, tallyVars, mapVars
<1>2. /\ CollectInv /\ bucket_cnt \in DirectorySizes
      /\ total = Cardinality(Places)
      /\ \A q \in Threads : ThreadExact(q)
      /\ prefix[p] = Start(FirstSlot(p))
  BY <1>1 DEF TableInv, CollectInv, IInv, Types, MapTypes, TotalExact, MergeExact
<1>3. \A q \in Threads : ThreadExact(q)'
  BY <1>2, CountExact, NextCollectorExact, EndOfCountExact, SetRangeExact, ScatterExact,
     EndOfScatterExact DEF MergeStep
<1>4. TotalExact'
  <2>1. /\ \A s : Start(s)' = Start(s)
        /\ \A q : FirstSlot(q)' = FirstSlot(q)
        /\ Places' = Places
    BY <1>1, TableKept
  <2>2. \A q \in Threads : prefix[q] = Start(FirstSlot(q))
    BY <1>1 DEF TableInv, TotalExact
  <2> QED
    BY <1>1, <1>2, <2>1, <2>2 DEF TotalExact
<1>5. CollectInv' /\ TallyExact' /\ TableExact'
  BY <1>1, <1>2, CollectMerge DEF TallyExact, TableExact
<1> QED
  BY <1>1, <1>3, <1>4, <1>5 DEF TableInv, MergeExact

LEMMA TableMain ==
  ASSUME TableInv, Main
  PROVE  TableInv'
<1>0. CollectInv /\ CollectInv' /\ TallyExact /\ TotalExact /\ MergeExact
  BY CollectMain DEF TableInv
<1>1. CASE JoinBuild
  <2>1. stage' = "tally" /\ tally' = <<0, 0>> /\ total' = 0
    BY <1>1 DEF JoinBuild
  <2>2. UNCHANGED <<job, collectors>>
    BY <1>1 DEF JoinBuild, jobVars, slabVars
  <2>3. Tallied(0, 0) = {}
    <3>1. \A x \in Places : x[1] \in Threads /\ x[2] \in Threads
      BY <1>0, PlaceFacts
    <3> QED
      BY <3>1, SizesAssumption DEF Tallied, Threads
  <2>4. /\ \A i, j : Tallied(i, j)' = Tallied(i, j)
        /\ Cardinality(Tallied(0, 0)) = 0
        /\ tally'[1] = 0 /\ tally'[2] = 0 /\ NumPartitions # 0
    BY <2>1, <2>2, <2>3, PlacesKept, FS_EmptySet, SizesAssumption
  <2>5. \A p \in Threads : ~(p < 0 \/ (p = 0 /\ 0 > 0))
    BY SizesAssumption DEF Threads
  <2>6. TallyExact'
    BY <2>1, <2>4, <2>5 DEF TallyExact
  <2> QED
    BY <1>0, <2>1, <2>6 DEF TableInv, TotalExact, MergeExact, TableExact
<1>2. CASE Tally
  <2>1. stage' = "tally"
    BY <1>2 DEF Tally
  <2> QED
    BY <1>0, <1>2, <2>1, TallyStep DEF TableInv, TotalExact, MergeExact, TableExact
<1>3. CASE ForkMerge
  <2>1. stage' = "merge"
    BY <1>3 DEF ForkMerge
  <2> QED
    BY <1>0, <1>3, <2>1, ForkExact DEF TableInv, TallyExact, TableExact
<1>4. CASE JoinMerge
  <2>1. stage' = "probe"
    BY <1>4 DEF JoinMerge
  <2> QED
    BY <1>0, <1>4, <2>1, JoinExact DEF TableInv, TallyExact, MergeExact
<1>5. CASE JoinProbe \/ Gather \/ Return
  <2>1. stage' \in {"gather", "done"}
    BY <1>5 DEF JoinProbe, Gather, Return
  <2> QED
    BY <1>0, <2>1 DEF TableInv, TallyExact, TotalExact, MergeExact, TableExact
<1> QED
  BY <1>1, <1>2, <1>3, <1>4, <1>5 DEF Main

LEMMA TableInit == Init => TableInv
<1> SUFFICES ASSUME Init PROVE TableInv
  OBVIOUS
<1>1. stage = "idle" /\ CollectInv
  BY CollectInit DEF Init
<1> QED
  BY <1>1 DEF TableInv, TallyExact, TotalExact, MergeExact, TableExact

LEMMA TableStep == TableInv /\ [Next]_vars => TableInv'
<1> SUFFICES ASSUME TableInv, [Next]_vars PROVE TableInv'
  OBVIOUS
<1>0. CollectInv'
  BY CollectStep DEF TableInv
<1>1. ASSUME NEW j \in Jobs, Begin(j) PROVE TableInv'
  <2>1. stage' = "build"
    BY <1>1 DEF Begin
  <2> QED
    BY <1>0, <2>1 DEF TableInv, TallyExact, TotalExact, MergeExact, TableExact
<1>2. CASE Main
  BY <1>2, TableMain
<1>3. ASSUME NEW t \in Threads, BuildStep(t) \/ ProbeStep(t) PROVE TableInv'
  <2>1. stage' = stage /\ stage \in {"build", "probe"}
    BY <1>3 DEF BuildStep, ProbeStep, Claim, ConsumeRow, ProbeRow, ProbeTuple
  <2>2. CASE stage = "build"
    BY <1>0, <2>1, <2>2 DEF TableInv, TallyExact, TotalExact, MergeExact, TableExact
  <2>3. CASE stage = "probe"
    <3>1. UNCHANGED <<job, collectors, bucket_cnt, directory, tuples, total>>
      BY <1>3, <2>3 DEF BuildStep, ProbeStep, Claim, ConsumeRow, ProbeRow, ProbeTuple,
                        jobVars, slabVars, mapVars, tallyVars
    <3> QED
      BY <1>0, <2>1, <2>3, <3>1, TableUntouched DEF TableInv
  <2> QED
    BY <2>1, <2>2, <2>3
<1>4. ASSUME NEW t \in Threads, MergeStep(t) PROVE TableInv'
  BY <1>4, TableMerge
<1>5. CASE UNCHANGED vars
  <2>1. UNCHANGED <<stage, pc, job, collectors, bucket_cnt, directory, tuples, total, prefix,
                    tally, write_cursor, src, at, slot, cur>>
    BY <1>5 DEF vars, jobVars, slabVars, tallyVars, mapVars, mergeVars
  <2>2. CASE stage = "tally"
    <3>1. \A i, j : Tallied(i, j)' = Tallied(i, j)
      BY <2>1, PlacesKept
    <3>2. TallyExact'
      BY <2>1, <3>1 DEF TallyExact, TableInv
    <3> QED
      BY <1>0, <2>1, <2>2, <3>2 DEF TableInv, TotalExact, MergeExact, TableExact
  <2>3. CASE stage = "merge"
    <3>1. bucket_cnt \in DirectorySizes /\ CollectInv
      BY <2>3 DEF TableInv, CollectInv, IInv, Types, MapTypes
    <3>2. /\ \A s : Start(s)' = Start(s) /\ InSlot(s)' = InSlot(s)
          /\ \A q : FirstSlot(q)' = FirstSlot(q)
          /\ Places' = Places
      BY <2>1, TableKept
    <3>3. \A q, s : Passed(q, s)' = Passed(q, s)
      BY <2>1, <3>2 DEF Passed, Before
    <3>4. \A q \in Threads : ThreadExact(q)
      BY <2>3 DEF TableInv, MergeExact
    <3>5. \A q \in Threads : ThreadExact(q)'
      BY <2>1, <3>1, <3>3, <3>4, ThreadKept
    <3>6. TotalExact'
      BY <2>1, <3>2 DEF TotalExact, TableInv
    <3> QED
      BY <1>0, <2>1, <2>3, <3>5, <3>6 DEF TableInv, TallyExact, MergeExact, TableExact
  <2>4. CASE stage \notin {"tally", "merge"}
    BY <1>0, <2>1, <2>4, TableUntouched DEF TableInv
  <2> QED
    BY <2>2, <2>3, <2>4
<1> QED
  BY <1>1, <1>2, <1>3, <1>4, <1>5 DEF Next, Thread, Finished
-----------------------------------------------------------------------------
(* What the table invariant says of run_unchained.                         *)

\* In every state of every run the phases before the probe have done what
\* TableInv says: the sums of the tally count the tuples before a partition,
\* a merge thread has filled in exactly what it has read, and the table the
\* probe reads holds each slot's tuples in the range of the slot.
THEOREM TableInvariant == Spec => []TableInv
<1> QED
  BY TableInit, TableStep, PTL DEF Spec

\* The next step of a merge thread touches slots of its own partition, and
\* tuples in the ranges of these slots.
LEMMA AccessOwned ==
  ASSUME TableInv, stage = "merge", NEW p \in Threads, NEW cell \in Access(p)
  PROVE  \/ /\ cell[1] \in {"directory", "write_cursor"}
            /\ cell[2] \in SlotsOf(p)
         \/ /\ cell[1] = "tuples"
            /\ \E s \in SlotsOf(p) : cell[2] \in Start(s) .. Start(s + 1) - 1
<1>1. /\ CollectInv /\ bucket_cnt \in DirectorySizes /\ total = Cardinality(Places)
      /\ ThreadExact(p) /\ IInv
  BY DEF TableInv, CollectInv, IInv, Types, MapTypes, TotalExact, MergeExact
<1>2. CASE pc[p] = "count" /\ HasTuple(p)
  <2>1. cell = <<"directory", NextSlot(p)>>
    BY <1>2 DEF Access
  <2>2. NextSlot(p) \in SlotsOf(p)
    <3> DEFINE x == <<src[p], p, at[p]>>
    <3>1. x = <<src[p], p, at[p]>>
      OBVIOUS
    <3> HIDE DEF x
    <3> QED
      BY <1>1, <1>2, <3>1, NextPlace
  <2> QED
    BY <2>1, <2>2
<1>3. CASE pc[p] = "ranges"
  <2>1. cell \in {<<"directory", slot[p]>>, <<"write_cursor", slot[p]>>}
    BY <1>3 DEF Access
  <2>2. slot[p] \in SlotsOf(p)
    <3>1. FirstSlot(p) <= slot[p] /\ slot[p] < FirstSlot(p + 1)
      BY <1>1, <1>3 DEF IInv, RangesInside
    <3>2. FirstSlot(p) \in Int /\ FirstSlot(p + 1) \in Int /\ slot[p] \in Int
      BY <1>1, SlotsInside DEF IInv, Types, MergeTypes
    <3> QED
      BY <3>1, <3>2 DEF SlotsOf
  <2> QED
    BY <2>1, <2>2
<1>4. CASE pc[p] = "scatter" /\ HasTuple(p)
  <2>1. cell \in {<<"write_cursor", NextSlot(p)>>, <<"tuples", write_cursor[NextSlot(p)]>>}
    BY <1>4 DEF Access
  <2>2. /\ NextSlot(p) \in SlotsOf(p)
        /\ write_cursor[NextSlot(p)] \in Start(NextSlot(p)) .. Start(NextSlot(p) + 1) - 1
    BY <1>1, <1>4, ScatterPosition
  <2> QED
    BY <2>1, <2>2
<1> QED
  BY <1>2, <1>3, <1>4 DEF Access

\* The merge needs no lock: at no point of any run are two merge threads about
\* to touch the same directory entry, write cursor or tuple (merge_phase).
THEOREM MergeIsRaceFree == Spec => []MergeRaceFree
<1>1. TableInv => MergeRaceFree
  <2> SUFFICES ASSUME TableInv, stage = "merge", NEW p \in Threads, NEW q \in Threads,
                      NEW cell \in Access(p), cell \in Access(q)
               PROVE  p = q
    BY DEF MergeRaceFree
  <2>1. CollectInv /\ bucket_cnt \in DirectorySizes
    BY DEF TableInv, CollectInv, IInv, Types, MapTypes
  <2>2. CASE cell[1] \in {"directory", "write_cursor"}
    <3>1. cell[2] \in SlotsOf(p) /\ cell[2] \in SlotsOf(q)
      BY <2>2, AccessOwned
    <3> QED
      BY <2>1, <3>1, OneOwner
  <2>3. CASE cell[1] = "tuples"
    <3>1. PICK s \in SlotsOf(p) : cell[2] \in Start(s) .. Start(s + 1) - 1
      BY <2>3, AccessOwned
    <3>2. PICK r \in SlotsOf(q) : cell[2] \in Start(r) .. Start(r + 1) - 1
      BY <2>3, AccessOwned
    <3>3. s \in Int /\ r \in Int
      BY <2>1, SlotsInside
    <3>4. s = r
      BY <2>1, <3>1, <3>2, <3>3, RangesApart
    <3> QED
      BY <2>1, <3>1, <3>2, <3>4, OneOwner
  <2> QED
    BY <2>2, <2>3, AccessOwned
<1> QED
  BY <1>1, TableInvariant, PTL

\* No step of the merge overwrites a tuple: the cursor of a slot only ever
\* stands on an index that still holds the default (insert).
THEOREM TuplesWrittenOnce == Spec => NoOverwrite
<1>1. TableInv /\ [Next]_vars =>
        [stage = "merge" /\ stage' = "merge" =>
           \A i \in 0 .. total - 1 : tuples[i] # DefaultTuple => tuples'[i] = tuples[i]]_vars
  <2> SUFFICES ASSUME TableInv, [Next]_vars, stage = "merge", stage' = "merge"
               PROVE  \A i \in 0 .. total - 1 : tuples[i] # DefaultTuple => tuples'[i] = tuples[i]
    OBVIOUS
  <2>1. CASE tuples' = tuples
    BY <2>1
  <2>2. CASE \E p \in Threads : ScatterTuple(p)
    <3>1. PICK p \in Threads : ScatterTuple(p)
      BY <2>2
    <3>2. /\ CollectInv /\ bucket_cnt \in DirectorySizes /\ total = Cardinality(Places)
          /\ ThreadExact(p)
          /\ tuples \in [0 .. total - 1 -> Tuples \cup {DefaultTuple}]
      BY DEF TableInv, CollectInv, IInv, Types, MapTypes, TotalExact, MergeExact
    <3> DEFINE pos == write_cursor[NextSlot(p)]
    <3>3. tuples[pos] = DefaultTuple
      BY <3>1, <3>2, ScatterPosition DEF ScatterTuple
    <3>4. tuples' = tuples \/ tuples' = [tuples EXCEPT ![pos] = NextTuple(p)]
      BY <3>1 DEF ScatterTuple
    <3> QED
      BY <3>2, <3>3, <3>4
  <2> QED
    BY <2>1, <2>2 DEF Next, Begin, Main, JoinBuild, Tally, ForkMerge, JoinMerge, JoinProbe,
       Gather, Return, Thread, BuildStep, Claim, ConsumeRow, MergeStep, CountTuple,
       NextCollector, EndOfCount, LastCollectorDone, SetRange, EndOfScatter, ProbeStep,
       ProbeRow, ProbeTuple, Finished, vars, mapVars
<1> QED
  BY <1>1, TableInvariant, PTL DEF Spec, NoOverwrite
-----------------------------------------------------------------------------
(* The table the probe reads.                                              *)

\* f tells for every collected tuple where in the array the merge has put it.
Filled(f) ==
  /\ f \in [Places -> 0 .. total - 1]
  /\ \A x, y \in Places : f[x] = f[y] => x = y
  /\ \A i \in 0 .. total - 1 : \E x \in Places : f[x] = i
  /\ \A x \in Places : /\ f[x] \in Start(SlotOf(x)) .. Start(SlotOf(x) + 1) - 1
                       /\ tuples[f[x]] = Collected(x)

\* The array has room for the collected tuples and no more, and no two of them
\* are equal: the places they were given use up every index.
LEMMA TableFilled ==
  ASSUME TableInv, stage = "probe"
  PROVE  \E f : Filled(f)
<1>1. CollectInv /\ TableExact /\ bucket_cnt \in DirectorySizes /\ total = Cardinality(Places)
  BY DEF TableInv, CollectInv, IInv, Types, MapTypes, TotalExact
<1>2. \A x \in Places : \E i \in 0 .. total - 1 :
        i \in Start(SlotOf(x)) .. Start(SlotOf(x) + 1) - 1 /\ tuples[i] = Collected(x)
  <2> TAKE x \in Places
  <2> DEFINE s == SlotOf(x)
  <2>1. s \in 0 .. bucket_cnt - 1 /\ x \in InSlot(s)
    BY <1>1, SlotOfPlace DEF InSlot
  <2>2. s \in Int /\ bucket_cnt \in Nat
    BY <1>1, <2>1, SizesAssumption
  <2>3. Start(s) \in Nat /\ Start(s + 1) \in Nat /\ Start(s + 1) <= total
    BY <1>1, StartFacts
  <2> HIDE DEF s
  <2>4. PICK i \in Start(s) .. Start(s + 1) - 1 : tuples[i] = Collected(x)
    BY <1>1, <2>1 DEF TableExact
  <2>5. i \in 0 .. total - 1
    BY <1>1, <2>3, <2>4, PlacesFinite
  <2> QED
    BY <2>4, <2>5 DEF s
<1> DEFINE f == [x \in Places |->
                   CHOOSE i \in 0 .. total - 1 :
                     i \in Start(SlotOf(x)) .. Start(SlotOf(x) + 1) - 1 /\ tuples[i] = Collected(x)]
<1>3. \A x \in Places : /\ f[x] \in 0 .. total - 1
                        /\ f[x] \in Start(SlotOf(x)) .. Start(SlotOf(x) + 1) - 1
                        /\ tuples[f[x]] = Collected(x)
  BY <1>2, Zenon
<1>4. f \in [Places -> 0 .. total - 1]
  BY <1>3, Zenon
<1> HIDE DEF f
<1>5. \A x, y \in Places : f[x] = f[y] => x = y
  BY <1>1, <1>3, PlacesDistinct
<1> DEFINE P == Places
           I == 0 .. total - 1
<1>6. f \in Injection(P, I)
  BY <1>4, <1>5 DEF Injection, IsInjective
<1>7. IsFiniteSet(I) /\ Cardinality(I) = Cardinality(P)
  <2>1. total \in Nat
    BY <1>1, PlacesFinite
  <2>2. IsFiniteSet(I) /\ Cardinality(I) = IF 0 > total - 1 THEN 0 ELSE total - 1 - 0 + 1
    BY <2>1, FS_Interval
  <2> HIDE DEF I
  <2> QED
    BY <1>1, <2>1, <2>2
<1> HIDE DEF P, I
<1>8. f \in Surjection(P, I)
  BY <1>6, <1>7, FS_Injection
<1>9. \A i \in I : \E x \in P : f[x] = i
  BY <1>8 DEF Surjection
<1> QED
  BY <1>3, <1>4, <1>5, <1>9 DEF P, I, Filled

\* Every index of the array holds a collected tuple, in the range of its slot;
\* every collected tuple is at some index; no row is there twice.
LEMMA TableFacts ==
  ASSUME TableInv, stage = "probe"
  PROVE  /\ \A i \in 0 .. total - 1 : \E x \in Places :
              /\ tuples[i] = Collected(x)
              /\ i \in Start(SlotOf(x)) .. Start(SlotOf(x) + 1) - 1
         /\ \A x \in Places : \E i \in 0 .. total - 1 : tuples[i] = Collected(x)
         /\ \A i, j \in 0 .. total - 1 : tuples[i].value = tuples[j].value => i = j
<1>1. CollectInv
  BY DEF TableInv
<1>2. PICK f : Filled(f)
  BY TableFilled
<1>3. \A i \in 0 .. total - 1 : \E x \in Places : f[x] = i
  BY <1>2 DEF Filled
<1>4. \A x \in Places : /\ f[x] \in Start(SlotOf(x)) .. Start(SlotOf(x) + 1) - 1
                        /\ f[x] \in 0 .. total - 1
                        /\ tuples[f[x]] = Collected(x)
  BY <1>2 DEF Filled
<1>5. ASSUME NEW i \in 0 .. total - 1, NEW j \in 0 .. total - 1, tuples[i].value = tuples[j].value
      PROVE  i = j
  <2>1. PICK x \in Places : f[x] = i
    BY <1>3
  <2>2. PICK y \in Places : f[y] = j
    BY <1>3
  <2>3. Collected(x).value = Collected(y).value
    BY <1>4, <1>5, <2>1, <2>2
  <2>4. x = y
    BY <1>1, <2>3, PlacesDistinct
  <2> QED
    BY <2>1, <2>2, <2>4
<1> QED
  BY <1>3, <1>4, <1>5

\* The directory cuts the array into the ranges of the slots.
LEMMA DirectoryFacts ==
  ASSUME TableInv, stage = "probe"
  PROVE  /\ \A s \in 0 .. bucket_cnt : directory[s].start = Start(s)
         /\ \A s \in 0 .. bucket_cnt - 1 :
              /\ Start(s) \in Nat /\ Start(s + 1) \in Nat
              /\ Start(s) <= Start(s + 1) /\ Start(s + 1) <= total
              /\ directory[s + 1].start = Start(s + 1)
         /\ bucket_cnt \in DirectorySizes /\ bucket_cnt \in Nat \ {0}
         /\ total \in Nat /\ tuple_count = total
<1>1. /\ CollectInv /\ TableExact /\ bucket_cnt \in DirectorySizes
      /\ total = Cardinality(Places) /\ total \in Nat /\ tuple_count = total
  BY DEF TableInv, CollectInv, IInv, Types, MainTypes, MapTypes, TotalExact, CountStored
<1>2. bucket_cnt \in Nat \ {0}
  BY <1>1, SizesAssumption
<1>3. Start(bucket_cnt) = total
  BY <1>1, StartFacts
<1>4. \A s \in 0 .. bucket_cnt : directory[s].start = Start(s)
  <2>1. directory[bucket_cnt].start = total /\ stage = "probe"
    BY <1>1 DEF TableExact
  <2>2. \A s \in 0 .. bucket_cnt - 1 : directory[s].start = Start(s)
    BY <1>1 DEF TableExact
  <2>3. \A s \in 0 .. bucket_cnt : s = bucket_cnt \/ s \in 0 .. bucket_cnt - 1
    BY <1>2
  <2> QED
    BY <1>3, <2>1, <2>2, <2>3
<1>5. ASSUME NEW s \in 0 .. bucket_cnt - 1
      PROVE  /\ Start(s) \in Nat /\ Start(s + 1) \in Nat
             /\ Start(s) <= Start(s + 1) /\ Start(s + 1) <= total
             /\ directory[s + 1].start = Start(s + 1)
  <2>1. s \in Int /\ s + 1 \in Int /\ s <= s + 1 /\ s + 1 \in 0 .. bucket_cnt
    BY <1>2
  <2> QED
    BY <1>1, <1>4, <2>1, StartFacts
<1> QED
  BY <1>1, <1>2, <1>4, <1>5

\* What the merge leaves for the probe is a hash table of the build rows: its
\* ranges partition the array, a range holds the tuples of its slot, a filter
\* contains their tags, and every collected tuple is there once (merge_phase,
\* prefix_sum, insert, finalize_directory).
THEOREM DirectoryIsExact == Spec => []DirectoryExact
<1>1. TableInv => DirectoryExact
  <2> SUFFICES ASSUME TableInv, stage = "probe" PROVE DirectoryExact
    BY DEF DirectoryExact
  <2>1. CollectInv /\ TableExact /\ total = Cardinality(Places)
    BY DEF TableInv, TotalExact
  <2>2. directory[0].start = 0 /\ directory[bucket_cnt].start = total
    <3>1. bucket_cnt \in DirectorySizes /\ bucket_cnt \in Nat \ {0}
      BY DirectoryFacts
    <3>2. Start(0) = 0 /\ Start(bucket_cnt) = total
      BY <2>1, <3>1, StartFacts
    <3>3. 0 \in 0 .. bucket_cnt /\ bucket_cnt \in 0 .. bucket_cnt
      BY <3>1
    <3> QED
      BY <3>2, <3>3, DirectoryFacts
  <2>3. ASSUME NEW s \in 0 .. bucket_cnt - 1
        PROVE  /\ directory[s].start <= directory[s + 1].start
               /\ \A i \in directory[s].start .. directory[s + 1].start - 1 :
                    /\ bucket_index_from_hash(tuples[i].hash, bucket_cnt) = s
                    /\ Tag[tuples[i].hash] \subseteq directory[s].filter
    <3>1. /\ directory[s].start = Start(s) /\ directory[s + 1].start = Start(s + 1)
          /\ Start(s) <= Start(s + 1)
      BY DirectoryFacts
    <3>2. ASSUME NEW i \in Start(s) .. Start(s + 1) - 1
          PROVE  /\ bucket_index_from_hash(tuples[i].hash, bucket_cnt) = s
                 /\ Tag[tuples[i].hash] \subseteq directory[s].filter
      <4>1. PICK x \in InSlot(s) : tuples[i] = Collected(x)
        BY <2>1 DEF TableExact
      <4>2. SlotOf(x) = s /\ Tag[Collected(x).hash] \subseteq directory[s].filter
        BY <2>1, <4>1 DEF TableExact, InSlot
      <4> QED
        BY <4>1, <4>2 DEF SlotOf
    <3> QED
      BY <3>1, <3>2
  <2>4. { tuples[i] : i \in 0 .. total - 1 } = { Collected(x) : x \in Places }
    BY TableFacts
  <2> QED
    BY <2>1, <2>2, <2>3, <2>4 DEF DirectoryExact
<1> QED
  BY <1>1, TableInvariant, PTL

\* The index of a tuple is in the range that a lookup of its key returns.
LEMMA LookupCovers ==
  ASSUME TableInv, stage = "probe", NEW key \in Keys, NEW i \in 0 .. total - 1,
         tuples[i].key = key
  PROVE  i \in lookup_range(key)[1] .. lookup_range(key)[2] - 1
<1>1. CollectInv /\ TableExact
  BY DEF TableInv
<1>2. PICK x \in Places : /\ tuples[i] = Collected(x)
                          /\ i \in Start(SlotOf(x)) .. Start(SlotOf(x) + 1) - 1
  BY TableFacts
<1>3. Collected(x).hash = Hash[key]
  <2>1. Collected(x) = BuildTuple(Collected(x).value)
    BY <1>1, PlaceFacts
  <2>2. Collected(x).key = key
    BY <1>2
  <2> QED
    BY <2>1, <2>2 DEF BuildTuple
<1> DEFINE s == SlotOf(x)
<1>4. s = bucket_index_from_hash(Hash[key], bucket_cnt)
  BY <1>3 DEF SlotOf
<1>5. s \in 0 .. bucket_cnt - 1 /\ x \in InSlot(s)
  BY <1>1, DirectoryFacts, SlotOfPlace DEF InSlot
<1> HIDE DEF s
<1>6. tuple_count > 0
  BY DirectoryFacts
<1>7. could_contain(directory[s].filter, Hash[key])
  BY <1>1, <1>3, <1>5 DEF TableExact, could_contain
<1>8. directory[s].start = Start(s) /\ directory[s + 1].start = Start(s + 1)
  BY <1>5, DirectoryFacts
<1>9. lookup_range(key) = <<directory[s].start, directory[s + 1].start>>
  BY <1>4, <1>6, <1>7 DEF lookup_range, bucket_range
<1> QED
  BY <1>2, <1>8, <1>9 DEF s

\* A lookup never misses a tuple of its key, whatever the hash function and the
\* tags: the filter rejects no key that is there (lookup_range).
THEOREM LookupsMissNothing == Spec => []NoFalseNegative
<1>1. TableInv => NoFalseNegative
  BY LookupCovers, DirectoryFacts DEF NoFalseNegative
<1> QED
  BY <1>1, TableInvariant, PTL

-----------------------------------------------------------------------------
(* Third part: the probe and the result.                                   *)

Matches == Abstract!Matches(job)

BuildRowOf(pair) == IF job.build_left THEN pair[1] ELSE pair[2]

-----------------------------------------------------------------------------
(* The invariant of the probe.                                             *)

\* The emitted pairs of thread t.
Pairs(t) == 1 .. Len(local_results[t])

\* Thread t has compared the tuple of build row v with its probe row.
Compared(t, v) == \E i \in 0 .. idx[t] - 1 : tuples[i].value = v

\* The probe row of a pair is done, or under comparison and past its tuple.
Due(pair) ==
  \/ Handled(ProbeRowOf(pair))
  \/ \E t \in Threads : /\ pc[t] = "compare"
                        /\ row[t] = ProbeRowOf(pair)
                        /\ Compared(t, BuildRowOf(pair))

\* No pair is emitted twice, neither by two threads nor by one.
PairsDistinct ==
  stage \in {"probe", "gather"} =>
    \A t, u \in Threads : \A k \in Pairs(t), l \in Pairs(u) :
      local_results[t][k] = local_results[u][l] => t = u /\ k = l

\* What has been emitted is what is due.
PairsExact ==
  /\ stage \in {"probe", "gather"} =>
       \A t \in Threads : \A k \in Pairs(t) :
         /\ local_results[t][k] \in Matches
         /\ stage = "probe" => Due(local_results[t][k])
  /\ stage \in {"probe", "gather"} =>
       \A m \in Matches : (stage = "probe" => Due(m)) =>
         \E t \in Threads : \E k \in Pairs(t) : local_results[t][k] = m

\* The range a thread is comparing is the rest of the range of its key.
RangesLookedUp ==
  stage = "probe" =>
    \A t \in Threads :
      /\ pc[t] # "thrown"
      /\ pc[t] = "compare" =>
           LET key == get_value(ProbeColumn, row[t])
           IN  /\ key # Null
               /\ lookup_range(key)[1] <= idx[t]
               /\ idx[t] < idx_end[t]
               /\ idx_end[t] = lookup_range(key)[2]

\* The result of the previous join is gone, and nothing is gathered yet.
NothingGathered == stage \in {"build", "tally", "merge", "probe"} => results = <<>>

\* The result holds the pairs of the threads gathered so far.
Gathered ==
  stage = "gather" =>
    /\ \A k, l \in 1 .. Len(results) : results[k] = results[l] => k = l
    /\ \A k \in 1 .. Len(results) :
         \E t \in Threads : t < tally[1] /\ \E l \in Pairs(t) : results[k] = local_results[t][l]
    /\ \A t \in Threads : t < tally[1] =>
         \A l \in Pairs(t) : \E k \in 1 .. Len(results) : results[k] = local_results[t][l]

\* A finished join has the matches of its job in its result.
Returned == stage = "done" => Abstract!Enumerates(results, Matches)

ResultInv ==
  /\ TableInv
  /\ PairsDistinct
  /\ PairsExact
  /\ RangesLookedUp
  /\ NothingGathered
  /\ Gathered
  /\ Returned
-----------------------------------------------------------------------------
(* Pairs.                                                                  *)

Row(column, r) == r \in 0 .. Len(column) - 1

\* A match is a pair of a build and a probe row with one key.
LEMMA MatchRows ==
  ASSUME NEW m \in Matches
  PROVE  /\ Row(BuildColumn, BuildRowOf(m)) /\ Row(ProbeColumn, ProbeRowOf(m))
         /\ get_value(BuildColumn, BuildRowOf(m)) = get_value(ProbeColumn, ProbeRowOf(m))
         /\ get_value(BuildColumn, BuildRowOf(m)) # Null
         /\ m = OutputPair(BuildRowOf(m), ProbeRowOf(m))
<1>1. /\ m \in (0 .. Len(job.left) - 1) \X (0 .. Len(job.right) - 1)
      /\ job.left[m[1] + 1] # Null
      /\ job.left[m[1] + 1] = job.right[m[2] + 1]
  BY DEF Matches, Abstract!Matches, Abstract!Rows, Abstract!get_value
<1>2. m = <<m[1], m[2]>> /\ m[1] \in 0 .. Len(job.left) - 1 /\ m[2] \in 0 .. Len(job.right) - 1
  BY <1>1
<1> QED
  BY <1>1, <1>2 DEF BuildRowOf, ProbeRowOf, Row, BuildColumn, ProbeColumn, get_value, OutputPair

LEMMA RowsMatch ==
  ASSUME NEW v, NEW r, Row(BuildColumn, v), Row(ProbeColumn, r),
         get_value(BuildColumn, v) = get_value(ProbeColumn, r), get_value(BuildColumn, v) # Null
  PROVE  OutputPair(v, r) \in Matches
<1> DEFINE m == OutputPair(v, r)
<1>1. /\ m \in (0 .. Len(job.left) - 1) \X (0 .. Len(job.right) - 1)
      /\ job.left[m[1] + 1] # Null
      /\ job.left[m[1] + 1] = job.right[m[2] + 1]
  BY DEF Row, BuildColumn, ProbeColumn, get_value, OutputPair
<1> QED
  BY <1>1 DEF Matches, Abstract!Matches, Abstract!Rows, Abstract!get_value

LEMMA PairRows ==
  ASSUME NEW v, NEW r
  PROVE  BuildRowOf(OutputPair(v, r)) = v /\ ProbeRowOf(OutputPair(v, r)) = r
BY DEF BuildRowOf, ProbeRowOf, OutputPair

\* The tuple of a match's build row is in the array, in the range that the
\* lookup of its key returns.
LEMMA MatchIndex ==
  ASSUME TableInv, stage = "probe", NEW m \in Matches
  PROVE  LET range == lookup_range(get_value(ProbeColumn, ProbeRowOf(m)))
         IN  \E i \in range[1] .. range[2] - 1 :
               i \in 0 .. total - 1 /\ tuples[i].value = BuildRowOf(m)
<1> DEFINE v == BuildRowOf(m)
           key == get_value(BuildColumn, v)
<1>1. /\ v \in 0 .. Len(BuildColumn) - 1 /\ key # Null
      /\ key = get_value(ProbeColumn, ProbeRowOf(m))
  BY MatchRows DEF Row
<1>2. CollectInv /\ BuildColumn \in Seq(Keys \cup {Null})
  BY Columns DEF TableInv, CollectInv, IInv
<1>3. key \in Keys
  <2>1. v + 1 \in 1 .. Len(BuildColumn)
    BY <1>1, <1>2
  <2> QED
    BY <1>1, <1>2, <2>1 DEF get_value
<1>4. PICK x \in Places : Collected(x).value = v
  BY <1>1, <1>2, PlaceOfRow
<1>5. Collected(x).key = key
  <2>1. Collected(x) = BuildTuple(v)
    BY <1>2, <1>4, PlaceFacts
  <2> QED
    BY <2>1 DEF BuildTuple
<1>6. PICK i \in 0 .. total - 1 : tuples[i] = Collected(x)
  BY TableFacts
<1>7. i \in lookup_range(key)[1] .. lookup_range(key)[2] - 1
  BY <1>3, <1>5, <1>6, LookupCovers
<1> QED
  BY <1>1, <1>4, <1>6, <1>7

\* A lookup returns an interval of the array, or an empty one.
LEMMA LookupInside ==
  ASSUME TableInv, stage = "probe", NEW key \in Keys
  PROVE  /\ lookup_range(key)[1] \in Nat
         /\ lookup_range(key)[2] \in 0 .. total
<1> DEFINE s == bucket_index_from_hash(Hash[key], bucket_cnt)
<1>1. bucket_cnt \in DirectorySizes /\ total \in Nat
  BY DirectoryFacts
<1>2. s \in 0 .. bucket_cnt - 1
  BY <1>1, SlotOwner, DataAssumption
<1> HIDE DEF s
<1>3. s \in 0 .. bucket_cnt
  BY <1>1, <1>2, DirectoryFacts
<1>4. /\ directory[s].start \in Nat
      /\ directory[s + 1].start \in 0 .. total
  BY <1>1, <1>2, <1>3, DirectoryFacts
<1>5. lookup_range(key) = <<0, 0>> \/ lookup_range(key) = <<directory[s].start, directory[s + 1].start>>
  BY DEF lookup_range, bucket_range, s
<1> QED
  BY <1>1, <1>4, <1>5

\* What a probe thread compares, and when it is a hit.
LEMMA ComparedTuple ==
  ASSUME TableInv, RangesLookedUp, NEW t \in Threads, stage = "probe", pc[t] = "compare",
         NEW tuple, tuple = tuples[idx[t]], NEW pair, pair = OutputPair(tuple.value, row[t])
  PROVE  /\ idx[t] \in 0 .. total - 1
         /\ pair \in Matches <=> SameKey(tuple, get_value(ProbeColumn, row[t]))
         /\ \A i \in 0 .. total - 1 : tuples[i].value = tuple.value => i = idx[t]
<1> DEFINE key == get_value(ProbeColumn, row[t])
<1>1. CollectInv /\ IInv /\ Types
  BY DEF TableInv, CollectInv, IInv
<1>2. key \in Keys /\ Row(ProbeColumn, row[t])
  <2>1. row[t] < Len(ProbeColumn)
    <3>1. row[t] < row_end[t] /\ row_end[t] <= Len(ProbeColumn)
      BY <1>1 DEF IInv, MorselsDisjoint, MorselRows
    <3>2. row[t] \in Nat /\ row_end[t] \in Nat /\ Len(ProbeColumn) \in Nat
      BY <1>1, Columns DEF Types, MorselTypes
    <3> QED
      BY <3>1, <3>2
  <2>2. Len(ProbeColumn) \in Nat
    BY <1>1, Columns
  <2> QED
    BY <1>1, <2>1, <2>2, RowRead DEF RangesLookedUp, Row
<1>3. idx[t] \in 0 .. total - 1
  <2>1. idx[t] < lookup_range(key)[2]
    BY DEF RangesLookedUp
  <2>2. idx[t] \in Nat /\ total \in Nat
    BY <1>1 DEF Types, ProbeTypes, MainTypes
  <2> HIDE DEF key
  <2>3. lookup_range(key)[2] \in 0 .. total
    BY <1>2, LookupInside
  <2> QED
    BY <2>1, <2>2, <2>3
<1>4. PICK x \in Places : tuple = Collected(x)
  BY <1>3, TableFacts
<1>5. /\ Row(BuildColumn, tuple.value) /\ get_value(BuildColumn, tuple.value) # Null
      /\ tuple.key = get_value(BuildColumn, tuple.value)
  <2>1. /\ Collected(x).value \in Nat /\ Collected(x).value < Len(BuildColumn)
        /\ get_value(BuildColumn, Collected(x).value) # Null
        /\ Collected(x) = BuildTuple(Collected(x).value)
    BY <1>1, PlaceFacts
  <2>2. Len(BuildColumn) \in Nat
    BY <1>1, Columns
  <2>3. tuple.key = get_value(BuildColumn, tuple.value)
    BY <1>4, <2>1 DEF BuildTuple
  <2> QED
    BY <1>4, <2>1, <2>2, <2>3 DEF Row
<1>6. pair \in Matches <=> SameKey(tuple, key)
  <2>1. ASSUME pair \in Matches PROVE SameKey(tuple, key)
    <3>1. get_value(BuildColumn, BuildRowOf(pair)) = get_value(ProbeColumn, ProbeRowOf(pair))
      BY <2>1, MatchRows
    <3>2. BuildRowOf(pair) = tuple.value /\ ProbeRowOf(pair) = row[t]
      BY PairRows
    <3> QED
      BY <1>5, <3>1, <3>2 DEF SameKey
  <2>2. ASSUME SameKey(tuple, key) PROVE pair \in Matches
    <3>1. get_value(BuildColumn, tuple.value) = get_value(ProbeColumn, row[t])
      BY <1>5, <2>2 DEF SameKey
    <3> QED
      BY <1>2, <1>5, <3>1, RowsMatch
  <2> QED
    BY <2>1, <2>2
<1>7. \A i \in 0 .. total - 1 : tuples[i].value = tuple.value => i = idx[t]
  BY <1>3, TableFacts
<1> QED
  BY <1>3, <1>6, <1>7
-----------------------------------------------------------------------------
(* One step of the probe.                                                  *)

LEMMA MatchesKept ==
  ASSUME job' = job
  PROVE  /\ Matches' = Matches
         /\ \A m : BuildRowOf(m)' = BuildRowOf(m) /\ ProbeRowOf(m)' = ProbeRowOf(m)
         /\ \A v, r : OutputPair(v, r)' = OutputPair(v, r)
         /\ BuildColumn' = BuildColumn /\ ProbeColumn' = ProbeColumn
BY DEF Matches, Abstract!Matches, Abstract!Rows, Abstract!get_value, BuildRowOf, ProbeRowOf,
       OutputPair, BuildColumn, ProbeColumn

\* A step that emits nothing and makes no match due keeps both invariants.
LEMMA QuietStep ==
  ASSUME PairsDistinct, PairsExact, stage = "probe", stage' = "probe",
         UNCHANGED <<job, local_results>>, \A m \in Matches : Due(m)' <=> Due(m)
  PROVE  PairsDistinct' /\ PairsExact'
<1>1. Matches' = Matches /\ \A t : Pairs(t)' = Pairs(t)
  BY MatchesKept DEF Pairs
<1>2. PairsDistinct'
  BY <1>1 DEF PairsDistinct
<1>3. PairsExact'
  <2>1. \A t \in Threads : \A k \in Pairs(t) : local_results[t][k] \in Matches /\ Due(local_results[t][k])
    BY DEF PairsExact
  <2>2. \A t \in Threads : \A k \in Pairs(t) : Due(local_results[t][k])'
    <3> SUFFICES ASSUME NEW t \in Threads, NEW k \in Pairs(t) PROVE Due(local_results[t][k])'
      OBVIOUS
    <3>1. PICK m : m = local_results[t][k]
      OBVIOUS
    <3>2. Due(m)'
      BY <2>1, <3>1
    <3> QED
      BY <3>1, <3>2
  <2>3. \A m \in Matches : Due(m)' => \E t \in Threads : \E k \in Pairs(t) : local_results[t][k] = m
    BY DEF PairsExact
  <2> QED
    BY <1>1, <2>1, <2>2, <2>3 DEF PairsExact
<1> QED
  BY <1>2, <1>3

Emits(t, pair) == local_results' = [local_results EXCEPT ![t] = Append(@, pair)]

\* A step that emits one match, the only one that becomes due.
LEMMA EmitStep ==
  ASSUME Types, PairsDistinct, PairsExact, stage = "probe", stage' = "probe", job' = job,
         NEW t \in Threads, NEW pair \in Matches, ~Due(pair), Emits(t, pair),
         \A m \in Matches : Due(m)' <=> Due(m) \/ m = pair
  PROVE  PairsDistinct' /\ PairsExact'
<1> DEFINE last == Len(local_results[t]) + 1
<1>1. Matches' = Matches
  BY MatchesKept
<1>2. /\ local_results \in [Threads -> Seq(Nat \X Nat)]
      /\ Len(local_results[t]) \in Nat
  BY DEF Types, ProbeTypes
<1>3. /\ \A u \in Threads : \A k \in Pairs(u)' :
           \/ k \in Pairs(u) /\ local_results'[u][k] = local_results[u][k]
           \/ u = t /\ k = last /\ local_results'[u][k] = pair
      /\ \A u \in Threads : \A k \in Pairs(u) :
           k \in Pairs(u)' /\ local_results'[u][k] = local_results[u][k]
      /\ last \in Pairs(t)' /\ local_results'[t][last] = pair
  <2> DEFINE q == Append(local_results[t], pair)
  <2>1. /\ Len(q) = last
        /\ \A k \in 1 .. Len(local_results[t]) : q[k] = local_results[t][k]
        /\ q[last] = pair
    BY <1>2
  <2>2. local_results'[t] = q /\ \A u \in Threads \ {t} : local_results'[u] = local_results[u]
    BY <1>2 DEF Emits
  <2> HIDE DEF q
  <2>3. \A k \in 1 .. last : k \in 1 .. Len(local_results[t]) \/ k = last
    BY <1>2
  <2>4. last \in 1 .. last /\ \A k \in 1 .. Len(local_results[t]) : k \in 1 .. last
    BY <1>2
  <2> HIDE DEF last
  <2> QED
    BY <2>1, <2>2, <2>3, <2>4 DEF Pairs
<1>4. \A u \in Threads : \A k \in Pairs(u) : local_results[u][k] \in Matches /\ Due(local_results[u][k])
  BY DEF PairsExact
<1>5. \A u \in Threads : \A k \in Pairs(u) : local_results[u][k] # pair
  BY <1>4
<1> HIDE DEF last
<1>6. PairsDistinct'
  <2> SUFFICES ASSUME NEW u \in Threads, NEW w \in Threads,
                      NEW k \in Pairs(u)', NEW l \in Pairs(w)',
                      local_results'[u][k] = local_results'[w][l]
               PROVE  u = w /\ k = l
    BY DEF PairsDistinct
  <2>1. \/ k \in Pairs(u) /\ local_results'[u][k] = local_results[u][k]
        \/ u = t /\ k = last /\ local_results'[u][k] = pair
    BY <1>3
  <2>2. \/ l \in Pairs(w) /\ local_results'[w][l] = local_results[w][l]
        \/ w = t /\ l = last /\ local_results'[w][l] = pair
    BY <1>3
  <2>3. CASE k \in Pairs(u) /\ l \in Pairs(w)
    BY <1>5, <2>1, <2>2, <2>3 DEF PairsDistinct
  <2>4. CASE ~(k \in Pairs(u) /\ l \in Pairs(w))
    BY <1>5, <2>1, <2>2, <2>4
  <2> QED
    BY <2>3, <2>4
<1>7. PairsExact'
  <2>1. \A u \in Threads : \A k \in Pairs(u)' : local_results'[u][k] \in Matches
    BY <1>3, <1>4
  <2>2. ASSUME NEW u \in Threads, NEW k \in Pairs(u)' PROVE Due(local_results[u][k])'
    <3>1. PICK m : m = local_results'[u][k]
      OBVIOUS
    <3>2. m \in Matches /\ (Due(m) \/ m = pair)
      BY <1>3, <1>4, <3>1
    <3>3. Due(m)'
      BY <3>2
    <3> QED
      BY <3>1, <3>3
  <2>3. ASSUME NEW m \in Matches, Due(m)'
        PROVE  \E u \in Threads : \E k \in Pairs(u)' : local_results'[u][k] = m
    <3>1. CASE Due(m)
      <4>1. PICK u \in Threads : \E k \in Pairs(u) : local_results[u][k] = m
        BY <3>1 DEF PairsExact
      <4>2. PICK k \in Pairs(u) : local_results[u][k] = m
        BY <4>1
      <4>3. k \in Pairs(u)' /\ local_results'[u][k] = m
        BY <1>3, <4>2
      <4> QED
        BY <4>3
    <3>2. CASE m = pair
      BY <1>3, <3>2
    <3> QED
      BY <2>3, <3>1, <3>2
  <2> QED
    BY <1>1, <2>1, <2>2, <2>3 DEF PairsExact
<1> QED
  BY <1>6, <1>7

\* Claiming a morsel makes nothing due.
LEMMA DueClaim ==
  ASSUME IInv, NEW t \in Threads, Claim(t), stage = "probe"
  PROVE  \A m \in Matches : Due(m)' <=> Due(m)
<1>1. /\ pc[t] = "claim" /\ pc \in [Threads -> Steps]
      /\ UNCHANGED <<job, stage, idx, tuples>>
      /\ \A u \in Threads \ {t} : pc'[u] = pc[u] /\ row'[u] = row[u]
      /\ pc'[t] # "compare"
  <2>1. row \in [Threads -> Nat] /\ pc \in [Threads -> Steps]
    BY DEF IInv, Types, MorselTypes
  <2> QED
    BY <2>1 DEF Claim, jobVars, probeVars, mapVars
<1> SUFFICES ASSUME NEW m \in Matches PROVE Due(m)' <=> Due(m)
  OBVIOUS
<1>2. Handled(ProbeRowOf(m))' <=> Handled(ProbeRowOf(m))
  <2>1. PICK r : r = ProbeRowOf(m)
    OBVIOUS
  <2>2. ProbeRowOf(m)' = ProbeRowOf(m)
    BY <1>1, MatchesKept
  <2>3. r \in Nat /\ r < MorselRows
    <3>1. Len(ProbeColumn) \in Nat
      BY Columns DEF IInv
    <3> QED
      BY <2>1, <3>1, MatchRows DEF Row, MorselRows
  <2>4. Handled(r)' <=> Handled(r)
    BY <2>3, HandledClaim
  <2> QED
    BY <2>1, <2>2, <2>4 DEF Handled, InMorsel
<1>3. \A u : ProbeRowOf(m)' = ProbeRowOf(m) /\ Compared(u, BuildRowOf(m))' <=> Compared(u, BuildRowOf(m))
  BY <1>1, MatchesKept DEF Compared
<1>4. ProbeRowOf(m)' = ProbeRowOf(m)
  BY <1>1, MatchesKept
<1> QED
  BY <1>1, <1>2, <1>3, <1>4 DEF Due

\* The threads other than t keep their rows and their ranges.
OthersStand(t) ==
  \A u \in Threads \ {t} : /\ pc'[u] = pc[u] /\ row'[u] = row[u]
                           /\ idx'[u] = idx[u] /\ idx_end'[u] = idx_end[u]

LEMMA RangesKept ==
  ASSUME RangesLookedUp, stage = "probe", stage' = "probe",
         UNCHANGED <<job, bucket_cnt, directory, tuple_count>>,
         NEW t \in Threads, OthersStand(t), pc'[t] # "thrown",
         pc'[t] = "compare" =>
           LET key == get_value(ProbeColumn, row'[t])
           IN  /\ key # Null
               /\ lookup_range(key)[1] <= idx'[t]
               /\ idx'[t] < idx_end'[t]
               /\ idx_end'[t] = lookup_range(key)[2]
  PROVE  RangesLookedUp'
<1>1. \A u : get_value(ProbeColumn, row[u])' = get_value(ProbeColumn, row'[u])
  BY DEF get_value, ProbeColumn
<1>2. \A u : lookup_range(get_value(ProbeColumn, row[u]))' = lookup_range(get_value(ProbeColumn, row'[u]))
  BY <1>1 DEF lookup_range, bucket_range, could_contain, bucket_index_from_hash
<1>3. ASSUME NEW u \in Threads
      PROVE  /\ pc'[u] # "thrown"
             /\ pc'[u] = "compare" =>
                  LET key == get_value(ProbeColumn, row'[u])
                  IN  /\ key # Null
                      /\ lookup_range(key)[1] <= idx'[u]
                      /\ idx'[u] < idx_end'[u]
                      /\ idx_end'[u] = lookup_range(key)[2]
  <2>1. CASE u = t
    BY <2>1
  <2>2. CASE u # t
    <3>1. pc'[u] = pc[u] /\ row'[u] = row[u] /\ idx'[u] = idx[u] /\ idx_end'[u] = idx_end[u]
      BY <2>2 DEF OthersStand
    <3> QED
      BY <3>1 DEF RangesLookedUp
  <2> QED
    BY <2>1, <2>2
<1> QED
  BY <1>1, <1>2, <1>3 DEF RangesLookedUp

\* Before its first comparison a row has nothing due: its matches are inside
\* the range of the lookup.
LEMMA StartCompare ==
  ASSUME ResultInv, NEW t \in Threads, ProbeRow(t), pc'[t] = "compare"
  PROVE  /\ \A m \in Matches : Due(m)' <=> Due(m)
         /\ RangesLookedUp'
<1> DEFINE key == get_value(ProbeColumn, row[t])
<1>1. /\ TableInv /\ RangesLookedUp /\ stage = "probe" /\ stage' = "probe" /\ pc[t] = "rows"
      /\ pc \in [Threads -> Steps] /\ idx \in [Threads -> Nat] /\ idx_end \in [Threads -> Nat]
  BY DEF ResultInv, TableInv, CollectInv, IInv, Types, MorselTypes, ProbeTypes, ProbeRow
<1>2. /\ key # Null /\ lookup_range(key)[1] < lookup_range(key)[2]
      /\ pc' = [pc EXCEPT ![t] = "compare"]
      /\ idx' = [idx EXCEPT ![t] = lookup_range(key)[1]]
      /\ idx_end' = [idx_end EXCEPT ![t] = lookup_range(key)[2]]
      /\ UNCHANGED <<next_row, row, row_end>>
  BY <1>1 DEF ProbeRow, NextRow, morselVars
<1>3. UNCHANGED <<job, bucket_cnt, directory, tuples, tuple_count, stage>>
  BY DEF ProbeRow, jobVars, mapVars
<1>4. key \in Keys
  BY <1>1, <1>2, RowRead DEF TableInv, CollectInv, IInv
<1>5. lookup_range(key)[1] \in Nat
  BY <1>1, <1>4, LookupInside
<1> HIDE DEF key
<1>6. OthersStand(t)
  BY <1>1, <1>2 DEF OthersStand
<1>7. RangesLookedUp'
  BY <1>1, <1>2, <1>3, <1>5, <1>6, RangesKept DEF key
<1>8. ASSUME NEW m \in Matches PROVE Due(m)' <=> Due(m)
  <2>1. ProbeRowOf(m)' = ProbeRowOf(m) /\ BuildRowOf(m)' = BuildRowOf(m)
    BY <1>3, MatchesKept
  <2>2. Handled(ProbeRowOf(m))' <=> Handled(ProbeRowOf(m))
    <3>1. \A u \in Threads : pc'[u] \in {"rows", "compare"} <=> pc[u] \in {"rows", "compare"}
      BY <1>1, <1>2
    <3> QED
      BY <1>2, <2>1, <3>1 DEF Handled, InMorsel
  <2>3. \A u \in Threads \ {t} :
          (pc'[u] = "compare" /\ row'[u] = ProbeRowOf(m) /\ Compared(u, BuildRowOf(m))') <=>
          (pc[u] = "compare" /\ row[u] = ProbeRowOf(m) /\ Compared(u, BuildRowOf(m)))
    BY <1>1, <1>2, <1>3, <2>1 DEF Compared
  <2>4. row[t] = ProbeRowOf(m) => ~Compared(t, BuildRowOf(m))'
    <3> SUFFICES ASSUME row[t] = ProbeRowOf(m), Compared(t, BuildRowOf(m))' PROVE FALSE
      OBVIOUS
    <3>1. PICK i \in 0 .. lookup_range(key)[1] - 1 : tuples[i].value = BuildRowOf(m)
      BY <1>1, <1>2, <1>3, <2>1 DEF Compared
    <3>2. PICK j \in lookup_range(key)[1] .. lookup_range(key)[2] - 1 :
            j \in 0 .. total - 1 /\ tuples[j].value = BuildRowOf(m)
      BY <1>1, MatchIndex DEF key
    <3>3. i \in 0 .. total - 1
      <4>1. i < j /\ total \in Nat
        BY <1>1, <1>5, <3>1, <3>2, DirectoryFacts
      <4> QED
        BY <1>5, <3>1, <3>2, <4>1
    <3>4. i = j
      BY <1>1, <3>1, <3>2, <3>3, TableFacts
    <3> QED
      BY <1>5, <3>1, <3>2, <3>4
  <2> QED
    BY <1>1, <1>2, <2>1, <2>2, <2>3, <2>4 DEF Due
<1> QED
  BY <1>7, <1>8

\* The next row: the row in hand is handled, all else stands.
LEMMA DueNextRow ==
  ASSUME IInv, stage = "probe", stage' = "probe", UNCHANGED <<job, tuples>>,
         NEW t \in Threads, pc[t] \in {"rows", "compare"}, NextRow(t), OthersStand(t),
         NEW m \in Matches
  PROVE  Due(m)' <=> \/ Handled(ProbeRowOf(m)) \/ ProbeRowOf(m) = row[t]
                     \/ \E u \in Threads \ {t} : /\ pc[u] = "compare"
                                                 /\ row[u] = ProbeRowOf(m)
                                                 /\ Compared(u, BuildRowOf(m))
<1>1. ProbeRowOf(m)' = ProbeRowOf(m) /\ BuildRowOf(m)' = BuildRowOf(m)
  BY MatchesKept
<1>2. Handled(ProbeRowOf(m))' <=> Handled(ProbeRowOf(m)) \/ ProbeRowOf(m) = row[t]
  <2>1. PICK r : r = ProbeRowOf(m)
    OBVIOUS
  <2>2. r \in Nat
    <3>1. Len(ProbeColumn) \in Nat
      BY Columns DEF IInv
    <3> QED
      BY <2>1, <3>1, MatchRows DEF Row
  <2>3. Handled(r)' <=> Handled(r) \/ r = row[t]
    BY <2>2, HandledNext
  <2> QED
    BY <1>1, <2>1, <2>3 DEF Handled, InMorsel
<1>3. \A u \in Threads \ {t} :
        (pc'[u] = "compare" /\ row'[u] = ProbeRowOf(m) /\ Compared(u, BuildRowOf(m))') <=>
        (pc[u] = "compare" /\ row[u] = ProbeRowOf(m) /\ Compared(u, BuildRowOf(m)))
  BY <1>1 DEF Compared, OthersStand
<1>4. pc'[t] # "compare"
  BY DEF NextRow, IInv, Types, MorselTypes
<1> QED
  BY <1>1, <1>2, <1>3, <1>4 DEF Due

\* A row that is skipped has no match: its key is null, or the lookup of its
\* key returned nothing.
LEMMA SkipRow ==
  ASSUME ResultInv, NEW t \in Threads, ProbeRow(t), NextRow(t), UNCHANGED <<idx, idx_end>>,
         LET key == get_value(ProbeColumn, row[t])
         IN  ~(key # Null /\ lookup_range(key)[1] < lookup_range(key)[2])
  PROVE  /\ \A m \in Matches : Due(m)' <=> Due(m)
         /\ RangesLookedUp'
<1> DEFINE key == get_value(ProbeColumn, row[t])
<1>1. /\ TableInv /\ IInv /\ RangesLookedUp /\ stage = "probe" /\ stage' = "probe" /\ pc[t] = "rows"
      /\ pc \in [Threads -> Steps] /\ row \in [Threads -> Nat]
  BY DEF ResultInv, TableInv, CollectInv, IInv, Types, MorselTypes, ProbeRow
<1>2. UNCHANGED <<job, bucket_cnt, directory, tuples, tuple_count, stage>>
  BY DEF ProbeRow, jobVars, mapVars
<1>3. OthersStand(t) /\ pc'[t] \notin {"compare", "thrown"}
  BY <1>1 DEF NextRow, OthersStand
<1>4. RangesLookedUp'
  BY <1>1, <1>2, <1>3, RangesKept
<1>5. ASSUME NEW m \in Matches PROVE Due(m)' <=> Due(m)
  <2>1. ProbeRowOf(m) # row[t]
    <3> SUFFICES ASSUME ProbeRowOf(m) = row[t] PROVE FALSE
      OBVIOUS
    <3>1. key # Null
      BY MatchRows
    <3>2. PICK j \in lookup_range(key)[1] .. lookup_range(key)[2] - 1 : j \in 0 .. total - 1
      BY <1>1, MatchIndex
    <3>3. key \in Keys
      BY <1>1, <3>1, RowRead
    <3> HIDE DEF key
    <3>4. lookup_range(key)[1] \in Nat /\ lookup_range(key)[2] \in 0 .. total /\ total \in Nat
      BY <1>1, <3>3, LookupInside, DirectoryFacts
    <3>5. lookup_range(key)[1] < lookup_range(key)[2]
      BY <3>2, <3>4
    <3> QED
      BY <3>1, <3>5 DEF key
  <2>2. Due(m)' <=> \/ Handled(ProbeRowOf(m)) \/ ProbeRowOf(m) = row[t]
                    \/ \E u \in Threads \ {t} : /\ pc[u] = "compare"
                                                /\ row[u] = ProbeRowOf(m)
                                                /\ Compared(u, BuildRowOf(m))
    BY <1>1, <1>2, <1>3, DueNextRow
  <2> QED
    BY <1>1, <2>1, <2>2 DEF Due
<1> QED
  BY <1>4, <1>5

\* One comparison makes one pair due that was not: that of the tuple and the
\* row compared.
LEMMA CompareTuple ==
  ASSUME ResultInv, NEW t \in Threads, ProbeTuple(t),
         NEW pair, pair = OutputPair(tuples[idx[t]].value, row[t])
  PROVE  /\ ~Due(pair)
         /\ \A m \in Matches : Due(m)' <=> Due(m) \/ m = pair
         /\ RangesLookedUp'
         /\ idx[t] < tuple_count
<1> DEFINE key == get_value(ProbeColumn, row[t])
           v == tuples[idx[t]].value
<1>1. /\ TableInv /\ IInv /\ RangesLookedUp /\ stage = "probe" /\ stage' = "probe" /\ pc[t] = "compare"
      /\ pc \in [Threads -> Steps] /\ row \in [Threads -> Nat] /\ row_end \in [Threads -> Nat]
      /\ idx \in [Threads -> Nat] /\ idx_end \in [Threads -> Nat]
  BY DEF ResultInv, TableInv, CollectInv, IInv, Types, MorselTypes, ProbeTypes, ProbeTuple
<1>2. /\ UNCHANGED <<job, bucket_cnt, directory, tuples, tuple_count, stage, idx_end>>
      /\ tuple_count = total /\ total \in Nat
  BY <1>1, DirectoryFacts DEF ProbeTuple, jobVars, mapVars
<1>3. /\ idx[t] \in 0 .. total - 1
      /\ \A i \in 0 .. total - 1 : tuples[i].value = v => i = idx[t]
  <2>1. PICK tuple : tuple = tuples[idx[t]]
    OBVIOUS
  <2>2. PICK q : q = OutputPair(tuple.value, row[t])
    OBVIOUS
  <2> QED
    BY <1>1, <2>1, <2>2, ComparedTuple
<1>4. BuildRowOf(pair) = v /\ ProbeRowOf(pair) = row[t]
  BY PairRows
<1>5. \A m \in Matches : m = pair <=> BuildRowOf(m) = v /\ ProbeRowOf(m) = row[t]
  BY <1>4, MatchRows
<1>6. /\ key # Null /\ lookup_range(key)[1] <= idx[t]
      /\ idx[t] < idx_end[t] /\ idx_end[t] = lookup_range(key)[2]
  BY <1>1 DEF RangesLookedUp
<1>7. /\ idx' = [idx EXCEPT ![t] = @ + 1]
      /\ \/ idx[t] + 1 < idx_end[t] /\ UNCHANGED <<pc, next_row, row, row_end>>
         \/ ~(idx[t] + 1 < idx_end[t]) /\ NextRow(t)
  BY <1>2, <1>3 DEF ProbeTuple, morselVars
<1>8. OthersStand(t)
  BY <1>1, <1>2, <1>7 DEF OthersStand, NextRow
<1>9. ~Due(pair)
  <2>1. ~Handled(row[t])
    <3>1. row[t] < row_end[t] /\ row[t] \in Nat
      BY <1>1 DEF IInv, MorselsDisjoint
    <3>2. InMorsel(t, row[t])
      BY <1>1, <3>1 DEF InMorsel
    <3> QED
      BY <3>2 DEF Handled
  <2>2. ASSUME NEW u \in Threads, pc[u] = "compare", row[u] = row[t] PROVE u = t
    BY <1>1, <2>2 DEF IInv, MorselsDisjoint
  <2>3. ~Compared(t, v)
    <3> SUFFICES ASSUME NEW i \in 0 .. idx[t] - 1, tuples[i].value = v PROVE FALSE
      BY DEF Compared
    <3> HIDE DEF v
    <3>1. i \in 0 .. total - 1 /\ i # idx[t]
      BY <1>2, <1>3
    <3> QED
      BY <1>3, <3>1
  <2> QED
    BY <1>4, <2>1, <2>2, <2>3 DEF Due
<1>10. RangesLookedUp'
  <2>1. CASE idx[t] + 1 < idx_end[t] /\ UNCHANGED <<pc, next_row, row, row_end>>
    <3>1. /\ key # Null /\ lookup_range(key)[1] <= idx'[t]
          /\ idx'[t] < idx_end'[t] /\ idx_end'[t] = lookup_range(key)[2]
          /\ get_value(ProbeColumn, row'[t]) = key /\ pc'[t] = "compare"
      <4>1. idx'[t] = idx[t] + 1 /\ idx[t] \in Nat
        BY <1>1, <1>7
      <4>2. lookup_range(key)[1] \in Nat
        <5>1. key \in Keys
          BY <1>1, <1>6, RowRead
        <5> HIDE DEF key
        <5> QED
          BY <1>1, <5>1, LookupInside
      <4>3. get_value(ProbeColumn, row'[t]) = key
        BY <2>1
      <4> HIDE DEF key
      <4>4. lookup_range(key)[1] <= idx[t] + 1
        BY <1>6, <4>1, <4>2
      <4> QED
        BY <1>1, <1>2, <1>6, <2>1, <4>1, <4>3, <4>4
    <3> HIDE DEF key
    <3> QED
      BY <1>1, <1>2, <1>8, <3>1, RangesKept
  <2>2. CASE NextRow(t)
    <3>1. pc'[t] \notin {"compare", "thrown"}
      BY <1>1, <2>2 DEF NextRow
    <3> QED
      BY <1>1, <1>2, <1>8, <3>1, RangesKept
  <2> QED
    BY <1>7, <2>1, <2>2
<1>11. ASSUME NEW m \in Matches PROVE Due(m)' <=> Due(m) \/ m = pair
  <2>0. m = pair <=> BuildRowOf(m) = v /\ ProbeRowOf(m) = row[t]
    BY <1>5
  <2>1. ProbeRowOf(m)' = ProbeRowOf(m) /\ BuildRowOf(m)' = BuildRowOf(m)
    BY <1>2, MatchesKept
  <2>2. CASE idx[t] + 1 < idx_end[t] /\ UNCHANGED <<pc, next_row, row, row_end>>
    <3>1. Handled(ProbeRowOf(m))' <=> Handled(ProbeRowOf(m))
      BY <2>1, <2>2 DEF Handled, InMorsel
    <3>2. \A u \in Threads \ {t} : Compared(u, BuildRowOf(m))' <=> Compared(u, BuildRowOf(m))
      BY <1>2, <1>8, <2>1 DEF Compared, OthersStand
    <3>3. Compared(t, BuildRowOf(m))' <=> Compared(t, BuildRowOf(m)) \/ BuildRowOf(m) = v
      <4>1. idx'[t] = idx[t] + 1 /\ idx[t] \in Nat
        BY <1>1, <1>7
      <4>2. \A i : i \in 0 .. idx'[t] - 1 <=> i \in 0 .. idx[t] - 1 \/ i = idx[t]
        BY <4>1
      <4> QED
        BY <1>2, <2>1, <4>2 DEF Compared
    <3> HIDE DEF v
    <3> QED
      BY <1>1, <2>0, <2>1, <2>2, <3>1, <3>2, <3>3 DEF Due
  <2>3. CASE ~(idx[t] + 1 < idx_end[t]) /\ NextRow(t)
    <3>1. Due(m)' <=> \/ Handled(ProbeRowOf(m)) \/ ProbeRowOf(m) = row[t]
                      \/ \E u \in Threads \ {t} : /\ pc[u] = "compare"
                                                  /\ row[u] = ProbeRowOf(m)
                                                  /\ Compared(u, BuildRowOf(m))
      BY <1>1, <1>2, <1>8, <2>3, DueNextRow
    <3>2. ASSUME ProbeRowOf(m) = row[t] PROVE Compared(t, BuildRowOf(m)) \/ BuildRowOf(m) = v
      <4>1. PICK j \in lookup_range(key)[1] .. lookup_range(key)[2] - 1 :
              j \in 0 .. total - 1 /\ tuples[j].value = BuildRowOf(m)
        BY <1>1, <3>2, MatchIndex
      <4>2. j < lookup_range(key)[2]
        <5>1. key \in Keys
          BY <1>1, <1>6, RowRead
        <5> HIDE DEF key
        <5>2. lookup_range(key)[1] \in Nat /\ lookup_range(key)[2] \in Int
          BY <1>1, <1>2, <5>1, LookupInside
        <5> QED
          BY <4>1, <5>2
      <4>3. j \in Nat /\ idx[t] \in Nat /\ idx_end[t] \in Nat /\ j < idx_end[t]
        BY <1>1, <1>2, <1>6, <4>1, <4>2
      <4>4. j \in 0 .. idx[t] - 1 \/ j = idx[t]
        BY <2>3, <4>3
      <4> QED
        BY <4>1, <4>4 DEF Compared
    <3> HIDE DEF v
    <3> QED
      BY <1>1, <2>0, <3>1, <3>2 DEF Due
  <2> QED
    BY <1>7, <2>2, <2>3
<1> QED
  BY <1>2, <1>3, <1>9, <1>10, <1>11

LEMMA ResultProbe ==
  ASSUME ResultInv, NEW t \in Threads, ProbeStep(t)
  PROVE  ResultInv'
<1>1. /\ TableInv /\ PairsDistinct /\ PairsExact /\ RangesLookedUp /\ Types
      /\ stage = "probe" /\ stage' = "probe" /\ job' = job /\ results' = results
  BY DEF ResultInv, TableInv, CollectInv, IInv, ProbeStep, ProbeRow, ProbeTuple, jobVars
<1>2. TableInv'
  <2>1. Thread(t)
    BY DEF Thread
  <2> QED
    BY <1>1, <2>1, TableStep DEF Next
<1>3. NothingGathered' /\ Gathered' /\ Returned'
  BY <1>1 DEF ResultInv, NothingGathered, Gathered, Returned
<1>4. CASE ProbeRow(t)
  <2>1. local_results' = local_results
    BY <1>4 DEF ProbeRow
  <2>2. (\A m \in Matches : Due(m)' <=> Due(m)) /\ RangesLookedUp'
    <3>1. CASE pc'[t] = "compare"
      BY <1>4, <3>1, StartCompare
    <3>2. CASE pc'[t] # "compare"
      <4>1. pc \in [Threads -> Steps]
        BY <1>1 DEF Types, MorselTypes
      <4>2. /\ NextRow(t) /\ UNCHANGED <<idx, idx_end>>
            /\ LET key == get_value(ProbeColumn, row[t])
               IN  ~(key # Null /\ lookup_range(key)[1] < lookup_range(key)[2])
        BY <1>4, <3>2, <4>1 DEF ProbeRow
      <4> QED
        BY <1>4, <4>2, SkipRow
    <3> QED
      BY <3>1, <3>2
  <2>3. PairsDistinct' /\ PairsExact'
    BY <1>1, <2>1, <2>2, QuietStep
  <2> QED
    BY <1>2, <1>3, <2>2, <2>3 DEF ResultInv
<1>5. CASE ProbeTuple(t)
  <2>1. PICK tuple : tuple = tuples[idx[t]]
    OBVIOUS
  <2>2. PICK pair : pair = OutputPair(tuple.value, row[t])
    OBVIOUS
  <2>3. pair = OutputPair(tuples[idx[t]].value, row[t])
    BY <2>1, <2>2
  <2>4. /\ ~Due(pair)
        /\ \A m \in Matches : Due(m)' <=> Due(m) \/ m = pair
        /\ RangesLookedUp'
        /\ idx[t] < tuple_count
    BY <1>5, <2>3, CompareTuple
  <2>5. pair \in Matches <=> SameKey(tuple, get_value(ProbeColumn, row[t]))
    BY <1>1, <1>5, <2>1, <2>2, ComparedTuple DEF ProbeTuple
  <2>6. CASE pair \in Matches
    <3>1. Emits(t, pair)
      BY <1>5, <2>1, <2>2, <2>4, <2>5, <2>6 DEF ProbeTuple, Emits
    <3>2. PairsDistinct' /\ PairsExact'
      BY <1>1, <2>4, <2>6, <3>1, EmitStep
    <3> QED
      BY <1>2, <1>3, <2>4, <3>2 DEF ResultInv
  <2>7. CASE pair \notin Matches
    <3>1. local_results' = local_results
      <4>1. local_results' = [local_results EXCEPT ![t] = @]
        BY <1>5, <2>1, <2>4, <2>5, <2>7 DEF ProbeTuple
      <4> QED
        BY <1>1, <4>1 DEF Types, ProbeTypes
    <3>2. \A m \in Matches : Due(m)' <=> Due(m)
      BY <2>4, <2>7
    <3>3. PairsDistinct' /\ PairsExact'
      BY <1>1, <3>1, <3>2, QuietStep
    <3> QED
      BY <1>2, <1>3, <2>4, <3>3 DEF ResultInv
  <2> QED
    BY <2>6, <2>7
<1> QED
  BY <1>4, <1>5 DEF ProbeStep

LEMMA ResultClaim ==
  ASSUME ResultInv, NEW t \in Threads, Claim(t), stage = "probe"
  PROVE  ResultInv'
<1>1. /\ TableInv /\ IInv /\ PairsDistinct /\ PairsExact /\ RangesLookedUp
      /\ stage' = "probe"
      /\ UNCHANGED <<job, results, local_results, bucket_cnt, directory, tuple_count>>
  BY DEF ResultInv, TableInv, CollectInv, Claim, jobVars, probeVars, mapVars
<1>2. TableInv'
  <2>1. Thread(t)
    BY DEF Thread, BuildStep
  <2> QED
    BY <1>1, <2>1, TableStep DEF Next
<1>3. PairsDistinct' /\ PairsExact'
  BY <1>1, DueClaim, QuietStep
<1>4. OthersStand(t) /\ pc'[t] \notin {"compare", "thrown"}
  <2>1. pc \in [Threads -> Steps] /\ row \in [Threads -> Nat]
    BY <1>1 DEF IInv, Types, MorselTypes
  <2> QED
    BY <2>1 DEF Claim, OthersStand, probeVars
<1>5. RangesLookedUp'
  BY <1>1, <1>4, RangesKept
<1>6. NothingGathered' /\ Gathered' /\ Returned'
  BY <1>1 DEF ResultInv, NothingGathered, Gathered, Returned
<1> QED
  BY <1>2, <1>3, <1>5, <1>6 DEF ResultInv
-----------------------------------------------------------------------------
(* The main thread after the merge.                                        *)

\* The probe begins with nothing emitted and nothing due.
LEMMA ProbeBegins ==
  ASSUME ResultInv, JoinMerge
  PROVE  ResultInv'
<1>1. /\ stage = "merge" /\ stage' = "probe" /\ next_row' = 0
      /\ local_results' = Each(<<>>) /\ pc' = Each("claim")
      /\ job' = job /\ results' = results /\ Types
  BY DEF JoinMerge, jobVars, ResultInv, TableInv, CollectInv, IInv
<1>2. TableInv'
  BY TableStep DEF ResultInv, Next, Main
<1>3. \A t \in Threads : Pairs(t)' = {}
  BY <1>1 DEF Pairs, Each
<1>4. PairsDistinct'
  BY <1>3 DEF PairsDistinct
<1>5. \A m \in Matches : ~Due(m)'
  <2> SUFFICES ASSUME NEW m \in Matches PROVE ~Due(m)'
    OBVIOUS
  <2>1. ProbeRowOf(m)' = ProbeRowOf(m)
    BY <1>1, MatchesKept
  <2>2. ~(ProbeRowOf(m) < 0)
    <3>1. Len(ProbeColumn) \in Nat
      BY <1>1, Columns
    <3> QED
      BY <3>1, MatchRows DEF Row
  <2>3. \A t \in Threads : pc'[t] = "claim"
    BY <1>1 DEF Each
  <2> QED
    BY <1>1, <2>1, <2>2, <2>3 DEF Due, Handled
<1>6. PairsExact'
  BY <1>1, <1>3, <1>5, MatchesKept DEF PairsExact
<1>7. RangesLookedUp'
  BY <1>1 DEF RangesLookedUp, Each
<1> QED
  BY <1>1, <1>2, <1>4, <1>6, <1>7 DEF ResultInv, NothingGathered, Gathered, Returned

\* When all probe threads have left, every match is due.
LEMMA ProbeEnds ==
  ASSUME ResultInv, JoinProbe
  PROVE  ResultInv'
<1>1. /\ stage = "probe" /\ stage' = "gather" /\ tally' = <<0, 0>> /\ Exited
      /\ UNCHANGED <<job, results, local_results>>
      /\ CollectInv /\ IInv /\ Types /\ ExitAtEnd /\ results = <<>>
  BY DEF JoinProbe, jobVars, probeVars, ResultInv, TableInv, CollectInv, IInv, NothingGathered
<1>2. TableInv'
  BY TableStep DEF ResultInv, Next, Main
<1>3. Matches' = Matches /\ \A t : Pairs(t)' = Pairs(t)
  BY <1>1, MatchesKept DEF Pairs
<1>4. \A m \in Matches : Due(m)
  <2> SUFFICES ASSUME NEW m \in Matches PROVE Handled(ProbeRowOf(m))
    BY DEF Due
  <2>1. Len(ProbeColumn) \in Nat
    BY <1>1, Columns
  <2>2. ProbeRowOf(m) \in Nat /\ ProbeRowOf(m) < MorselRows
    BY <1>1, <2>1, MatchRows DEF Row, MorselRows
  <2>3. PICK r : r = ProbeRowOf(m)
    OBVIOUS
  <2> QED
    BY <1>1, <2>2, <2>3, HandledAll
<1>5. PairsDistinct' /\ PairsExact'
  BY <1>1, <1>3, <1>4 DEF ResultInv, PairsDistinct, PairsExact
<1>6. Gathered'
  <2>1. /\ \A k : k \notin 1 .. Len(<<>>)
        /\ \A t \in Threads : ~(t < 0)
        /\ tally'[1] = 0
    BY <1>1, SizesAssumption DEF Threads
  <2> QED
    BY <1>1, <2>1 DEF Gathered
<1> QED
  BY <1>1, <1>2, <1>5, <1>6 DEF ResultInv, RangesLookedUp, NothingGathered, Returned

\* merge_results appends pairs that are not there yet.
LEMMA GatherPart ==
  ASSUME ResultInv, Gather
  PROVE  ResultInv'
<1> DEFINE i == tally[1]
           n == Len(results)
           part == local_results[i]
           q == results \o part
<1>1. /\ stage = "gather" /\ stage' = "gather" /\ results' = q /\ tally'[1] = i + 1
      /\ UNCHANGED <<job, local_results>>
      /\ i \in Threads /\ Types /\ PairsDistinct /\ Gathered
  BY SizesAssumption DEF Gather, Part, jobVars, probeVars, ResultInv, TableInv, CollectInv,
     IInv, Types, MainTypes, Threads
<1>2. TableInv'
  BY TableStep DEF ResultInv, Next, Main
<1>3. Matches' = Matches /\ \A t : Pairs(t)' = Pairs(t)
  BY <1>1, MatchesKept DEF Pairs
<1>4. PairsDistinct' /\ PairsExact'
  BY <1>1, <1>3 DEF ResultInv, PairsDistinct, PairsExact
<1>5. /\ n \in Nat /\ Len(part) \in Nat
      /\ Len(q) = n + Len(part)
      /\ \A k \in 1 .. n : q[k] = results[k]
      /\ \A k \in 1 .. Len(part) : q[n + k] = part[k]
  <2>1. results \in Seq(Nat \X Nat) /\ part \in Seq(Nat \X Nat)
    BY <1>1 DEF Types, MainTypes, ProbeTypes
  <2> HIDE DEF part
  <2> QED
    BY <2>1
<1> HIDE DEF n, q
<1>6. /\ \A k \in 1 .. Len(q) : \/ k \in 1 .. n /\ q[k] = results[k]
                                \/ \E l \in Pairs(i) : k = n + l /\ q[k] = local_results[i][l]
      /\ \A k \in 1 .. n : k \in 1 .. Len(q) /\ q[k] = results[k]
      /\ \A l \in Pairs(i) : n + l \in 1 .. Len(q) /\ q[n + l] = local_results[i][l]
  <2>1. ASSUME NEW k \in 1 .. Len(q), k \notin 1 .. n
        PROVE  \E l \in Pairs(i) : k = n + l /\ q[k] = local_results[i][l]
    <3>1. PICK l : l = k - n
      OBVIOUS
    <3>2. l \in 1 .. Len(part) /\ k = n + l
      BY <1>5, <2>1, <3>1
    <3> QED
      BY <1>5, <3>2 DEF Pairs
  <2>2. \A k \in 1 .. n : k \in 1 .. Len(q) /\ q[k] = results[k]
    BY <1>5
  <2>3. \A l \in Pairs(i) : n + l \in 1 .. Len(q) /\ q[n + l] = local_results[i][l]
    BY <1>5 DEF Pairs
  <2> QED
    BY <1>5, <2>1, <2>2, <2>3
<1>7. \A k \in 1 .. n : \E t \in Threads : t < i /\ \E l \in Pairs(t) : results[k] = local_results[t][l]
  BY <1>1 DEF Gathered, n
<1>8. \A k \in 1 .. n : \A l \in Pairs(i) : results[k] # local_results[i][l]
  <2> SUFFICES ASSUME NEW k \in 1 .. n, NEW l \in Pairs(i), results[k] = local_results[i][l]
               PROVE  FALSE
    OBVIOUS
  <2>1. PICK t \in Threads : t < i /\ \E j \in Pairs(t) : results[k] = local_results[t][j]
    BY <1>7
  <2>2. PICK j \in Pairs(t) : results[k] = local_results[t][j]
    BY <2>1
  <2>3. t = i
    BY <1>1, <2>2 DEF PairsDistinct
  <2> QED
    BY <1>1, <2>1, <2>3, SizesAssumption DEF Threads
<1>9. \A k, l \in 1 .. Len(q) : q[k] = q[l] => k = l
  <2> SUFFICES ASSUME NEW k \in 1 .. Len(q), NEW l \in 1 .. Len(q), q[k] = q[l] PROVE k = l
    OBVIOUS
  <2>1. CASE k \in 1 .. n /\ l \in 1 .. n
    BY <1>1, <1>6, <2>1 DEF Gathered, n
  <2>2. CASE k \in 1 .. n /\ l \notin 1 .. n
    BY <1>6, <1>8, <2>2
  <2>3. CASE k \notin 1 .. n /\ l \in 1 .. n
    BY <1>6, <1>8, <2>3
  <2>4. CASE k \notin 1 .. n /\ l \notin 1 .. n
    <3>1. PICK a \in Pairs(i) : k = n + a /\ q[k] = local_results[i][a]
      BY <1>6, <2>4
    <3>2. PICK b \in Pairs(i) : l = n + b /\ q[l] = local_results[i][b]
      BY <1>6, <2>4
    <3>3. a = b
      BY <1>1, <3>1, <3>2 DEF PairsDistinct
    <3> QED
      BY <3>1, <3>2, <3>3
  <2> QED
    BY <2>1, <2>2, <2>3, <2>4
<1>10. \A t \in Threads : t < i + 1 <=> t < i \/ t = i
  BY <1>1, SizesAssumption DEF Threads
<1>11. ASSUME NEW k \in 1 .. Len(q)
       PROVE  \E t \in Threads : t < i + 1 /\ \E l \in Pairs(t) : q[k] = local_results[t][l]
  <2>1. CASE k \in 1 .. n
    <3>1. PICK t \in Threads : t < i /\ \E l \in Pairs(t) : results[k] = local_results[t][l]
      BY <1>7, <2>1
    <3>2. t < i + 1
      BY <1>10, <3>1
    <3> QED
      BY <1>6, <2>1, <3>1, <3>2
  <2>2. CASE k \notin 1 .. n
    <3>1. \E l \in Pairs(i) : q[k] = local_results[i][l]
      BY <1>6, <2>2
    <3> QED
      BY <1>1, <1>10, <3>1
  <2> QED
    BY <2>1, <2>2
<1>12. ASSUME NEW t \in Threads, t < i + 1, NEW l \in Pairs(t)
       PROVE  \E k \in 1 .. Len(q) : q[k] = local_results[t][l]
  <2>1. CASE t < i
    <3>1. PICK k \in 1 .. n : results[k] = local_results[t][l]
      BY <1>1, <2>1 DEF Gathered, n
    <3> QED
      BY <1>6, <3>1
  <2>2. CASE t = i
    BY <1>6, <2>2
  <2> QED
    BY <1>10, <1>12, <2>1, <2>2
<1>13. Gathered'
  BY <1>1, <1>3, <1>9, <1>11, <1>12 DEF Gathered
<1> QED
  BY <1>1, <1>2, <1>4, <1>13 DEF ResultInv, RangesLookedUp, NothingGathered, Returned

\* What is gathered at the end enumerates the matches.
LEMMA ReturnResult ==
  ASSUME ResultInv, Return
  PROVE  ResultInv' /\ Abstract!Enumerates(results, Matches)
<1>1. /\ stage = "gather" /\ stage' = "done" /\ tally[1] = NumPartitions
      /\ UNCHANGED <<job, results>>
      /\ Types /\ PairsExact /\ Gathered
  BY DEF Return, jobVars, ResultInv, TableInv, CollectInv, IInv
<1>2. TableInv'
  BY TableStep DEF ResultInv, Next, Main
<1>3. \A t \in Threads : t < tally[1]
  BY <1>1, SizesAssumption DEF Threads
<1>4. /\ results \in Seq(Nat \X Nat) /\ Len(results) \in Nat
      /\ DOMAIN results = 1 .. Len(results)
  BY <1>1 DEF Types, MainTypes
<1>5. \A k \in 1 .. Len(results) : results[k] \in Matches
  <2> TAKE k \in 1 .. Len(results)
  <2>1. PICK t \in Threads : \E l \in Pairs(t) : results[k] = local_results[t][l]
    BY <1>1 DEF Gathered
  <2> QED
    BY <1>1, <2>1 DEF PairsExact
<1>6. \A m \in Matches : \E k \in 1 .. Len(results) : results[k] = m
  <2> TAKE m \in Matches
  <2>1. PICK t \in Threads : \E l \in Pairs(t) : local_results[t][l] = m
    BY <1>1 DEF PairsExact
  <2>2. PICK l \in Pairs(t) : local_results[t][l] = m
    BY <2>1
  <2> QED
    BY <1>1, <1>3, <2>2 DEF Gathered
<1>7. Numbers(results, Len(results), Matches)
  <2>1. results \in [1 .. Len(results) -> Matches]
    BY <1>4, <1>5
  <2> QED
    BY <1>1, <1>6, <2>1 DEF Numbers, Gathered
<1>8. Len(results) = Cardinality(Matches)
  <2> DEFINE n == Len(results)
             S == Matches
  <2>1. n \in Nat /\ Numbers(results, n, S)
    BY <1>4, <1>7
  <2> HIDE DEF n, S
  <2>2. Cardinality(S) = n
    BY <2>1, CardNumbered
  <2> QED
    BY <2>2 DEF n, S
<1>9. Abstract!Enumerates(results, Matches)
  <2>1. { results[k] : k \in 1 .. Len(results) } = Matches
    BY <1>5, <1>6
  <2>2. { results[k] : k \in DOMAIN results } = Matches
    BY <1>4, <2>1
  <2>3. Abstract!Cardinality(Matches) = Cardinality(Matches)
    BY DEF Abstract!Cardinality, Cardinality
  <2> QED
    BY <1>8, <2>2, <2>3 DEF Abstract!Enumerates
<1>10. Returned'
  BY <1>1, <1>9, MatchesKept DEF Returned, Abstract!Enumerates
<1> QED
  BY <1>1, <1>2, <1>9, <1>10 DEF ResultInv, PairsDistinct, PairsExact, RangesLookedUp,
     NothingGathered, Gathered
-----------------------------------------------------------------------------
(* The theorems.                                                           *)

LEMMA ResultInit == Init => ResultInv
<1> SUFFICES ASSUME Init PROVE ResultInv
  OBVIOUS
<1>1. stage = "idle" /\ TableInv
  BY TableInit DEF Init
<1> QED
  BY <1>1 DEF ResultInv, PairsDistinct, PairsExact, RangesLookedUp, NothingGathered, Gathered,
     Returned

LEMMA ResultMain ==
  ASSUME ResultInv, Main
  PROVE  ResultInv'
<1>1. TableInv'
  BY TableStep DEF ResultInv, Next
<1>2. CASE JoinBuild \/ Tally \/ ForkMerge
  <2>1. stage \in {"build", "tally"} /\ stage' \in {"tally", "merge"} /\ results' = results
    BY <1>2 DEF JoinBuild, Tally, ForkMerge
  <2> QED
    BY <1>1, <2>1 DEF ResultInv, PairsDistinct, PairsExact, RangesLookedUp, NothingGathered,
       Gathered, Returned
<1> QED
  BY <1>2, ProbeBegins, ProbeEnds, GatherPart, ReturnResult DEF Main

LEMMA ResultStep == ResultInv /\ [Next]_vars => ResultInv'
<1> SUFFICES ASSUME ResultInv, [Next]_vars PROVE ResultInv'
  OBVIOUS
<1>0. TableInv'
  BY TableStep DEF ResultInv
<1>1. ASSUME NEW j \in Jobs, Begin(j) PROVE ResultInv'
  <2>1. stage' = "build" /\ results' = <<>>
    BY <1>1 DEF Begin
  <2> QED
    BY <1>0, <2>1 DEF ResultInv, PairsDistinct, PairsExact, RangesLookedUp, NothingGathered,
       Gathered, Returned
<1>2. CASE Main
  BY <1>2, ResultMain
<1>3. ASSUME NEW t \in Threads, Thread(t) PROVE ResultInv'
  <2>1. CASE stage = "probe"
    <3>1. Claim(t) \/ ProbeStep(t)
      BY <1>3, <2>1 DEF Thread, BuildStep, ConsumeRow, MergeStep, CountTuple, NextCollector,
                        EndOfCount, LastCollectorDone, SetRange, ScatterTuple, EndOfScatter
    <3> QED
      BY <2>1, <3>1, ResultClaim, ResultProbe
  <2>2. CASE stage # "probe"
    <3>1. stage \in {"build", "merge"} /\ stage' = stage /\ results' = results
      BY <1>3, <2>2 DEF Thread, BuildStep, Claim, ConsumeRow, MergeStep, CountTuple,
         NextCollector, EndOfCount, LastCollectorDone, SetRange, ScatterTuple, EndOfScatter,
         ProbeStep, ProbeRow, ProbeTuple
    <3> QED
      BY <1>0, <3>1 DEF ResultInv, PairsDistinct, PairsExact, RangesLookedUp, NothingGathered,
         Gathered, Returned
  <2> QED
    BY <2>1, <2>2
<1>4. CASE UNCHANGED vars
  <2>1. UNCHANGED <<stage, pc, job, next_row, row, row_end, tally, tuples, tuple_count,
                    bucket_cnt, directory, idx, idx_end, local_results, results>>
    BY <1>4 DEF vars, jobVars, morselVars, tallyVars, mapVars, probeVars
  <2>2. /\ Matches' = Matches /\ \A t : Pairs(t)' = Pairs(t)
        /\ \A m : BuildRowOf(m)' = BuildRowOf(m) /\ ProbeRowOf(m)' = ProbeRowOf(m)
    BY <2>1, MatchesKept DEF Pairs
  <2>3. PairsDistinct' /\ NothingGathered' /\ Gathered'
    BY <2>1, <2>2 DEF ResultInv, PairsDistinct, NothingGathered, Gathered
  <2>4. Returned'
    BY <2>1, <2>2 DEF ResultInv, Returned, Abstract!Enumerates
  <2>5. PairsExact' /\ RangesLookedUp'
    <3>1. CASE stage = "probe"
      <4>1. \A m \in Matches : Due(m)' <=> Due(m)
        BY <2>1, <2>2 DEF Due, Handled, InMorsel, Compared
      <4>2. PairsExact'
        BY <2>1, <3>1, <4>1, QuietStep DEF ResultInv
      <4>3. RangesLookedUp'
        BY <2>1 DEF ResultInv, RangesLookedUp, lookup_range, bucket_range, could_contain,
           bucket_index_from_hash, get_value, ProbeColumn
      <4> QED
        BY <4>2, <4>3
    <3>2. CASE stage # "probe"
      BY <2>1, <2>2, <3>2 DEF ResultInv, PairsExact, RangesLookedUp
    <3> QED
      BY <3>1, <3>2
  <2> QED
    BY <1>0, <2>3, <2>4, <2>5 DEF ResultInv
<1> QED
  BY <1>1, <1>2, <1>3, <1>4 DEF Next, Finished

\* In every state of every run the pairs emitted by the probe threads are
\* exactly the matches whose comparison is over (probe_phase, merge_results).
THEOREM ResultInvariant == Spec => []ResultInv
<1> QED
  BY ResultInit, ResultStep, PTL DEF Spec

\* No thread ever throws: insert is called inside the array and operator[]
\* below the tuple count, whatever the schedule (hashmap_unchained.hpp).
NeverThrows == \A t \in Threads : pc[t] # "thrown"

THEOREM NoThreadThrows == Spec => []NeverThrows
<1>1. ResultInv => NeverThrows
  <2> SUFFICES ASSUME ResultInv, NEW t \in Threads, pc[t] = "thrown" PROVE FALSE
    BY DEF NeverThrows
  <2>1. IInv /\ Types /\ MergeExact /\ RangesLookedUp
    BY DEF ResultInv, TableInv, CollectInv, IInv
  <2>2. stage \in {"merge", "probe"}
    BY <2>1 DEF IInv, PcByStage, Types, MainTypes
  <2> QED
    BY <2>1, <2>2 DEF MergeExact, ThreadExact, RangesLookedUp
<1> QED
  BY <1>1, ResultInvariant, PTL

-----------------------------------------------------------------------------
(* The cursors.                                                            *)

\* A merge thread reads inside a collector, or has just read its last tuple.
ReadInside ==
  stage = "merge" =>
    \A p \in Threads : at[p] <= Len(collectors[src[p]][p]) + 1

LEMMA CollectorLength ==
  ASSUME IInv
  PROVE  \A t, p \in Threads : Len(collectors[t][p]) \in Nat
<1> SUFFICES ASSUME NEW t \in Threads, NEW p \in Threads
             PROVE  Len(collectors[t][p]) \in Nat
  OBVIOUS
<1>1. collectors[t][p] \in Seq(Tuples)
  BY DEF IInv, Types, SlabTypes
<1> QED
  BY <1>1

LEMMA ReadMerge ==
  ASSUME IInv, ReadInside, NEW q \in Threads, MergeStep(q)
  PROVE  ReadInside'
<1>1. /\ src \in [Threads -> Threads] /\ at \in [Threads -> Nat \ {0}]
      /\ 0 \in Threads
  <2>1. src \in [Threads -> Threads] /\ at \in [Threads -> Nat \ {0}]
    BY DEF IInv, Types, MergeTypes
  <2>2. 0 \in Threads
    BY SizesAssumption DEF Threads
  <2> QED
    BY <2>1, <2>2
<1>0. \A t, p \in Threads : Len(collectors[t][p]) \in Nat
  BY CollectorLength
<1>2. collectors' = collectors /\ stage = "merge"
  BY DEF MergeStep, CountTuple, NextCollector, EndOfCount, SetRange, ScatterTuple,
         EndOfScatter, LastCollectorDone, slabVars
<1>3. CASE CountTuple(q) \/ (ScatterTuple(q) /\ at' = [at EXCEPT ![q] = @ + 1])
  <2>1. /\ at' = [at EXCEPT ![q] = @ + 1] /\ src' = src
        /\ at[q] <= Len(collectors[src[q]][q])
    BY <1>3 DEF CountTuple, ScatterTuple, HasTuple
  <2>2. ASSUME NEW p \in Threads
        PROVE  at'[p] <= Len(collectors[src[p]][p]) + 1
    <3>1. src[p] \in Threads /\ at[p] \in Nat
      BY <1>1
    <3>2. Len(collectors[src[p]][p]) \in Nat
      BY <1>0, <3>1
    <3>3. at[p] <= Len(collectors[src[p]][p]) + 1
      BY <1>2 DEF ReadInside
    <3>4. at'[p] = IF p = q THEN at[q] + 1 ELSE at[p]
      BY <1>1, <2>1
    <3> QED
      BY <2>1, <3>1, <3>2, <3>3, <3>4
  <2> QED
    BY <1>2, <2>1, <2>2 DEF ReadInside
<1>4. CASE SetRange(q) \/ (ScatterTuple(q) /\ at' = at)
  <2>1. at' = at /\ src' = src
    BY <1>4 DEF SetRange, ScatterTuple
  <2> QED
    BY <1>2, <2>1 DEF ReadInside
<1>5. CASE NextCollector(q) \/ EndOfCount(q) \/ EndOfScatter(q)
  <2>1. PICK c \in Threads : src' = [src EXCEPT ![q] = c] /\ at' = [at EXCEPT ![q] = 1]
    <3>1. CASE NextCollector(q)
      <4>1. src[q] + 1 \in Threads
        <5>1. src[q] \in Threads /\ src[q] + 1 < NumPartitions
          BY <1>1, <3>1 DEF NextCollector
        <5>2. NumPartitions \in Nat
          BY SizesAssumption
        <5> QED
          BY <5>1, <5>2 DEF Threads
      <4> QED
        BY <3>1, <4>1 DEF NextCollector
    <3>2. CASE EndOfCount(q) \/ EndOfScatter(q)
      BY <1>1, <3>2 DEF EndOfCount, EndOfScatter, LastCollectorDone
    <3> QED
      BY <1>5, <3>1, <3>2
  <2>2. ASSUME NEW p \in Threads
        PROVE  at'[p] <= Len(collectors[src'[p]][p]) + 1
    <3>1. CASE p = q
      <4>1. at'[p] = 1 /\ src'[p] = c
        BY <1>1, <2>1, <3>1
      <4>2. Len(collectors[c][p]) \in Nat
        BY <1>0
      <4> QED
        BY <4>1, <4>2
    <3>2. CASE p # q
      <4>1. at'[p] = at[p] /\ src'[p] = src[p]
        BY <1>1, <2>1, <3>2
      <4> QED
        BY <1>2, <4>1 DEF ReadInside
    <3> QED
      BY <3>1, <3>2
  <2> QED
    BY <1>2, <2>2 DEF ReadInside
<1>6. ScatterTuple(q) => at' = [at EXCEPT ![q] = @ + 1] \/ at' = at
  BY DEF ScatterTuple
<1> QED
  BY <1>3, <1>4, <1>5, <1>6 DEF MergeStep

LEMMA ReadStep == IInv /\ ReadInside /\ [Next]_vars => ReadInside'
<1> SUFFICES ASSUME IInv, ReadInside, [Next]_vars PROVE ReadInside'
  OBVIOUS
<1>1. CASE ForkMerge
  <2>1. (\A t, p \in Threads : Len(collectors[t][p]) \in Nat) /\ 0 \in Threads
    BY CollectorLength, SizesAssumption DEF Threads
  <2>2. collectors' = collectors /\ src' = Each(0) /\ at' = Each(1)
    BY <1>1 DEF ForkMerge, slabVars
  <2> QED
    BY <2>1, <2>2 DEF ReadInside, Each
<1>2. CASE \E q \in Threads : MergeStep(q)
  BY <1>2, ReadMerge
<1>3. CASE (\E j \in Jobs : Begin(j)) \/ JoinBuild \/ Tally \/ JoinMerge \/ JoinProbe
             \/ Gather \/ Return
  BY <1>3 DEF Begin, JoinBuild, Tally, JoinMerge, JoinProbe, Gather, Return, ReadInside
<1>4. CASE \E t \in Threads : BuildStep(t) \/ ProbeStep(t)
  BY <1>4 DEF BuildStep, ProbeStep, Claim, ConsumeRow, ProbeRow, ProbeTuple, ReadInside
<1>5. CASE UNCHANGED vars
  BY <1>5 DEF vars, slabVars, mergeVars, ReadInside
<1> QED
  BY <1>1, <1>2, <1>3, <1>4, <1>5 DEF Next, Main, Thread, Finished

\* Every cell a merge thread is about to touch is there.
LEMMA CellsThere ==
  ASSUME TableInv, stage = "merge", NEW p \in Threads, NEW cell \in Access(p)
  PROVE  cell[2] \in Indices(cell[1])
<1>1. /\ CollectInv /\ bucket_cnt \in DirectorySizes /\ bucket_cnt \in Nat
      /\ total = Cardinality(Places)
  BY SizesAssumption DEF TableInv, CollectInv, IInv, Types, MapTypes, TotalExact
<1>2. CASE cell[1] \in {"directory", "write_cursor"} /\ cell[2] \in SlotsOf(p)
  BY <1>1, <1>2, SlotsInside DEF Indices
<1>3. CASE cell[1] = "tuples" /\ \E s \in SlotsOf(p) : cell[2] \in Start(s) .. Start(s + 1) - 1
  <2>1. PICK s \in SlotsOf(p) : cell[2] \in Start(s) .. Start(s + 1) - 1
    BY <1>3
  <2>2. Start(s) \in Nat /\ Start(s + 1) \in Nat /\ Start(s + 1) <= total
    BY <1>1, ScatteredBound
  <2>3. total \in Nat
    BY <1>1, PlacesFinite
  <2> QED
    BY <1>3, <2>1, <2>2, <2>3 DEF Indices
<1> QED
  BY <1>2, <1>3, AccessOwned

LEMMA CursorsInside ==
  ASSUME ResultInv, ReadInside
  PROVE  TypeOK
<1>1. /\ TableInv /\ CollectInv /\ IInv /\ Types /\ RangesLookedUp
      /\ NumPartitions \in Nat \ {0}
  BY SizesAssumption DEF ResultInv, TableInv, CollectInv, IInv
<1>2. RowsInside
  <2> SUFFICES ASSUME NEW t \in Threads, pc[t] \in {"rows", "compare"}
               PROVE  row[t] < MorselRows
    BY DEF RowsInside
  <2>1. /\ row[t] \in Nat /\ row_end[t] \in Nat
        /\ row[t] < row_end[t] /\ row_end[t] <= MorselRows
    BY <1>1 DEF IInv, Types, MorselTypes, MorselsDisjoint
  <2>2. MorselRows \in Nat
    BY <1>1, Columns
  <2> QED
    BY <2>1, <2>2
<1>3. MergeInside
  <2> SUFFICES ASSUME stage = "merge", NEW p \in Threads
               PROVE  /\ at[p] <= Len(collectors[src[p]][p]) + 1
                      /\ pc[p] = "ranges" => cur[p] <= total
                      /\ \A cell \in Access(p) : cell[2] \in Indices(cell[1])
    BY DEF MergeInside
  <2>1. at[p] <= Len(collectors[src[p]][p]) + 1
    BY DEF ReadInside
  <2>2. ASSUME pc[p] = "ranges" PROVE cur[p] <= total
    <3>1. /\ bucket_cnt \in DirectorySizes /\ total = Cardinality(Places)
          /\ cur[p] = Start(slot[p])
      BY <1>1, <2>2 DEF TableInv, TotalExact, MergeExact, ThreadExact, RangePart, Types, MapTypes
    <3> QED
      BY <1>1, <3>1, StartFacts
  <2>3. \A cell \in Access(p) : cell[2] \in Indices(cell[1])
    BY <1>1, CellsThere
  <2> QED
    BY <2>1, <2>2, <2>3
<1>4. CompareInside
  <2> SUFFICES ASSUME stage = "probe"
               PROVE  /\ tuple_count = total
                      /\ \A t \in Threads :
                           pc[t] = "compare" => idx[t] < idx_end[t] /\ idx_end[t] <= tuple_count
    BY DEF CompareInside
  <2>1. tuple_count = total
    BY <1>1 DEF IInv, CountStored
  <2>2. ASSUME NEW t \in Threads, pc[t] = "compare"
        PROVE  idx[t] < idx_end[t] /\ idx_end[t] <= total
    <3> DEFINE key == get_value(ProbeColumn, row[t])
    <3>1. key # Null /\ idx[t] < idx_end[t] /\ idx_end[t] = lookup_range(key)[2]
      BY <1>1, <2>2 DEF RangesLookedUp
    <3>2. key \in Keys
      BY <1>1, <2>2, <3>1, RowRead
    <3> HIDE DEF key
    <3>3. total \in Nat
      BY <1>1 DEF Types, MainTypes
    <3> QED
      BY <1>1, <3>1, <3>2, <3>3, LookupInside
  <2> QED
    BY <2>1, <2>2
<1> QED
  BY <1>1, <1>2, <1>3, <1>4 DEF TypeOK

\* In every state of every sequence of joins each variable holds a value of
\* its kind, and the cursors of the three phases point into the column, the
\* collector, the directory, write_cursor and the tuple array whenever the
\* code is about to use them (run_unchained and its phases).
THEOREM TypeCorrect == Spec => []TypeOK
<1>1. Init => ReadInside
  BY DEF Init, ReadInside
<1>2. Spec => []ReadInside
  BY <1>1, Invariant, ReadStep, PTL DEF Spec
<1> QED
  BY <1>2, ResultInvariant, CursorsInside, PTL

\* Pairs are few: no thread emits more than there are pairs of rows.
LEMMA PairsBound ==
  ASSUME ResultInv, stage = "probe", NEW t \in Threads
  PROVE  Len(local_results[t]) <= Len(BuildColumn) * Len(ProbeColumn)
<1> DEFINE n == Len(local_results[t])
           b == Len(BuildColumn)
           c == Len(ProbeColumn)
           B == 0 .. b - 1
           C == 0 .. c - 1
           K == Pairs(t)
           f == [k \in K |-> <<BuildRowOf(local_results[t][k]), ProbeRowOf(local_results[t][k])>>]
<1>1. b \in Nat /\ c \in Nat /\ n \in Nat
  <2>1. Types
    BY DEF ResultInv, TableInv, CollectInv, IInv
  <2> QED
    BY <2>1, Columns DEF Types, ProbeTypes
<1>2. \A k \in K : /\ local_results[t][k] \in Matches
                   /\ BuildRowOf(local_results[t][k]) \in B
                   /\ ProbeRowOf(local_results[t][k]) \in C
                   /\ local_results[t][k] = OutputPair(BuildRowOf(local_results[t][k]),
                                                       ProbeRowOf(local_results[t][k]))
  BY MatchRows DEF ResultInv, PairsExact, Row
<1>3. \A k, l \in K : local_results[t][k] = local_results[t][l] => k = l
  BY DEF ResultInv, PairsDistinct
<1>4. /\ IsFiniteSet(B) /\ Cardinality(B) = b
      /\ IsFiniteSet(C) /\ Cardinality(C) = c
      /\ Cardinality(K) = n
  <2>1. ASSUME NEW a \in Nat PROVE /\ IsFiniteSet(0 .. a - 1) /\ Cardinality(0 .. a - 1) = a
                                   /\ Cardinality(1 .. a) = a
    <3>1. /\ IsFiniteSet(0 .. a - 1)
          /\ Cardinality(0 .. a - 1) = IF 0 > a - 1 THEN 0 ELSE a - 1 - 0 + 1
          /\ Cardinality(1 .. a) = IF 1 > a THEN 0 ELSE a - 1 + 1
      BY FS_Interval
    <3> QED
      BY <3>1
  <2> HIDE DEF b, c, n
  <2> QED
    BY <1>1, <2>1 DEF Pairs, n
<1> HIDE DEF K, B, C, b, c, n
<1>5. f \in [K -> B \X C]
  BY <1>2
<1>6. \A k, l \in K : f[k] = f[l] => k = l
  <2> SUFFICES ASSUME NEW k \in K, NEW l \in K, f[k] = f[l] PROVE k = l
    OBVIOUS
  <2>1. /\ BuildRowOf(local_results[t][k]) = BuildRowOf(local_results[t][l])
        /\ ProbeRowOf(local_results[t][k]) = ProbeRowOf(local_results[t][l])
    OBVIOUS
  <2>2. local_results[t][k] = local_results[t][l]
    BY <1>2, <2>1
  <2> QED
    BY <1>3, <2>2
<1> HIDE DEF f
<1>7. f \in Injection(K, B \X C)
  BY <1>5, <1>6 DEF Injection, IsInjective
<1>8. IsFiniteSet(B \X C) /\ Cardinality(B \X C) = b * c
  BY <1>4, FS_Product
<1>9. Cardinality(K) <= Cardinality(B \X C)
  BY <1>7, <1>8, FS_Injection
<1> QED
  BY <1>4, <1>8, <1>9 DEF n, b, c

\* While the probe runs, each match of a handled probe row has been emitted
\* once, by one thread, and nothing else has, however threads claim morsels
\* (probe_phase).
THEOREM EachMatchEmittedOnce == Spec => []EmittedExactlyOnce
<1>1. ResultInv => EmittedExactlyOnce
  <2> SUFFICES ASSUME ResultInv, stage = "probe" PROVE EmittedExactlyOnce
    BY DEF EmittedExactlyOnce
  <2>1. ASSUME NEW x \in Emissions
        PROVE  /\ x[1] \in Threads /\ x[2] \in Pairs(x[1]) /\ x = <<x[1], x[2]>>
    BY DEF Emissions, Pairs
  <2>2. ASSUME NEW t \in Threads, NEW k \in Pairs(t) PROVE <<t, k>> \in Emissions
    <3>1. Len(local_results[t]) <= Len(BuildColumn) * Len(ProbeColumn)
      BY PairsBound
    <3>2. Types
      BY DEF ResultInv, TableInv, CollectInv, IInv
    <3>3. /\ Len(local_results[t]) \in Nat
          /\ Len(BuildColumn) \in Nat /\ Len(ProbeColumn) \in Nat
      BY <3>2, Columns DEF Types, ProbeTypes
    <3>4. Len(BuildColumn) * Len(ProbeColumn) \in Nat
      BY <3>3
    <3> DEFINE bound == Len(BuildColumn) * Len(ProbeColumn)
    <3>5. k \in 1 .. bound /\ k <= Len(local_results[t])
      <4> HIDE DEF bound
      <4>1. bound \in Nat /\ Len(local_results[t]) <= bound
        BY <3>1, <3>4 DEF bound
      <4> QED
        BY <3>3, <4>1 DEF Pairs
    <3> QED
      BY <3>5 DEF Emissions
  <2>3. \A x, y \in Emissions : Emitted(x) = Emitted(y) => x = y
    <3> SUFFICES ASSUME NEW x \in Emissions, NEW y \in Emissions, Emitted(x) = Emitted(y)
                 PROVE  x = y
      OBVIOUS
    <3>1. x[1] = y[1] /\ x[2] = y[2]
      BY <2>1 DEF ResultInv, PairsDistinct, Emitted
    <3> QED
      BY <2>1, <3>1
  <2>4. \A x \in Emissions : Emitted(x) \in Abstract!Matches(job)
    BY <2>1 DEF ResultInv, PairsExact, Emitted, Matches
  <2>5. ASSUME NEW m \in Abstract!Matches(job), Handled(ProbeRowOf(m))
        PROVE  \E x \in Emissions : Emitted(x) = m
    <3>1. m \in Matches /\ Due(m)
      BY <2>5 DEF Matches, Due
    <3>2. PICK t \in Threads : \E k \in Pairs(t) : local_results[t][k] = m
      BY <3>1 DEF ResultInv, PairsExact
    <3>3. PICK k \in Pairs(t) : local_results[t][k] = m
      BY <3>2
    <3>4. <<t, k>> \in Emissions /\ Emitted(<<t, k>>) = m
      BY <2>2, <3>3 DEF Emitted
    <3> QED
      BY <3>4
  <2> QED
    BY <2>3, <2>4, <2>5 DEF EmittedExactlyOnce
<1> QED
  BY <1>1, ResultInvariant, PTL

\* run_unchained implements the abstract join: beginning a join begins it,
\* returning finishes it with an enumeration of the matches, and every step in
\* between is invisible.
THEOREM JoinIsImplemented == Spec => ImplementsJoin
<1>1. Init => Abstract!Init
  BY DEF Init, Abstract!Init
<1>2. ResultInv /\ [Next]_vars => [Abstract!Next]_(Abstract!vars)
  <2> SUFFICES ASSUME ResultInv, [Next]_vars
               PROVE  Abstract!Next \/ UNCHANGED Abstract!vars
    OBVIOUS
  <2>1. ASSUME NEW j \in Jobs, Begin(j) PROVE Abstract!Begin
    BY <2>1 DEF Begin, Abstract!Begin
  <2>2. CASE Return
    <3>1. Abstract!Enumerates(results, Abstract!Matches(job))
      BY <2>2, ReturnResult DEF Matches
    <3>2. stage = "gather" /\ stage' = "done" /\ results' = results /\ job' = job
      BY <2>2 DEF Return, jobVars
    <3> QED
      BY <3>1, <3>2 DEF Abstract!Next, Abstract!Finish, Abstract!Enumerates, Abstract!Matches,
         Abstract!Rows, Abstract!get_value
  <2>3. CASE JoinBuild \/ Tally \/ ForkMerge \/ JoinMerge \/ JoinProbe \/ Gather
    <3>1. stage \notin {"idle", "done"} /\ stage' \notin {"idle", "done"} /\ job' = job
      BY <2>3 DEF JoinBuild, Tally, ForkMerge, JoinMerge, JoinProbe, Gather, jobVars
    <3> QED
      BY <3>1 DEF Abstract!vars
  <2>4. ASSUME NEW t \in Threads, Thread(t) PROVE UNCHANGED Abstract!vars
    <3>1. stage \notin {"idle", "done"} /\ stage' = stage /\ job' = job
      BY <2>4 DEF Thread, BuildStep, Claim, ConsumeRow, MergeStep, CountTuple, NextCollector,
         EndOfCount, LastCollectorDone, SetRange, ScatterTuple, EndOfScatter, ProbeStep,
         ProbeRow, ProbeTuple, jobVars
    <3> QED
      BY <3>1 DEF Abstract!vars
  <2>5. CASE UNCHANGED vars
    BY <2>5 DEF vars, jobVars, Abstract!vars
  <2> QED
    BY <2>1, <2>2, <2>3, <2>4, <2>5 DEF Next, Main, Finished, Abstract!Next
<1> QED
  BY <1>1, <1>2, ResultInvariant, PTL DEF Spec, ImplementsJoin, Abstract!Spec
=============================================================================
