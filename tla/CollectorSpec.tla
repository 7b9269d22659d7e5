--------------------------- MODULE CollectorSpec ---------------------------
(***************************************************************************)
(* What a TupleCollector promises to the join: one growing sequence of     *)
(* tuples per partition, emptied by reset.  No memory, no chunks.          *)
(***************************************************************************)
EXTENDS Sequences

CONSTANTS
  Partitions, \* partition numbers
  Tuples,     \* the tuples that may be consumed
  PartOf      \* the partition of each tuple, [Tuples -> Partitions]

VARIABLE content

Init == content = [p \in Partitions |-> <<>>]

Consume(tuple) ==
  content' = [content EXCEPT ![PartOf[tuple]] = Append(@, tuple)]

Reset == content' = [p \in Partitions |-> <<>>]

Next == Reset \/ \E tuple \in Tuples : Consume(tuple)

Spec == Init /\ [][Next]_content
=============================================================================
