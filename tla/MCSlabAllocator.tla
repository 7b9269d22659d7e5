-------------------------- MODULE MCSlabAllocator --------------------------
(***************************************************************************)
(* Instance of SlabAllocator for TLC: two tuples fit into a small chunk    *)
(* with a byte to spare, and two small chunks into a large one.            *)
(***************************************************************************)
EXTENDS SlabAllocator

CONSTANTS t1, t2, t3

MCPartOf == t1 :> 0 @@ t2 :> 1 @@ t3 :> 1
=============================================================================
